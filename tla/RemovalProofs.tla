----------------------------- MODULE RemovalProofs -----------------------------
(***************************************************************************)
(* What deletions leave behind.  With no premise on the traffic the foreign *)
(* keys refuse whatever a handler in flight would write for an account or a *)
(* flight that has gone.  Under the premises of Reservations no deletion    *)
(* leads to a double booking, and what it leaves in seats and in the sorted *)
(* sets is what it took the bookings and the rows of.                       *)
(***************************************************************************)
EXTENDS RemovalInvariant, WaitlistSyncProofs

(* What a step may do to a booking: leave it whose it is, or delete it, *)
Kept(b) ==
    /\ bookings'[b].seat = bookings[b].seat
    /\ bookings'[b].status # "NONE" =>
           /\ Exists(b)
           /\ bookings'[b].user = bookings[b].user
           /\ bookings'[b].flight = bookings[b].flight

(* or make it under an id that has never been used, *)
Made(b) ==
    /\ bookings[b] = NoBooking
    /\ bookings'[b].user \in accounts
    /\ bookings'[b].seat \in Seat
    /\ bookings'[b].flight \in flights
    /\ bookings'[b].flight = FlightOf[bookings'[b].seat]

(* and the same of a row of the waitlist. *)
KeptRow(e) == rows'[e] # NoRow => rows'[e] = rows[e]
MadeRow(e) == rows'[e].user \in accounts /\ rows'[e].flight \in flights

Written == \A b \in BookingId : Kept(b) \/ Made(b)
WrittenRows == \A e \in EntryId : KeptRow(e) \/ MadeRow(e)

(* The handler h alone moves, and knows the seat it moves on to. *)
Moves(h) ==
    /\ \A g \in Handler \ {h} : job'[g] = job[g]
    /\ job'[h].pc \in SeatPc =>
           \/ job[h].pc \in SeatPc /\ job'[h].seat = job[h].seat /\ job'[h].flight = job[h].flight
           \/ job'[h].seat \in Seat /\ job'[h].flight = FlightOf[job'[h].seat]

-------------------------------------------------------------------------------
LEMMA TypeFacts ==
  ASSUME RInv
  PROVE  /\ TypeOK /\ JobsType
         /\ job \in [Handler -> Job] /\ todo \in [Handler -> SUBSET BookingId]
         /\ bookings \in [BookingId -> Booking] /\ rows \in [EntryId -> Row]
         /\ accounts \subseteq User /\ flights \subseteq Flight
  BY DEF RInv, RemovalType, TypeOK, StoreType, WaitlistType, HandlersType, JobsType

(* A step that leaves accounts and flights alone keeps the invariant. *)
LEMMA Kept1 ==
  ASSUME RInv, TypeOK', UNCHANGED tables, Placed', Written, WrittenRows
  PROVE  RInv'
  <1>1. RemovalType'
    BY DEF RInv, RemovalType, tables
  <1>2. UNCHANGED <<accounts, flights>>
    BY DEF tables
  <1>3. ASSUME NEW b \in BookingId, bookings'[b].status # "NONE"
        PROVE  /\ bookings'[b].user \in accounts /\ bookings'[b].flight \in flights
               /\ bookings'[b].seat \in Seat
               /\ bookings'[b].flight = FlightOf[bookings'[b].seat]
    BY <1>3 DEF Written, Kept, Made, RInv, NoOrphans, BookingShape, Exists
  <1>4. BookingShape'
    BY <1>3 DEF BookingShape
  <1>5. ASSUME NEW e \in EntryId, rows'[e] # NoRow
        PROVE  rows'[e].user \in accounts /\ rows'[e].flight \in flights
    BY <1>5 DEF WrittenRows, KeptRow, MadeRow, RInv, NoOrphans
  <1>6. NoOrphans'
    BY <1>2, <1>3, <1>5 DEF NoOrphans, Exists, SeatExists
  <1> QED
    BY <1>1, <1>4, <1>6 DEF RInv

LEMMA PlacedKept ==
  ASSUME RInv, NEW h \in Handler, Moves(h)
  PROVE  Placed'
  BY DEF Placed, Moves, RInv

LEMMA Unwritten1 ==
  ASSUME RInv
  PROVE  /\ UNCHANGED bookings => Written
         /\ UNCHANGED rows => WrittenRows
  BY DEF Written, Kept, Exists, WrittenRows, KeptRow

LEMMA GotoMoves ==
  ASSUME RInv, NEW h \in Handler, NEW p, Goto(h, p), p \in SeatPc => job[h].pc \in SeatPc
  PROVE  Moves(h)
  BY TypeFacts DEF Goto, Moves, Job

LEMMA FinishMoves ==
  ASSUME RInv, NEW h \in Handler, Finish(h)
  PROVE  Moves(h)
  <1> DEFINE r == IF todo[h] = {} THEN NoJob
                  ELSE [NoJob EXCEPT !.pc = "clean_next", !.kind = "cleanup"]
  <1>1. job' = [job EXCEPT ![h] = r]
    BY DEF Finish
  <1>2. r.pc = "idle" \/ r.pc = "clean_next"
    BY DEF NoJob
  <1> HIDE DEF r
  <1>3. r.pc \notin SeatPc
    BY <1>2 DEF SeatPc, LockPc, ConfirmPc, CancelPc, AssignPc
  <1>4. job'[h] = r /\ \A g \in Handler \ {h} : job'[g] = job[g]
    BY <1>1, TypeFacts
  <1> QED
    BY <1>3, <1>4 DEF Moves

LEMMA StatusWritten ==
  ASSUME RInv, NEW c, NEW v, UpdateStatus(c, v), Exists(c)
  PROVE  Written
  BY TypeFacts DEF UpdateStatus, Exists, Written, Kept, Booking

(* An insert is refused unless everything it refers to is there. *)
LEMMA Inserted ==
  ASSUME RInv, NEW h \in Handler, job[h].pc \in {"lock_create", "assign_create"}, ~ Misses(h),
         NEW b \in BookingId, NextBookingId(b),
         InsertBooking(b, job[h].user, job[h].flight, job[h].seat)
  PROVE  Written
  <1>1. job[h].user \in accounts /\ job[h].flight \in flights
    BY DEF Misses, NeedsOwner
  <1>2. job[h].seat \in Seat /\ job[h].flight = FlightOf[job[h].seat]
    BY DEF RInv, Placed, SeatPc, LockPc, AssignPc
  <1>3. \A c \in BookingId \ {b} : bookings'[c] = bookings[c]
    BY TypeFacts DEF InsertBooking
  <1>4. Made(b)
    BY <1>1, <1>2, TypeFacts DEF InsertBooking, NextBookingId, Made
  <1> QED
    BY <1>3, <1>4 DEF Written, Kept, Exists

-------------------------------------------------------------------------------
LEMMA BookingStepWrites ==
  ASSUME RInv, NEW h \in Handler, BookingStep(h), ~ Misses(h)
  PROVE  Moves(h) /\ Written /\ WrittenRows
  <1>1. WrittenRows
    BY Unwritten1
    DEF BookingStep, LockAcquire, LockCreate, LockSeat, ConfirmLock, ConfirmStatus, ConfirmSeat,
        CancelStatus, CancelSeat, CancelRelease, waitlist
  <1>2. Written
    <2>1. CASE LockCreate(h)
      BY <2>1, Inserted, Unwritten1 DEF LockCreate, At
    <2>2. CASE ConfirmStatus(h) \/ CancelStatus(h)
      BY <2>2, StatusWritten DEF ConfirmStatus, CancelStatus, At, Misses, NeedsBooking
    <2>3. CASE ~ LockCreate(h) /\ ~ ConfirmStatus(h) /\ ~ CancelStatus(h)
      BY <2>3, Unwritten1
      DEF BookingStep, LockAcquire, LockSeat, ConfirmLock, ConfirmSeat, CancelSeat,
          CancelRelease, store
    <2> QED
      BY <2>1, <2>2, <2>3
  <1>3. /\ job[h].pc \in LockPc \cup ConfirmPc \cup CancelPc
        /\ \/ Finish(h)
           \/ \E p : Goto(h, p)
           \/ \E b \in BookingId : job' = [job EXCEPT ![h].pc = "lock_seat", ![h].booking = b]
    BY DEF BookingStep, LockAcquire, LockCreate, LockSeat, ConfirmLock, ConfirmStatus, ConfirmSeat,
        CancelStatus, CancelSeat, CancelRelease, At, LockPc, ConfirmPc, CancelPc
  <1>4. job[h].pc \in SeatPc
    BY <1>3 DEF SeatPc
  <1>5. ASSUME NEW b \in BookingId, job' = [job EXCEPT ![h].pc = "lock_seat", ![h].booking = b]
        PROVE  Moves(h)
    BY <1>4, <1>5, TypeFacts DEF Moves, Job
  <1>6. Moves(h)
    BY <1>3, <1>4, <1>5, GotoMoves, FinishMoves
  <1> QED
    BY <1>1, <1>2, <1>6

LEMMA AssignStepWrites ==
  ASSUME RInv, NEW h \in Handler, AssignStep(h), ~ Misses(h)
  PROVE  Moves(h) /\ Written /\ WrittenRows
  <1>1. WrittenRows
    <2>1. CASE AssignRow(h)
      BY <2>1, Unwritten1, TypeFacts DEF AssignRow, DeleteRow, WrittenRows, KeptRow
    <2>2. CASE ~ AssignRow(h)
      BY <2>2, Unwritten1
      DEF AssignStep, AssignTop, AssignEntry, AssignConfirmed, AssignAcquire, AssignCreate,
          AssignSeat, AssignMember, waitlist
    <2> QED
      BY <2>1, <2>2
  <1>2. Written
    <2>1. CASE AssignCreate(h)
      BY <2>1, Inserted, Unwritten1 DEF AssignCreate, At
    <2>2. CASE ~ AssignCreate(h)
      BY <2>2, Unwritten1
      DEF AssignStep, AssignTop, AssignEntry, AssignConfirmed, AssignAcquire, AssignSeat,
          AssignRow, AssignMember, store
    <2> QED
      BY <2>1, <2>2
  <1>3. /\ job[h].pc \in AssignPc
        /\ \/ Finish(h)
           \/ \E p : Goto(h, p)
           \/ \E u \in User : job' = [job EXCEPT ![h].pc = "assign_entry", ![h].user = u]
           \/ \E e \in EntryId : job' = [job EXCEPT ![h].pc = "assign_confirmed", ![h].entry = e]
           \/ \E b \in BookingId : job' = [job EXCEPT ![h].pc = "assign_seat", ![h].booking = b]
    BY DEF AssignStep, AssignTop, AssignEntry, AssignConfirmed, AssignAcquire, AssignCreate,
        AssignSeat, AssignRow, AssignMember, At, AssignPc
  <1>4. job[h].pc \in SeatPc
    BY <1>3 DEF SeatPc
  <1>5. ASSUME \/ \E u \in User : job' = [job EXCEPT ![h].pc = "assign_entry", ![h].user = u]
               \/ \E e \in EntryId : job' = [job EXCEPT ![h].pc = "assign_confirmed", ![h].entry = e]
               \/ \E b \in BookingId : job' = [job EXCEPT ![h].pc = "assign_seat", ![h].booking = b]
        PROVE  Moves(h)
    BY <1>4, <1>5, TypeFacts DEF Moves, Job
  <1>6. Moves(h)
    BY <1>3, <1>4, <1>5, GotoMoves, FinishMoves
  <1> QED
    BY <1>1, <1>2, <1>6

LEMMA WaitlistStepWrites ==
  ASSUME RInv, NEW h \in Handler, WaitlistStep(h), ~ Misses(h)
  PROVE  Moves(h) /\ Written /\ WrittenRows
  <1>1. Written
    BY Unwritten1
    DEF WaitlistStep, JoinConfirmed, JoinCreate, JoinMember, LeaveRow, LeaveMember, store
  <1>2. WrittenRows
    <2>1. CASE LeaveRow(h)
      BY <2>1, Unwritten1, TypeFacts DEF LeaveRow, DeleteRow, WrittenRows, KeptRow
    <2>2. CASE JoinCreate(h)
      <3>1. CASE UNCHANGED rows
        BY <3>1, Unwritten1
      <3>2. CASE InsertRow(job[h].user, job[h].flight)
        <4>1. job[h].user \in accounts /\ job[h].flight \in flights
          BY <2>2 DEF JoinCreate, At, Misses, NeedsOwner
        <4>2. rows' = [rows EXCEPT ![issued + 1] =
                          [user |-> job[h].user, flight |-> job[h].flight]]
          BY <3>2 DEF InsertRow
        <4>3. ASSUME NEW e \in EntryId
              PROVE  KeptRow(e) \/ MadeRow(e)
          <5>1. CASE e = issued + 1
            <6>1. rows'[e] = [user |-> job[h].user, flight |-> job[h].flight]
              BY <4>2, <5>1, TypeFacts
            <6> QED
              BY <4>1, <6>1 DEF MadeRow
          <5>2. CASE e # issued + 1
            <6>1. rows'[e] = rows[e]
              BY <4>2, <5>2, TypeFacts
            <6> QED
              BY <6>1 DEF KeptRow
          <5> QED
            BY <5>1, <5>2
        <4> QED
          BY <4>3 DEF WrittenRows
      <3> QED
        BY <2>2, <3>1, <3>2 DEF JoinCreate
    <2>3. CASE ~ LeaveRow(h) /\ ~ JoinCreate(h)
      BY <2>3, Unwritten1 DEF WaitlistStep, JoinConfirmed, JoinMember, LeaveMember, waitlist
    <2> QED
      BY <2>1, <2>2, <2>3
  <1>3. Finish(h) \/ \E p \in JoinPc \cup LeavePc : Goto(h, p)
    BY DEF WaitlistStep, JoinConfirmed, JoinCreate, JoinMember, LeaveRow, LeaveMember, JoinPc,
        LeavePc
  <1>4. \A p \in JoinPc \cup LeavePc : p \notin SeatPc
    BY DEF JoinPc, LeavePc, SeatPc, LockPc, ConfirmPc, CancelPc, AssignPc
  <1>5. Moves(h)
    BY <1>3, <1>4, GotoMoves, FinishMoves
  <1> QED
    BY <1>1, <1>2, <1>5

LEMMA CleanupWrites ==
  ASSUME RInv, NEW h \in Handler, CleanupItem(h) \/ CleanupSeat(h)
  PROVE  Moves(h) /\ Written /\ WrittenRows
  <1>1. CASE CleanupSeat(h)
    BY <1>1, Unwritten1, GotoMoves DEF CleanupSeat, At, SeatPc, waitlist
  <1>2. ASSUME NEW b \in todo[h], CleanupSkip(h, b)
        PROVE  Moves(h) /\ Written /\ WrittenRows
    <2>1. job[h].pc = "clean_next" /\ UNCHANGED <<bookings, rows>>
      BY <1>2 DEF CleanupSkip, At, store, waitlist
    <2>2. \A g \in Handler \ {h} : job'[g] = job[g]
      BY <1>2, TypeFacts DEF CleanupSkip
    <2>3. job'[h] \in {NoJob, job[h]}
      BY <1>2, TypeFacts DEF CleanupSkip
    <2>4. job'[h].pc \in {"idle", "clean_next"}
      BY <2>1, <2>3 DEF NoJob
    <2>5. Moves(h)
      BY <2>2, <2>4 DEF Moves, SeatPc, LockPc, ConfirmPc, CancelPc, AssignPc
    <2> QED
      BY <2>1, <2>5, Unwritten1
  <1>3. ASSUME CleanupStatus(h), Exists(job'[h].booking)
        PROVE  Moves(h) /\ Written /\ WrittenRows
    <2>1. PICK b \in todo[h] :
             /\ UpdateStatus(b, "EXPIRED")
             /\ job' = [job EXCEPT ![h].pc = "clean_seat", ![h].booking = b,
                                   ![h].flight = bookings[b].flight, ![h].seat = bookings[b].seat]
      BY <1>3 DEF CleanupStatus
    <2>2. /\ \A g \in Handler \ {h} : job'[g] = job[g]
          /\ job'[h].booking = b /\ job'[h].seat = bookings[b].seat
          /\ job'[h].flight = bookings[b].flight
      BY <2>1, TypeFacts DEF Job
    <2>3. b \in BookingId /\ Exists(b)
      BY <1>3, <2>2, TypeFacts
    <2>4. Moves(h)
      BY <2>2, <2>3 DEF Moves, RInv, BookingShape, Exists
    <2> QED
      BY <1>3, <2>1, <2>3, <2>4, StatusWritten, Unwritten1 DEF CleanupStatus, waitlist
  <1> QED
    BY <1>1, <1>2, <1>3 DEF CleanupItem

LEMMA RejectedWrites ==
  ASSUME RInv, NEW h \in Handler, Rejected(h) \/ AssignUserGone(h)
  PROVE  Moves(h) /\ Written /\ WrittenRows
  <1>1. CASE Rejected(h)
    BY <1>1, Unwritten1, FinishMoves DEF Rejected, store, waitlist
  <1>2. CASE AssignUserGone(h)
    BY <1>2, Unwritten1, GotoMoves DEF AssignUserGone, At, SeatPc, AssignPc, store, waitlist
  <1> QED
    BY <1>1, <1>2

LEMMA WorkWrites ==
  ASSUME RInv, NEW h \in Handler, Work(h)
  PROVE  Moves(h) /\ Written /\ WrittenRows
  <1>1. CASE Statement(h)
    <2>1. CASE Step(h) /\ ~ At(h, "clean_next") /\ ~ Misses(h)
      BY <2>1, BookingStepWrites, AssignStepWrites, WaitlistStepWrites, CleanupWrites
      DEF Step, CleanupStep, CleanupStatus
    <2>2. CASE Rejected(h)
      BY <2>2, RejectedWrites
    <2> QED
      BY <1>1, <2>1, <2>2 DEF Statement
  <1> QED
    BY <1>1, CleanupWrites, RejectedWrites DEF Work

(* What a handler is sent off with was looked up in the tables. *)
LEMMA RequestWrites ==
  ASSUME RInv, NEW h \in Handler, Request(h)
  PROVE  Moves(h) /\ UNCHANGED <<bookings, rows>>
  <1>1. UNCHANGED <<bookings, rows>>
    BY DEF Request, LockCheck, JoinCheck, ConfirmCheck, CancelCheck, AdminCancelCheck, LeaveCheck,
        store, waitlist
  <1>2. ASSUME NEW r, job' = [job EXCEPT ![h] = r],
               r.pc \in SeatPc => r.seat \in Seat /\ r.flight = FlightOf[r.seat]
        PROVE  Moves(h)
    BY <1>2, TypeFacts DEF Moves
  <1>3. ASSUME NEW u, NEW f, NEW s \in Seat, LockCheck(h, u, f, s)
        PROVE  Moves(h)
    <2> DEFINE r == [NoJob EXCEPT !.pc = "lock_acquire", !.kind = "lock",
                                  !.user = u, !.flight = f, !.seat = s]
    <2>1. r.flight = f /\ r.seat = s
      BY DEF NoJob
    <2>2. job' = [job EXCEPT ![h] = r] /\ f = FlightOf[s]
      BY <1>3 DEF LockCheck, SeatOpen
    <2> HIDE DEF r
    <2> QED
      BY <1>2, <2>1, <2>2
  <1>4. ASSUME NEW b \in BookingId, NEW k, NEW p, OnBooking(h, b, k, p), Exists(b)
        PROVE  Moves(h)
    <2> DEFINE r == [NoJob EXCEPT !.pc = p, !.kind = k, !.booking = b,
                                  !.flight = bookings[b].flight, !.seat = bookings[b].seat]
    <2>1. r.flight = bookings[b].flight /\ r.seat = bookings[b].seat
      BY DEF NoJob
    <2>2. job' = [job EXCEPT ![h] = r]
      BY <1>4 DEF OnBooking
    <2>3. bookings[b].seat \in Seat /\ bookings[b].flight = FlightOf[bookings[b].seat]
      BY <1>4 DEF RInv, BookingShape, Exists
    <2> HIDE DEF r
    <2> QED
      BY <1>2, <2>1, <2>2, <2>3
  <1>5. ASSUME NEW p \in {"join_confirmed", "leave_row"}, NEW r,
               job' = [job EXCEPT ![h] = r], r.pc = p
        PROVE  Moves(h)
    BY <1>2, <1>5 DEF SeatPc, LockPc, ConfirmPc, CancelPc, AssignPc
  <1>6. ASSUME NEW u, NEW f, JoinCheck(h, u, f)
        PROVE  Moves(h)
    <2> DEFINE r == [NoJob EXCEPT !.pc = "join_confirmed", !.kind = "join",
                                  !.user = u, !.flight = f]
    <2>1. r.pc = "join_confirmed" /\ job' = [job EXCEPT ![h] = r]
      BY <1>6 DEF JoinCheck, NoJob
    <2> HIDE DEF r
    <2> QED
      BY <1>5, <2>1
  <1>7. ASSUME NEW e, LeaveCheck(h, e)
        PROVE  Moves(h)
    <2> DEFINE r == [NoJob EXCEPT !.pc = "leave_row", !.kind = "leave", !.user = rows[e].user,
                                  !.flight = rows[e].flight, !.entry = e]
    <2>1. r.pc = "leave_row" /\ job' = [job EXCEPT ![h] = r]
      BY <1>7 DEF LeaveCheck, NoJob
    <2> HIDE DEF r
    <2> QED
      BY <1>5, <2>1
  <1>8. Moves(h)
    BY <1>3, <1>4, <1>6, <1>7
    DEF Request, ConfirmCheck, Confirmable, CancelCheck, AdminCancelCheck, Cancellable, Exists
  <1> QED
    BY <1>1, <1>8

-------------------------------------------------------------------------------
LEMMA RejectedType ==
  ASSUME TypeOK, NEW h \in Handler, Rejected(h)
  PROVE  TypeOK'
  BY JobFacts, FinishType, Unwritten, TypeParts DEF Rejected

LEMMA WorkType ==
  ASSUME TypeOK, NEW h \in Handler, Work(h)
  PROVE  TypeOK'
  <1>1. CASE Statement(h)
    <2>1. CASE Step(h)
      BY <2>1, NextTypeOK DEF Next
    <2> QED
      BY <1>1, <2>1, RejectedType DEF Statement
  <1>2. CASE CleanupStatus(h)
    BY <1>2, CleanupStepType DEF CleanupStep
  <1>3. ASSUME NEW b \in todo[h], CleanupSkip(h, b)
        PROVE  TypeOK'
    <2>1. JobsType'
      <3>1. job' = [job EXCEPT ![h] = NoJob] \/ job' = job
        BY <1>3, JobFacts DEF CleanupSkip, JobsType
      <3>2. NoJob.pc \notin JoinPc
        BY DEF NoJob, JoinPc
      <3> QED
        BY <3>1, <3>2, JobFacts, NoJobType, StartType DEF JobsType
    <2>2. todo' \in [Handler -> SUBSET BookingId]
      BY <1>3 DEF CleanupSkip, TypeOK, HandlersType
    <2> QED
      BY <1>3, <2>1, <2>2, Unwritten, TypeParts DEF CleanupSkip
  <1>4. CASE AssignUserGone(h)
    <2>1. JobsType'
      BY <1>4, JobFacts, GotoType, PcType DEF AssignUserGone, AssignPc
    <2> QED
      BY <1>4, <2>1, Unwritten, TypeParts DEF AssignUserGone
  <1> QED
    BY <1>1, <1>2, <1>3, <1>4 DEF Work, CleanupItem

LEMMA RequestKnown ==
  ASSUME RInv, NEW h \in Handler, Request(h)
  PROVE  BookingRequest(h) \/ WaitlistRequest(h)
  BY TypeFacts DEF Request, BookingRequest, WaitlistRequest

LEMMA RequestType ==
  ASSUME RInv, NEW h \in Handler, Request(h)
  PROVE  TypeOK'
  BY TypeFacts, RequestKnown, BookingRequestType, WaitlistRequestType

-------------------------------------------------------------------------------
(* A deletion leaves every booking and every row it does not take. *)
LEMMA Deleted ==
  ASSUME RInv, NEW B, NEW E, DeleteBookings(B), DeleteRows(E),
         UNCHANGED <<locks, seats, issued, zset, job, todo>>
  PROVE  /\ TypeOK' /\ BookingShape' /\ Placed'
         /\ \A b \in BookingId : bookings'[b].seat = bookings[b].seat
         /\ \A b \in BookingId : bookings'[b].status # "NONE" =>
                b \notin B /\ bookings'[b] = bookings[b]
         /\ \A e \in EntryId : rows'[e] # NoRow => e \notin E /\ rows'[e] = rows[e]
  <1>1. ASSUME NEW b \in BookingId
        PROVE  /\ bookings'[b] \in Booking /\ bookings'[b].seat = bookings[b].seat
               /\ bookings'[b].status # "NONE" => b \notin B /\ bookings'[b] = bookings[b]
    <2>1. CASE b \in B
      <3>1. bookings'[b] = [bookings[b] EXCEPT !.status = "NONE"]
        BY <2>1 DEF DeleteBookings
      <3> QED
        BY <3>1, TypeFacts DEF Booking, BookingStatus
    <2>2. CASE b \notin B
      BY <2>2, TypeFacts DEF DeleteBookings
    <2> QED
      BY <2>1, <2>2
  <1>2. bookings' \in [BookingId -> Booking]
    BY <1>1 DEF DeleteBookings
  <1>3. rows' \in [EntryId -> Row]
    BY TypeFacts DEF DeleteRows, NoRow, Row
  <1>4. TypeOK'
    <2>1. UNCHANGED <<lock, seats, issued, zset, job, todo>>
      BY DEF locks
    <2> QED
      BY <1>2, <1>3, <2>1, TypeFacts
      DEF TypeOK, LocksType, StoreType, WaitlistType, HandlersType, JobsType
  <1>5. BookingShape'
    BY <1>1 DEF BookingShape, RInv
  <1>6. Placed'
    BY DEF Placed, RInv
  <1>7. \A e \in EntryId : rows'[e] # NoRow => e \notin E /\ rows'[e] = rows[e]
    BY DEF DeleteRows
  <1> QED
    BY <1>1, <1>4, <1>5, <1>6, <1>7

LEMMA UserDeleted ==
  ASSUME RInv, NEW u \in User, DeleteUser(u)
  PROVE  RInv' /\ Written
  <1> DEFINE B == {b \in BookingId : bookings[b].user = u}
             E == {e \in EntryId : rows[e].user = u}
  <1>1. /\ TypeOK' /\ BookingShape' /\ Placed'
        /\ \A b \in BookingId : bookings'[b].seat = bookings[b].seat
        /\ \A b \in BookingId : bookings'[b].status # "NONE" =>
               b \notin B /\ bookings'[b] = bookings[b]
        /\ \A e \in EntryId : rows'[e] # NoRow => e \notin E /\ rows'[e] = rows[e]
    <2>1. /\ DeleteBookings(B) /\ DeleteRows(E)
          /\ UNCHANGED <<locks, seats, issued, zset, job, todo>>
      BY DEF DeleteUser
    <2> QED
      BY <2>1, Deleted
  <1>2. accounts' = accounts \ {u} /\ flights' = flights
    BY DEF DeleteUser
  <1>3. RemovalType'
    BY <1>1, <1>2 DEF RInv, RemovalType
  <1>4. NoOrphans'
    <2>1. ASSUME NEW b \in BookingId, bookings'[b].status # "NONE"
          PROVE  /\ bookings'[b].user \in accounts' /\ bookings'[b].flight \in flights'
                 /\ FlightOf[bookings'[b].seat] \in flights'
      BY <1>1, <1>2, <2>1 DEF RInv, NoOrphans, Exists, SeatExists
    <2>2. ASSUME NEW e \in EntryId, rows'[e] # NoRow
          PROVE  rows'[e].user \in accounts' /\ rows'[e].flight \in flights'
      BY <1>1, <1>2, <2>2 DEF RInv, NoOrphans
    <2> QED
      BY <2>1, <2>2 DEF NoOrphans, Exists, SeatExists
  <1>5. Written
    BY <1>1 DEF Written, Kept, Exists
  <1> QED
    BY <1>1, <1>3, <1>4, <1>5 DEF RInv

LEMMA FlightDeleted ==
  ASSUME RInv, NEW f \in Flight, DeleteFlight(f)
  PROVE  RInv' /\ Written
  <1> DEFINE B == {b \in BookingId : bookings[b].flight = f}
             E == {e \in EntryId : rows[e].flight = f}
  <1>1. /\ TypeOK' /\ BookingShape' /\ Placed'
        /\ \A b \in BookingId : bookings'[b].seat = bookings[b].seat
        /\ \A b \in BookingId : bookings'[b].status # "NONE" =>
               b \notin B /\ bookings'[b] = bookings[b]
        /\ \A e \in EntryId : rows'[e] # NoRow => e \notin E /\ rows'[e] = rows[e]
    <2>1. /\ DeleteBookings(B) /\ DeleteRows(E)
          /\ UNCHANGED <<locks, seats, issued, zset, job, todo>>
      BY DEF DeleteFlight
    <2> QED
      BY <2>1, Deleted
  <1>2. flights' = flights \ {f} /\ accounts' = accounts
    BY DEF DeleteFlight
  <1>3. RemovalType'
    BY <1>1, <1>2 DEF RInv, RemovalType
  <1>4. NoOrphans'
    <2>1. ASSUME NEW b \in BookingId, bookings'[b].status # "NONE"
          PROVE  /\ bookings'[b].user \in accounts' /\ bookings'[b].flight \in flights'
                 /\ FlightOf[bookings'[b].seat] \in flights'
      <3>1. b \notin B /\ bookings'[b] = bookings[b] /\ bookings[b].status # "NONE"
        BY <1>1, <2>1
      <3>2. bookings[b].flight # f
        BY <3>1
      <3>3. bookings[b].flight = FlightOf[bookings[b].seat]
        BY <3>1 DEF RInv, BookingShape
      <3> QED
        BY <1>2, <3>1, <3>2, <3>3 DEF RInv, NoOrphans, Exists
    <2>2. ASSUME NEW e \in EntryId, rows'[e] # NoRow
          PROVE  rows'[e].user \in accounts' /\ rows'[e].flight \in flights'
      BY <1>1, <1>2, <2>2 DEF RInv, NoOrphans
    <2> QED
      BY <2>1, <2>2 DEF NoOrphans, Exists, SeatExists
  <1>5. Written
    BY <1>1 DEF Written, Kept, Exists
  <1> QED
    BY <1>1, <1>3, <1>4, <1>5 DEF RInv

-------------------------------------------------------------------------------
LEMMA RemovalStep ==
  ASSUME RInv, [RemovalNext]_removalVars
  PROVE  RInv' /\ Written
  <1>1. CASE Tick /\ UNCHANGED tables
    <2>1. TypeOK'
      BY <1>1, TypeFacts, TickType
    <2>2. Written
      <3>1. ASSUME NEW b \in BookingId
            PROVE  Kept(b)
        <4>1. bookings'[b] = bookings[b] \/ /\ bookings[b].status # "NONE"
                                            /\ bookings'[b] = [bookings[b] EXCEPT !.age = @ + 1]
          BY <1>1 DEF Tick, BookingsAge
        <4> QED
          BY <4>1, TypeFacts DEF Kept, Exists, Booking
      <3> QED
        BY <3>1 DEF Written
    <2>3. Placed' /\ WrittenRows
      BY <1>1, Unwritten1 DEF Placed, RInv, Tick, waitlist
    <2> QED
      BY <1>1, <2>1, <2>2, <2>3, Kept1
  <1>2. ASSUME NEW h \in Proc, Request(h), UNCHANGED tables
        PROVE  RInv' /\ Written
    BY <1>2, RequestType, RequestWrites, PlacedKept, Unwritten1, Kept1 DEF Handler
  <1>3. ASSUME NEW h \in Cron, CleanupFind(h), UNCHANGED tables
        PROVE  RInv' /\ Written
    <2>1. TypeOK'
      BY <1>3, TypeFacts, CleanupFindType DEF Handler
    <2>2. Written /\ WrittenRows
      BY <1>3, Unwritten1 DEF CleanupFind, store, waitlist
    <2> DEFINE r == [NoJob EXCEPT !.pc = "clean_next", !.kind = "cleanup"]
    <2>3. r.pc = "clean_next" /\ job' = [job EXCEPT ![h] = r]
      BY <1>3 DEF CleanupFind, NoJob
    <2> HIDE DEF r
    <2>4. r.pc \notin SeatPc
      BY <2>3 DEF SeatPc, LockPc, ConfirmPc, CancelPc, AssignPc
    <2>5. h \in Handler /\ Moves(h)
      BY <2>3, <2>4, TypeFacts DEF Moves, Handler
    <2> QED
      BY <1>3, <2>1, <2>2, <2>5, PlacedKept, Kept1
  <1>4. ASSUME NEW h \in Handler, Work(h), UNCHANGED tables
        PROVE  RInv' /\ Written
    BY <1>4, TypeFacts, WorkType, WorkWrites, PlacedKept, Kept1
  <1>5. CASE UNCHANGED removalVars
    <2>1. UNCHANGED vars /\ UNCHANGED tables /\ UNCHANGED <<bookings, rows, job>>
      BY <1>5 DEF removalVars, vars, tables
    <2>2. TypeOK'
      BY <2>1, TypeFacts, NextTypeOK
    <2>3. Placed'
      BY <2>1 DEF Placed, RInv
    <2> QED
      BY <2>1, <2>2, <2>3, Unwritten1, Kept1
  <1> QED
    BY <1>1, <1>2, <1>3, <1>4, <1>5, UserDeleted, FlightDeleted DEF RemovalNext

LEMMA SeededRInv ==
  ASSUME SeededBookings, SeededWaitlist, accounts = User, flights = Flight
  PROVE  StoreType /\ WaitlistType /\ BookingShape /\ NoOrphans
  <1>0. PICK n \in 0 .. MaxBookings :
          \E user \in Injection(1 .. n, User), seat \in Injection(1 .. n, Seat) :
              /\ bookings = [b \in BookingId |->
                     IF b > n THEN NoBooking
                     ELSE [user |-> user[b], flight |-> FlightOf[seat[b]], seat |-> seat[b],
                           status |-> "CONFIRMED", age |-> 0]]
              /\ seats = [s \in Seat |->
                     IF \E b \in 1 .. n : seat[b] = s THEN "BOOKED" ELSE "AVAILABLE"]
    BY DEF SeededBookings
  <1>1. PICK user \in Injection(1 .. n, User), seat \in Injection(1 .. n, Seat) :
          /\ bookings = [b \in BookingId |->
                 IF b > n THEN NoBooking
                 ELSE [user |-> user[b], flight |-> FlightOf[seat[b]], seat |-> seat[b],
                       status |-> "CONFIRMED", age |-> 0]]
          /\ seats = [s \in Seat |->
                 IF \E b \in 1 .. n : seat[b] = s THEN "BOOKED" ELSE "AVAILABLE"]
    BY <1>0
  <1>2. user \in [1 .. n -> User] /\ seat \in [1 .. n -> Seat]
    BY DEF Injection, IsInjective
  <1>3. ASSUME NEW b \in BookingId
        PROVE  /\ bookings[b] \in Booking
               /\ bookings[b].status # "NONE" =>
                      /\ bookings[b].user \in User /\ bookings[b].seat \in Seat
                      /\ bookings[b].flight = FlightOf[bookings[b].seat]
    <2>1. CASE b > n
      <3>1. bookings[b] = NoBooking
        BY <1>1, <2>1
      <3> QED
        BY <3>1, DomainAssumption DEF NoBooking, Booking, BookingStatus
    <2>2. CASE ~ (b > n)
      <3>1. b \in 1 .. n
        BY <2>2 DEF BookingId
      <3>2. user[b] \in User /\ seat[b] \in Seat /\ FlightOf[seat[b]] \in Flight
        BY <1>2, <3>1, DomainAssumption
      <3>3. bookings[b] = [user |-> user[b], flight |-> FlightOf[seat[b]], seat |-> seat[b],
                           status |-> "CONFIRMED", age |-> 0]
        BY <1>1, <2>2
      <3> QED
        BY <3>2, <3>3, DomainAssumption DEF Booking, BookingStatus
    <2> QED
      BY <2>1, <2>2
  <1>4. StoreType
    BY <1>1, <1>3 DEF StoreType, SeatStatus
  <1>5. BookingShape
    BY <1>3 DEF BookingShape
  <1> DEFINE Left == {u \in User : \A b \in BookingId : bookings[b].user # u}
  <1>6. PICK who \in Bijection(1 .. issued, Left), what \in [1 .. issued -> Flight] :
          rows = [e \in EntryId |->
                     IF e > issued THEN NoRow ELSE [user |-> who[e], flight |-> what[e]]]
    BY DEF SeededWaitlist
  <1>7. issued \in 0 .. MaxEntries /\ zset = [f \in Flight |-> {}]
    BY DEF SeededWaitlist
  <1>8. who \in [1 .. issued -> Left]
    BY DEF Bijection, Injection, IsInjective
  <1>9. ASSUME NEW e \in EntryId
        PROVE  rows[e] \in Row /\ (rows[e] # NoRow => rows[e].user \in User /\ rows[e].flight \in Flight)
    <2>1. CASE e > issued
      BY <1>6, <2>1 DEF Row, NoRow
    <2>2. CASE ~ (e > issued)
      <3>1. e \in 1 .. issued
        BY <1>7, <2>2 DEF EntryId
      <3>2. who[e] \in User /\ what[e] \in Flight
        BY <1>8, <3>1
      <3> QED
        BY <1>6, <2>2, <3>2 DEF Row
    <2> QED
      BY <2>1, <2>2
  <1>10. WaitlistType
    BY <1>6, <1>7, <1>9 DEF WaitlistType
  <1>11. NoOrphans
    BY <1>3, <1>9, DomainAssumption DEF NoOrphans, Exists, SeatExists
  <1> QED
    BY <1>4, <1>5, <1>10, <1>11

LEMMA RemovalStart ==
  ASSUME RemovalInit
  PROVE  RInv
  <1>1. LocksType
    BY DomainAssumption DEF RemovalInit, LocksInit, LocksType, NoLock, Lock
  <1>2. HandlersType
    BY NoJobType, PcType DEF RemovalInit, HandlersInit, HandlersType, JobsType, NoJob, JoinPc
  <1>3. Placed
    BY DEF RemovalInit, HandlersInit, NoJob, Placed, SeatPc, LockPc, ConfirmPc, CancelPc, AssignPc
  <1>4. accounts = User /\ flights = Flight
    BY DEF RemovalInit
  <1>5. StoreType /\ WaitlistType /\ BookingShape /\ NoOrphans
    <2>1. CASE StoreInit /\ WaitlistInit
      <3>1. \A b \in BookingId : bookings[b].status = "NONE"
        BY <2>1 DEF StoreInit, NoBooking
      <3>2. \A e \in EntryId : rows[e] = NoRow
        BY <2>1 DEF WaitlistInit
      <3>3. StoreType
        BY <2>1, DomainAssumption
        DEF StoreInit, StoreType, NoBooking, Booking, BookingStatus, SeatStatus
      <3>4. WaitlistType
        BY <2>1, WaitlistAssumption DEF WaitlistInit, WaitlistType, NoRow, Row
      <3> QED
        BY <3>1, <3>2, <3>3, <3>4 DEF BookingShape, NoOrphans, Exists
    <2> QED
      BY <1>4, <2>1, SeededRInv DEF RemovalInit
  <1> QED
    BY <1>1, <1>2, <1>3, <1>4, <1>5 DEF RInv, RemovalType, TypeOK

LEMMA RemovalAlways == RemovalSpec => []RInv
  <1>1. RemovalInit => RInv
    BY RemovalStart
  <1>2. RInv /\ [RemovalNext]_removalVars => RInv'
    BY RemovalStep
  <1> QED
    BY <1>1, <1>2, PTL DEF RemovalSpec

(* Deletions under handlers in flight keep every variable well typed. *)
THEOREM RemovalTypes == RemovalSpec => []RemovalType
  <1>1. RInv => RemovalType
    BY DEF RInv
  <1> QED
    BY <1>1, RemovalAlways, PTL

(* No booking and no waitlist row ever belongs to an account or a flight that *)
(* has been deleted, whatever was in flight when it went.                     *)
THEOREM OrphansNever == RemovalSpec => []NoOrphans
  <1>1. RInv => NoOrphans
    BY DEF RInv
  <1> QED
    BY <1>1, RemovalAlways, PTL

(* A booking that a deletion took never comes back, although handlers that  *)
(* read it before go on and its id is written by their status updates.      *)
THEOREM DeletedStaysDeleted == RemovalSpec => NeverRevived
  <1>1. RInv /\ [RemovalNext]_removalVars =>
          [\A b \in BookingId : bookings[b] # NoBooking /\ ~ Exists(b) =>
              bookings'[b].status = "NONE"]_removalVars
    <2>1. Written => \A b \in BookingId : bookings[b] # NoBooking /\ ~ Exists(b) =>
              bookings'[b].status = "NONE"
      BY DEF Written, Kept, Made
    <2> QED
      BY <2>1, RemovalStep
  <1> QED
    BY <1>1, RemovalAlways, PTL DEF RemovalSpec, NeverRevived

-------------------------------------------------------------------------------
(* The seats.  A handler whose statement is rejected leaves its seat as it  *)
(* is: the passenger it was marking, or putting off the seat, is deleted.   *)
LEMMA Abandoned ==
  ASSUME CoreInv, NoOrphans, TypeOK', NEW h \in Handler, Misses(h), Rejected(h)
  PROVE  CoreInv'
  <1>1. Finish(h) /\ UNCHANGED <<lock, bookings, seats, todo>>
    BY DEF Rejected, locks, store
  <1>2. CASE job[h].pc \notin MarkPc \cup {"cancel_seat", "clean_seat"}
    BY <1>1, <1>2, GiveUp
  <1>3. CASE job[h].pc \in MarkPc \cup {"cancel_seat", "clean_seat"}
    <2>1. ~ SeatExists(job[h].seat)
      BY <1>3 DEF Misses, NeedsOwner, NeedsBooking, MarkPc
    <2>2. \A s \in Seat : On(h, MarkPc, s) => Free(s)
      BY <2>1 DEF NoOrphans, Exists, Free, ActiveOn, Active, On
    <2>3. \A s \in Seat : On(h, {"cancel_seat", "clean_seat"}, s) => \E b \in BookingId : Lost(b, s)
      BY <2>1 DEF CoreInv, EndedThere, NoOrphans, Exists, Lost, On
    <2>4. job'[h].pc \notin TokenPc \cup CancelPc \cup {"clean_seat"} \cup SeekPc \cup ConfirmPc
      BY <1>1, FinishFacts DEF TokenPc, CreatePc, MarkPc, CancelPc, SeekPc, ConfirmPc
    <2>5. \A s \in Seat : WorksOn(h, s)' => WorksOn(h, s) /\ job'[h].kind = job[h].kind
      BY <1>1, FinishFacts, DomainAssumption DEF WorksOn
    <2>6. JobShape' /\ Separation' /\ TodoExpired'
      BY <1>1, <2>5, FinishFacts, ShapeKept, SeparationKept, SameBookings
    <2> QED
      BY <1>1, <2>2, <2>3, <2>4, <2>6, FinishFacts, NothingNew DEF On
  <1> QED
    BY <1>2, <1>3

(* An item of the cleanup's list that is skipped. *)
LEMMA Skipped ==
  ASSUME CoreInv, TypeOK', NEW h \in Handler, NEW b \in todo[h], CleanupSkip(h, b)
  PROVE  CoreInv'
  <1>1. /\ job[h].pc = "clean_next" /\ UNCHANGED <<lock, bookings, seats>>
        /\ todo' = [todo EXCEPT ![h] = @ \ {b}]
        /\ job' = [job EXCEPT ![h] = IF todo[h] = {b} THEN NoJob ELSE @]
    BY DEF CleanupSkip, At, locks, store
  <1>2. job[h].kind = "cleanup" /\ job[h].seat = Nil
    BY <1>1 DEF CoreInv, JobShape, Shape, CleanPc, SeatPc, LockPc, ConfirmPc, CancelPc, AssignPc
  <1>3. /\ Others(h) /\ todo'[h] = todo[h] \ {b}
        /\ job'[h] = IF todo[h] = {b} THEN NoJob ELSE job[h]
    BY <1>1, JobFunction DEF Others, CoreInv, TypeOK, HandlersType
  <1>4. /\ job'[h].seat = Nil
        /\ \/ job'[h].pc = "clean_next" /\ job'[h].kind = "cleanup"
           \/ job'[h].pc = "idle" /\ todo'[h] = {}
    BY <1>1, <1>2, <1>3 DEF NoJob
  <1>5. Shape(h)'
    BY <1>3, <1>4 DEF Shape, SeatPc, LockPc, ConfirmPc, CancelPc, CleanPc, AssignPc
  <1>6. JobShape'
    BY <1>3, <1>5, ShapeKept
  <1>7. \A s \in Seat : WorksOn(h, s)' => WorksOn(h, s) /\ job'[h].kind = job[h].kind
    BY <1>1, <1>2, <1>3, <1>4, DomainAssumption DEF WorksOn
  <1>8. Separation'
    BY <1>1, <1>3, <1>7, SeparationKept
  <1>9. TodoExpired'
    BY <1>1, <1>3 DEF CoreInv, TodoExpired, ExpiredLocked, Others
  <1>10. job'[h].pc \notin TokenPc \cup CancelPc \cup {"clean_seat"} \cup SeekPc \cup ConfirmPc
    BY <1>4 DEF TokenPc, CreatePc, MarkPc, CancelPc, SeekPc, ConfirmPc
  <1>11. job[h].pc \notin MarkPc \cup {"cancel_seat", "clean_seat"}
    BY <1>1 DEF MarkPc
  <1> QED
    BY <1>1, <1>3, <1>6, <1>8, <1>9, <1>10, <1>11, NothingNew DEF On

(* A deletion takes passengers off seats and touches no seat. *)
LEMMA DeletionInv ==
  ASSUME CoreInv, TypeOK', BookingShape', NEW B, DeleteBookings(B),
         UNCHANGED <<lock, seats, job, todo>>
  PROVE  CoreInv'
  <1>1. \A b \in BookingId :
            /\ bookings[b] \in Booking
            /\ bookings'[b] = IF b \in B THEN [bookings[b] EXCEPT !.status = "NONE"] ELSE bookings[b]
    BY DEF DeleteBookings, CoreInv, TypeOK, StoreType
  <1>2. \A b \in BookingId :
            /\ bookings'[b].user = bookings[b].user /\ bookings'[b].seat = bookings[b].seat
            /\ bookings'[b].flight = bookings[b].flight /\ bookings'[b].age = bookings[b].age
            /\ bookings'[b].status = bookings[b].status \/ bookings'[b].status = "NONE"
    BY <1>1 DEF Booking
  <1>3. ASSUME NEW b \in BookingId, bookings[b] # NoBooking
        PROVE  bookings'[b] # NoBooking
    <2>1. CASE bookings[b].status = "NONE" /\ b \in B
      <3>1. [bookings[b] EXCEPT !.status = "NONE"] = bookings[b]
        BY <1>1, <2>1 DEF Booking
      <3> QED
        BY <1>1, <1>3, <2>1, <3>1
    <2>2. CASE b \notin B
      BY <1>1, <1>3, <2>2
    <2>3. CASE bookings[b].status # "NONE"
      <3>1. bookings'[b].seat \in Seat
        BY <1>2, <2>3 DEF CoreInv, BookingShape
      <3> QED
        BY <3>1, DomainAssumption DEF NoBooking
    <2> QED
      BY <2>1, <2>2, <2>3
  <1>4. \A b \in BookingId, s \in Seat :
            /\ ActiveOn(b, s)' => ActiveOn(b, s) /\ bookings'[b].status = bookings[b].status
            /\ Lost(b, s) => Lost(b, s)'
            /\ ActiveOn(b, s) => ActiveOn(b, s)' \/ Lost(b, s)'
            /\ ActiveOrLost(b, s) => ActiveOrLost(b, s)'
    BY <1>2 DEF ActiveOn, Active, Lost, ActiveOrLost
  <1>5. \A s \in Seat : /\ Live(s)' = Live(s)
                        /\ Free(s) => Free(s)'
                        /\ Free(s)' /\ ~ Free(s) => \E b \in BookingId : Lost(b, s)'
    BY <1>4 DEF Free, Live, HasLock
  <1>6. \A h \in Handler : todo[h] \subseteq BookingId
    BY DEF CoreInv, TypeOK, HandlersType
  <1>7. JobShape' /\ TokenLive' /\ TokenUnique'
    BY <1>5 DEF CoreInv, JobShape, Shape, TokenLive, TokenUnique, On
  <1>8. Separation'
    <2>1. \A h \in Handler, s \in Seat : WorksOn(h, s)' <=> WorksOn(h, s)
      BY <1>2, <1>6 DEF WorksOn
    <2> QED
      BY <2>1 DEF CoreInv, Separation
  <1>9. CreateFree' /\ MarkActive'
    BY <1>4, <1>5 DEF CoreInv, CreateFree, MarkActive, On
  <1>10. OneActive' /\ OpenTaken'
    BY <1>4 DEF CoreInv, OneActive, OpenTaken, On
  <1>11. ClosedFree'
    BY <1>4, <1>5 DEF CoreInv, ClosedFree, On
  <1>12. SeekBlocked' /\ HoldLock'
    BY <1>2, <1>4, <1>5 DEF CoreInv, SeekBlocked, HoldLock, On
  <1>13. ConfirmActive'
    <2> SUFFICES ASSUME NEW h \in Handler, NEW s \in Seat, On(h, ConfirmPc, s)
                 PROVE  /\ job[h].booking \in BookingId
                        /\ ActiveOrLost(job[h].booking, s)'
                        /\ job[h].pc = "confirm_seat" =>
                               bookings'[job[h].booking].status \in {"CONFIRMED", "NONE"}
      BY <1>5 DEF ConfirmActive, On
    <2> QED
      BY <1>2, <1>4 DEF CoreInv, ConfirmActive
  <1>14. CancelFree' /\ CleanFree' /\ EndedThere'
    BY <1>2, <1>4, <1>5 DEF CoreInv, CancelFree, CleanFree, EndedThere, On
  <1>15. TodoExpired'
    <2> SUFFICES ASSUME NEW h \in Handler, NEW b \in BookingId, b \in todo[h]
                 PROVE  (b \in ExpiredLocked \/ (bookings[b].status = "NONE" /\ bookings[b] # NoBooking))'
      BY DEF TodoExpired
    <2>1. b \in ExpiredLocked \/ (bookings[b].status = "NONE" /\ bookings[b] # NoBooking)
      BY DEF CoreInv, TodoExpired
    <2>2. b \in ExpiredLocked => bookings[b] # NoBooking
      BY DEF ExpiredLocked, NoBooking
    <2> QED
      BY <1>2, <1>3, <2>1, <2>2 DEF ExpiredLocked
  <1> QED
    BY <1>7, <1>8, <1>9, <1>10, <1>11, <1>12, <1>13, <1>14, <1>15 DEF CoreInv

(* The work of a handler, on tables that may have lost rows. *)
LEMMA WorkInv ==
  ASSUME Premises, CoreInv, NoOrphans, TypeOK', NEW h \in Handler, Work(h)
  PROVE  CoreInv'
  <1>1. CASE Misses(h) /\ Rejected(h)
    BY <1>1, Abandoned
  <1>2. CASE ~ Misses(h) /\ ~ At(h, "clean_next") /\ Step(h)
    <2>1. job[h].pc \in {"confirm_status", "cancel_status"} =>
              bookings[job[h].booking].status # "NONE"
      BY <1>2 DEF Misses, NeedsBooking, Exists
    <2>2. ~ CleanupStatus(h)
      BY <1>2 DEF CleanupStatus
    <2> QED
      BY <1>2, <2>1, <2>2, BookingStepInv, CleanupSeatInv, AssignStepInv, WaitlistInv
      DEF Step, CleanupStep
  <1>3. CASE CleanupStatus(h) /\ Exists(job'[h].booking)
    <2>1. PICK c \in todo[h] :
             /\ UpdateStatus(c, "EXPIRED")
             /\ todo' = [todo EXCEPT ![h] = @ \ {c}]
             /\ job' = [job EXCEPT ![h].pc = "clean_seat", ![h].booking = c,
                                   ![h].flight = bookings[c].flight, ![h].seat = bookings[c].seat]
      BY <1>3 DEF CleanupStatus
    <2>2. job'[h].booking = c
      BY <2>1, JobFunction DEF Job
    <2>3. bookings[c].status # "NONE"
      BY <1>3, <2>2 DEF Exists
    <2> QED
      BY <1>3, <2>1, <2>3, CleanupStatusInv DEF CleanupStatus
  <1>4. CASE \E b \in todo[h] : ~ Exists(b) /\ CleanupSkip(h, b)
    BY <1>4, Skipped
  <1>5. CASE AssignUserGone(h)
    <2>1. /\ job[h].pc = "assign_confirmed" /\ Goto(h, "assign_member")
          /\ UNCHANGED <<lock, bookings, seats, todo>>
      BY <1>5 DEF AssignUserGone, At, locks, store
    <2> QED
      BY <2>1, GotoFacts, GoOn DEF SeekPc
  <1> QED
    BY <1>1, <1>2, <1>3, <1>4, <1>5 DEF Work, Statement, CleanupItem

LEMMA SeatsStep == Premises /\ CoreInv /\ RInv /\ [RemovalNext]_removalVars => CoreInv'
  <1> SUFFICES ASSUME Premises, CoreInv, RInv, [RemovalNext]_removalVars PROVE CoreInv'
    OBVIOUS
  <1>1. TypeOK' /\ BookingShape' /\ NoOrphans
    BY RemovalStep DEF RInv, RemovalType
  <1>2. CASE \E h \in Proc : Request(h)
    BY <1>1, <1>2, RequestKnown, RequestInv, WaitlistInv DEF Handler
  <1>3. CASE \E h \in Cron : CleanupFind(h)
    BY <1>1, <1>3, FindInv DEF Handler
  <1>4. CASE \E h \in Handler : Work(h)
    BY <1>1, <1>4, WorkInv
  <1>5. CASE \E u \in User : DeleteUser(u)
    BY <1>1, <1>5, DeletionInv DEF DeleteUser, locks
  <1>6. CASE \E f \in Flight : DeleteFlight(f)
    BY <1>1, <1>6, DeletionInv DEF DeleteFlight, locks
  <1>7. CASE UNCHANGED removalVars
    BY <1>1, <1>7, StutterInv DEF removalVars, vars
  <1>8. CASE Tick
    BY <1>1, <1>8, TickInv
  <1> QED
    BY <1>2, <1>3, <1>4, <1>5, <1>6, <1>7, <1>8 DEF RemovalNext

(* The script gives every seat it marks to one passenger. *)
LEMMA SeededSeats ==
  ASSUME SeededBookings
  PROVE  \E n \in 0 .. MaxBookings : \E seat \in [1 .. n -> Seat] :
            /\ \A b, c \in 1 .. n : seat[b] = seat[c] => b = c
            /\ \A b \in BookingId : bookings[b].status # "NONE" => b \in 1 .. n
            /\ \A b \in 1 .. n : /\ b \in BookingId
                                 /\ bookings[b].seat = seat[b]
                                 /\ bookings[b].status = "CONFIRMED"
            /\ \A s \in Seat : seats[s] # "AVAILABLE" <=> \E b \in 1 .. n : seat[b] = s
  <1>1. PICK n \in 0 .. MaxBookings :
          \E user \in Injection(1 .. n, User), seat \in Injection(1 .. n, Seat) :
              /\ bookings = [b \in BookingId |->
                     IF b > n THEN NoBooking
                     ELSE [user |-> user[b], flight |-> FlightOf[seat[b]], seat |-> seat[b],
                           status |-> "CONFIRMED", age |-> 0]]
              /\ seats = [s \in Seat |->
                     IF \E b \in 1 .. n : seat[b] = s THEN "BOOKED" ELSE "AVAILABLE"]
    BY DEF SeededBookings
  <1>2. PICK user \in Injection(1 .. n, User), seat \in Injection(1 .. n, Seat) :
          /\ bookings = [b \in BookingId |->
                 IF b > n THEN NoBooking
                 ELSE [user |-> user[b], flight |-> FlightOf[seat[b]], seat |-> seat[b],
                       status |-> "CONFIRMED", age |-> 0]]
          /\ seats = [s \in Seat |->
                 IF \E b \in 1 .. n : seat[b] = s THEN "BOOKED" ELSE "AVAILABLE"]
    BY <1>1
  <1>3. seat \in [1 .. n -> Seat] /\ \A b, c \in 1 .. n : seat[b] = seat[c] => b = c
    BY DEF Injection, IsInjective
  <1>4. ASSUME NEW b \in BookingId, bookings[b].status # "NONE"
        PROVE  b \in 1 .. n
    <2>1. CASE b > n
      BY <1>2, <1>4, <2>1 DEF NoBooking
    <2> QED
      BY <2>1 DEF BookingId
  <1>5. ASSUME NEW b \in 1 .. n
        PROVE  b \in BookingId /\ bookings[b].seat = seat[b] /\ bookings[b].status = "CONFIRMED"
    <2>1. b \in BookingId /\ ~ (b > n)
      BY MaxBookingsAssumption DEF BookingId
    <2>2. bookings[b] = [user |-> user[b], flight |-> FlightOf[seat[b]], seat |-> seat[b],
                         status |-> "CONFIRMED", age |-> 0]
      BY <1>2, <2>1
    <2> QED
      BY <2>1, <2>2
  <1>6. \A s \in Seat : seats[s] # "AVAILABLE" <=> \E b \in 1 .. n : seat[b] = s
    BY <1>2
  <1> QED
    BY <1>3, <1>4, <1>5, <1>6

LEMMA SeatsStart == RemovalInit => CoreInv
  <1> SUFFICES ASSUME RemovalInit PROVE CoreInv
    OBVIOUS
  <1>1. TypeOK /\ BookingShape
    BY RemovalStart DEF RInv, RemovalType
  <1>2. /\ \A h \in Handler : job[h].pc = "idle" /\ job[h].seat = Nil /\ todo[h] = {}
        /\ \A h \in Handler, s \in Seat : ~ WorksOn(h, s) /\ job[h].seat # s
    BY DomainAssumption DEF RemovalInit, HandlersInit, NoJob, WorksOn
  <1>3. \A s \in Seat : ~ Live(s)
    BY KeyType DEF RemovalInit, LocksInit, NoLock, Live, HasLock
  <1>4. /\ OneActive
        /\ \A s \in Seat : Free(s) <=> seats[s] = "AVAILABLE"
        /\ \A b \in BookingId : Active(b) => bookings[b].status = "CONFIRMED"
    <2>1. CASE StoreInit
      BY <2>1 DEF StoreInit, NoBooking, OneActive, Free, ActiveOn, Active
    <2>2. CASE SeededBookings
      <3>1. PICK n \in 0 .. MaxBookings : \E seat \in [1 .. n -> Seat] :
                /\ \A b, c \in 1 .. n : seat[b] = seat[c] => b = c
                /\ \A b \in BookingId : bookings[b].status # "NONE" => b \in 1 .. n
                /\ \A b \in 1 .. n : /\ b \in BookingId
                                     /\ bookings[b].seat = seat[b]
                                     /\ bookings[b].status = "CONFIRMED"
                /\ \A s \in Seat : seats[s] # "AVAILABLE" <=> \E b \in 1 .. n : seat[b] = s
        BY <2>2, SeededSeats
      <3> QED
        BY <3>1 DEF OneActive, Free, ActiveOn, Active
    <2> QED
      BY <2>1, <2>2 DEF RemovalInit
  <1>5. JobShape
    BY <1>2 DEF JobShape, Shape, SeatPc, LockPc, ConfirmPc, CancelPc, AssignPc, CleanPc
  <1>6. Separation /\ TodoExpired /\ TokenLive /\ TokenUnique /\ CreateFree /\ MarkActive
    BY <1>2 DEF Separation, TodoExpired, TokenLive, TokenUnique, CreateFree, MarkActive, On
  <1>7. OpenTaken /\ ClosedFree /\ SeekBlocked /\ HoldLock
    BY <1>2, <1>3, <1>4 DEF OpenTaken, ClosedFree, SeekBlocked, HoldLock, On, Free
  <1>8. ConfirmActive /\ CancelFree /\ CleanFree /\ EndedThere
    BY <1>2 DEF ConfirmActive, CancelFree, CleanFree, EndedThere, On
  <1> QED
    BY <1>1, <1>4, <1>5, <1>6, <1>7, <1>8 DEF CoreInv

(* Of a seat's lock, status and bookings everything a handler relies on     *)
(* survives the deletion of the booking it is working on.                   *)
THEOREM CoreInvariantHolds ==
  ASSUME Premises
  PROVE  RemovalSpec => [](CoreInv /\ RInv)
  <1>1. RemovalInit => CoreInv /\ RInv
    BY RemovalStart, SeatsStart
  <1>2. CoreInv /\ RInv /\ [RemovalNext]_removalVars => (CoreInv /\ RInv)'
    BY RemovalStep, SeatsStep
  <1> QED
    BY <1>1, <1>2, PTL DEF RemovalSpec

(* However bookings are deleted under the requests that work on them, no     *)
(* seat is ever sold twice, from an empty database or from a seeded one.     *)
THEOREM NoDoubleBookingUnderDeletions ==
  ASSUME Premises
  PROVE  RemovalSpec => []OneActive
  <1>1. CoreInv => OneActive
    BY DEF CoreInv
  <1> QED
    BY <1>1, CoreInvariantHolds, PTL

(* A deletion never puts a taken seat on sale, and where a quiet seat that    *)
(* nobody holds is withheld, a booking that a deletion took had been on it.   *)
THEOREM WithheldOnlyByDeletion ==
  ASSUME Premises
  PROVE  RemovalSpec => []WithheldByDeletion
  <1>1. ASSUME CoreInv PROVE WithheldByDeletion
    <2> SUFFICES ASSUME NEW s \in Seat, Quiet(s)
                 PROVE  /\ seats[s] = "AVAILABLE" => Free(s)
                        /\ seats[s] # "AVAILABLE" =>
                               ~ Free(s) \/ \E b \in BookingId : Lost(b, s)
      BY DEF WithheldByDeletion, Free, Lost, Exists
    <2>1. \A h \in Handler : job[h].seat # s
      BY DEF Quiet, Concerns, WorksOn
    <2>2. \A P : \A h \in Handler : ~ On(h, P, s)
      BY <2>1 DEF On
    <2>3. seats[s] = "AVAILABLE" => Free(s)
      BY <1>1, <2>2 DEF CoreInv, OpenTaken, Free
    <2>4. seats[s] # "AVAILABLE" => ~ Free(s) \/ \E b \in BookingId : Lost(b, s)
      BY <1>1, <2>2 DEF CoreInv, ClosedFree
    <2> QED
      BY <2>3, <2>4
  <1> QED
    BY <1>1, CoreInvariantHolds, PTL

-------------------------------------------------------------------------------
(* The waitlist: its rows go with an account or a flight, its members stay. *)
LEMMA ListsKeptAlways ==
  ASSUME CoreInv, Written
  PROVE  ListsKept
  BY ListedUsed DEF Written, Kept, Made, ListsKept

LEMMA StepStays ==
  ASSUME CoreInv, ListsKept, NEW h \in Handler, Step(h)
  PROVE  Others(h) /\ Stays(h)
  <1>1. CASE Finish(h) /\ UNCHANGED todo
    BY <1>1, FinishStays
  <1>2. ASSUME NEW p, Goto(h, p), UNCHANGED todo
        PROVE  Others(h) /\ Stays(h)
    BY <1>2, GotoStays
  <1>3. ASSUME NEW p, NEW x, UNCHANGED todo,
               \/ job' = [job EXCEPT ![h].pc = p, ![h].user = x]
               \/ job' = [job EXCEPT ![h].pc = p, ![h].entry = x]
               \/ job' = [job EXCEPT ![h].pc = p, ![h].booking = x]
        PROVE  Others(h) /\ Stays(h)
    <2>1. /\ Others(h) /\ job'[h].seat = job[h].seat
          /\ job'[h].kind = job[h].kind /\ job'[h].flight = job[h].flight
      BY <1>3, JobFunction DEF Job, Others
    <2>2. \A s \in Seat : WorksOn(h, s)' => WorksOn(h, s)
      BY <1>3, <2>1 DEF WorksOn, ListsKept
    <2> QED
      BY <2>1, <2>2 DEF Stays
  <1>4. CASE CleanupStatus(h)
    <2>1. PICK c \in todo[h] :
             /\ todo' = [todo EXCEPT ![h] = @ \ {c}]
             /\ job' = [job EXCEPT ![h].pc = "clean_seat", ![h].booking = c,
                                   ![h].flight = bookings[c].flight, ![h].seat = bookings[c].seat]
      BY <1>4 DEF CleanupStatus
    <2>2. /\ Others(h) /\ job'[h].seat = bookings[c].seat
          /\ job'[h].kind = job[h].kind /\ todo'[h] = todo[h] \ {c}
      BY <2>1, JobFunction DEF Job, Others, CoreInv, TypeOK, HandlersType
    <2>3. job[h].kind = "cleanup"
      BY <1>4 DEF CleanupStatus, At, CoreInv, JobShape, Shape, CleanPc
    <2>4. \A s \in Seat : WorksOn(h, s)' => WorksOn(h, s)
      BY <2>1, <2>2 DEF WorksOn, ListsKept
    <2> QED
      BY <2>2, <2>3, <2>4 DEF Stays
  <1>5. CASE BookingStep(h)
    BY <1>1, <1>2, <1>3, <1>5
    DEF BookingStep, LockAcquire, LockCreate, LockSeat, ConfirmLock, ConfirmStatus, ConfirmSeat,
        CancelStatus, CancelSeat, CancelRelease
  <1>6. CASE CleanupSeat(h)
    BY <1>2, <1>6 DEF CleanupSeat
  <1>7. CASE AssignStep(h)
    BY <1>1, <1>2, <1>3, <1>7
    DEF AssignStep, AssignTop, AssignEntry, AssignConfirmed, AssignAcquire, AssignCreate,
        AssignSeat, AssignRow, AssignMember
  <1>8. CASE WaitlistStep(h)
    BY <1>1, <1>2, <1>8
    DEF WaitlistStep, JoinConfirmed, JoinCreate, JoinMember, LeaveRow, LeaveMember
  <1> QED
    BY <1>4, <1>5, <1>6, <1>7, <1>8 DEF Step, CleanupStep

(* Where a handler has no trail to keep. *)
LEMMA Trailless ==
  ASSUME NEW h, job'[h].pc \notin JoinPc \cup LeavePc \cup RowPc
  PROVE  Trail(h)'
  BY DEF Trail, JoinPc

LEMMA TrailOfOthers ==
  ASSUME GInv, UNCHANGED <<rows, issued>>, UNCHANGED tables, NEW g \in Handler, job'[g] = job[g]
  PROVE  Trail(g)'
  <1>1. Trail(g) /\ UNCHANGED <<accounts, flights>>
    BY DEF GInv, Trails, tables
  <1> QED
    BY <1>1 DEF Trail, Listed, IsRowOf, Gone

(* A handler that leaves the waitlist alone. *)
LEMMA OwedKept ==
  ASSUME GInv, UNCHANGED waitlist, UNCHANGED tables, NEW h \in Handler, Others(h),
         job[h].pc \notin MemberPc, Trail(h)', JoinApart'
  PROVE  GInv'
  <1>1. UNCHANGED <<rows, issued, zset, accounts, flights>>
    BY DEF waitlist, tables
  <1>2. Trails'
    BY <1>1, TrailOfOthers DEF Trails, Others
  <1>3. EntriesIssued'
    BY <1>1 DEF GInv, EntriesIssued
  <1>4. MemberOwed'
    BY <1>1 DEF GInv, MemberOwed, Listed, IsRowOf, Place, Gone, Others
  <1> QED
    BY <1>2, <1>3, <1>4 DEF GInv

(* While somebody joins a flight nobody leaves it or is promoted on it. *)
LEMMA JoinerAlone ==
  ASSUME WaitlistPremises, CoreInv, GInv, NEW h \in Handler, NEW g \in Handler,
         job[h].pc \in JoinPc, job[g].pc \in LeavePc \cup AssignPc
  PROVE  job[g].flight # job[h].flight
  <1> SUFFICES ASSUME job[g].flight = job[h].flight PROVE FALSE
    OBVIOUS
  <1>1. job[h].kind = "join" /\ job[h].flight \in Flight
    BY DEF GInv, Trails, Trail
  <1>2. CASE job[g].pc \in LeavePc
    <2>1. job[g].kind = "leave"
      BY <1>2 DEF GInv, Trails, Trail
    <2>2. PICK s \in SeatsOf(job[h].flight) : TRUE
      BY <1>1 DEF WaitlistPremises
    <2>3. s \in Seat /\ FlightOf[s] = job[h].flight
      BY <2>2 DEF SeatsOf
    <2> QED
      BY <1>1, <2>1, <2>3 DEF GInv, JoinApart, Concerns, WaitKinds
  <1>3. CASE job[g].pc \in AssignPc
    <2>1. /\ job[g].kind \in {"cancel", "cleanup"}
          /\ job[g].seat \in Seat /\ job[g].flight = FlightOf[job[g].seat]
      BY <1>3 DEF CoreInv, JobShape, Shape, SeatPc
    <2> QED
      BY <1>1, <2>1 DEF GInv, JoinApart, Concerns, WorksOn, WaitKinds
  <1> QED
    BY <1>2, <1>3

-------------------------------------------------------------------------------
(* The statements that read the waitlist or have nothing to do with it. *)
LEMMA LookOwed ==
  ASSUME CoreInv, GInv, ListsKept, UNCHANGED tables, UNCHANGED waitlist, NEW h \in Handler, Step(h),
         job[h].pc \notin MemberPc, Trail(h)'
  PROVE  GInv'
  BY StepStays, ApartKept, OwedKept DEF GInv

LEMMA PlainTrail ==
  ASSUME CoreInv, NEW h \in Handler,
         BookingStep(h) \/ CleanupStep(h) \/ AssignTop(h)
  PROVE  Trail(h)' /\ UNCHANGED waitlist /\ job[h].pc \notin MemberPc
  <1>1. UNCHANGED waitlist
    BY DEF BookingStep, LockAcquire, LockCreate, LockSeat, ConfirmLock, ConfirmStatus, ConfirmSeat,
           CancelStatus, CancelSeat, CancelRelease, CleanupStep, CleanupStatus, CleanupSeat, AssignTop
  <1>2. job[h].pc \in LockPc \cup ConfirmPc \cup CancelPc \cup CleanPc \cup {"assign_top"}
    BY DEF BookingStep, LockAcquire, LockCreate, LockSeat, ConfirmLock, ConfirmStatus, ConfirmSeat,
           CancelStatus, CancelSeat, CancelRelease, CleanupStep, CleanupStatus, CleanupSeat,
           AssignTop, At, LockPc, ConfirmPc, CancelPc, CleanPc
  <1> DEFINE P == LockPc \cup ConfirmPc \cup CancelPc \cup CleanPc
                  \cup {"idle", "assign_top", "assign_entry"}
  <1>3. ASSUME Finish(h), UNCHANGED todo
        PROVE  job'[h].pc \in P
    BY <1>3, FinishFacts DEF CleanPc
  <1>4. ASSUME NEW p \in P, Goto(h, p)
        PROVE  job'[h].pc \in P
    BY <1>4, GotoFacts
  <1>5. ASSUME NEW p \in P, NEW x,
               \/ job' = [job EXCEPT ![h].pc = p, ![h].user = x]
               \/ job' = [job EXCEPT ![h].pc = p, ![h].booking = x]
        PROVE  job'[h].pc \in P
    BY <1>5, JobFunction DEF Job
  <1>6. ASSUME NEW c, job' = [job EXCEPT ![h].pc = "clean_seat", ![h].booking = c,
                              ![h].flight = bookings[c].flight, ![h].seat = bookings[c].seat]
        PROVE  job'[h].pc \in P
    BY <1>6, JobFunction DEF Job, CleanPc
  <1>7. {"lock_create", "lock_seat", "confirm_status", "confirm_seat", "cancel_seat",
         "cancel_release", "assign_top", "assign_entry"} \subseteq P
    BY DEF LockPc, ConfirmPc, CancelPc
  <1> HIDE DEF P
  <1>8. ASSUME BookingStep(h) PROVE job'[h].pc \in P
    BY <1>3, <1>4, <1>5, <1>7, <1>8
    DEF BookingStep, LockAcquire, LockCreate, LockSeat, ConfirmLock, ConfirmStatus, ConfirmSeat,
        CancelStatus, CancelSeat, CancelRelease, P
  <1>9. ASSUME CleanupStep(h) PROVE job'[h].pc \in P
    BY <1>4, <1>6, <1>7, <1>9 DEF CleanupStep, CleanupStatus, CleanupSeat
  <1>10. ASSUME AssignTop(h) PROVE job'[h].pc \in P
    BY <1>3, <1>5, <1>7, <1>10 DEF AssignTop, P
  <1>11. job'[h].pc \in P
    BY <1>8, <1>9, <1>10
  <1>12. job'[h].pc \notin JoinPc \cup LeavePc \cup RowPc
    BY <1>11 DEF P, LockPc, ConfirmPc, CancelPc, CleanPc, JoinPc, LeavePc, RowPc
  <1> QED
    BY <1>1, <1>2, <1>12, Trailless DEF LockPc, ConfirmPc, CancelPc, CleanPc, MemberPc

LEMMA TrailEnds ==
  ASSUME CoreInv, NEW h \in Handler, Finish(h), UNCHANGED todo
  PROVE  Trail(h)'
  BY FinishFacts, Trailless DEF JoinPc, LeavePc, RowPc

LEMMA TrailGoesOn ==
  ASSUME GInv, UNCHANGED waitlist, NEW h \in Handler,
         job[h].pc \in RowPc \ {"leave_row"},
         job'[h].pc \in (RowPc \ {"leave_row"}) \cup {"assign_member"},
         job'[h].user = job[h].user, job'[h].flight = job[h].flight, job'[h].entry = job[h].entry
  PROVE  Trail(h)'
  <1>1. Trail(h) /\ UNCHANGED <<rows, issued>>
    BY DEF GInv, Trails, waitlist
  <1> QED
    BY <1>1 DEF Trail, JoinPc, LeavePc, RowPc, IsRowOf

(* The row a reassignment finds is one that has been issued. *)
LEMMA EntryTrail ==
  ASSUME CoreInv, GInv, NEW h \in Handler, AssignEntry(h)
  PROVE  Trail(h)'
  <1>1. job[h].pc = "assign_entry" /\ UNCHANGED <<rows, issued, todo>>
    BY DEF AssignEntry, At, waitlist
  <1>2. CASE Goto(h, "assign_member")
    BY <1>2, GotoFacts, Trailless DEF JoinPc, LeavePc, RowPc
  <1>3. ASSUME NEW e \in EntryId, IsRowOf(e, job[h].user, job[h].flight),
               job' = [job EXCEPT ![h].pc = "assign_confirmed", ![h].entry = e]
        PROVE  Trail(h)'
    <2>1. /\ job'[h].pc = "assign_confirmed" /\ job'[h].flight = job[h].flight
          /\ job'[h].user = job[h].user /\ job'[h].entry = e
      BY <1>3, JobFunction DEF Job
    <2>2. job[h].flight \in Flight
      BY <1>1, SeatKnown, DomainAssumption DEF SeatPc, AssignPc
    <2>3. rows[e] # NoRow
      BY <1>3, <2>2, DomainAssumption DEF IsRowOf, NoRow
    <2>4. e <= issued
      BY <2>3 DEF GInv, EntriesIssued
    <2> QED
      BY <1>1, <1>3, <2>1, <2>4 DEF Trail, JoinPc, LeavePc, IsRowOf
  <1> QED
    BY <1>2, <1>3 DEF AssignEntry

LEMMA LookTrail ==
  ASSUME CoreInv, GInv, NEW h \in Handler,
         AssignConfirmed(h) \/ AssignAcquire(h) \/ AssignCreate(h) \/ AssignSeat(h)
  PROVE  Trail(h)'
  <1>1. /\ UNCHANGED waitlist /\ UNCHANGED todo
        /\ job[h].pc \in RowPc \ {"leave_row"}
    BY DEF AssignConfirmed, AssignAcquire, AssignCreate, AssignSeat, At, RowPc
  <1>2. ASSUME Finish(h) PROVE Trail(h)'
    BY <1>1, <1>2, TrailEnds
  <1>3. ASSUME NEW q \in RowPc \ {"leave_row"}, Goto(h, q)
        PROVE  Trail(h)'
    <2>1. /\ job'[h].pc = q /\ job'[h].flight = job[h].flight
          /\ job'[h].user = job[h].user /\ job'[h].entry = job[h].entry
      BY <1>3, JobFunction DEF Goto, Job
    <2> QED
      BY <1>1, <1>3, <2>1, TrailGoesOn DEF RowPc
  <1>4. ASSUME NEW b, job' = [job EXCEPT ![h].pc = "assign_seat", ![h].booking = b]
        PROVE  Trail(h)'
    <2>1. /\ job'[h].pc = "assign_seat" /\ job'[h].flight = job[h].flight
          /\ job'[h].user = job[h].user /\ job'[h].entry = job[h].entry
      BY <1>4, JobFunction DEF Job
    <2> QED
      BY <1>1, <2>1, TrailGoesOn DEF RowPc
  <1>5. {"assign_acquire", "assign_create", "assign_seat", "assign_row"} \subseteq RowPc \ {"leave_row"}
    BY DEF RowPc
  <1>6. CASE AssignConfirmed(h)
    BY <1>3, <1>5, <1>6 DEF AssignConfirmed
  <1>7. CASE AssignAcquire(h)
    BY <1>2, <1>3, <1>5, <1>7 DEF AssignAcquire
  <1>8. CASE AssignCreate(h)
    BY <1>2, <1>4, <1>8 DEF AssignCreate
  <1>9. CASE AssignSeat(h)
    BY <1>3, <1>5, <1>9 DEF AssignSeat
  <1> QED
    BY <1>6, <1>7, <1>8, <1>9

LEMMA JoinTrail ==
  ASSUME CoreInv, GInv, NEW h \in Handler, JoinConfirmed(h)
  PROVE  Trail(h)'
  <1>1. job[h].pc = "join_confirmed" /\ UNCHANGED todo
    BY DEF JoinConfirmed, At
  <1>2. CASE Finish(h)
    BY <1>1, <1>2, TrailEnds
  <1>3. CASE Goto(h, "join_create")
    <2>1. job[h].kind = "join" /\ job[h].flight \in Flight
      BY <1>1 DEF GInv, Trails, Trail, JoinPc
    <2>2. job'[h].pc = "join_create" /\ job'[h].kind = "join" /\ job'[h].flight \in Flight
      BY <1>3, <2>1, GotoFacts
    <2> QED
      BY <2>2 DEF Trail, LeavePc, RowPc
  <1> QED
    BY <1>2, <1>3 DEF JoinConfirmed

-------------------------------------------------------------------------------
(* The statements that write the waitlist.  A row is taken by the handler *)
(* that will take the member.                                             *)
LEMMA RowTaken ==
  ASSUME WaitlistPremises, CoreInv, GInv, ListsKept, UNCHANGED tables,
         UNCHANGED <<issued, zset, todo>>, NEW h \in Handler, NEW q, Goto(h, q),
         DeleteRow(job[h].entry), rows[job[h].entry] # NoRow,
         \/ job[h].pc = "leave_row" /\ q = "leave_member"
         \/ job[h].pc = "assign_row" /\ q = "assign_member"
  PROVE  GInv'
  <1> DEFINE e == job[h].entry
             u == job[h].user
             f == job[h].flight
  <1>1. /\ e \in EntryId /\ rows[e] = [user |-> u, flight |-> f]
        /\ job[h].pc = "leave_row" => job[h].kind = "leave" /\ f \in Flight
    BY DEF GInv, Trails, Trail, RowPc, LeavePc, IsRowOf
  <1>2. /\ job'[h].pc = q /\ job'[h].user = u /\ job'[h].flight = f /\ job'[h].kind = job[h].kind
        /\ \A g \in Handler \ {h} : job'[g] = job[g]
    BY GotoFacts
  <1>3. \A d \in EntryId : rows'[d] = IF d = e THEN NoRow ELSE rows[d]
    BY DEF DeleteRow, CoreInv, TypeOK, WaitlistType
  <1>4. \A v, g : Listed(v, g) => Listed(v, g)' \/ (v = u /\ g = f)
    BY <1>1, <1>3 DEF Listed, IsRowOf
  <1>5. UNCHANGED <<accounts, flights>>
    BY DEF tables
  <1>6. ASSUME NEW g \in Handler \ {h}
        PROVE  Trail(g)'
    <2>1. job'[g] = job[g] /\ Trail(g)
      BY <1>2, <1>6 DEF GInv, Trails
    <2>2. job[g].pc = "join_member" => job[g].flight # f
      BY <1>6, JoinerAlone DEF JoinPc, LeavePc, AssignPc
    <2>3. job[g].pc = "join_member" =>
              (Listed(job[g].user, job[g].flight) \/ Gone(job[g].user, job[g].flight))'
      BY <1>4, <1>5, <2>1, <2>2 DEF Trail, Gone
    <2>4. job[g].pc \in RowPc =>
              /\ job[g].entry \in EntryId /\ job[g].entry <= issued
              /\ \/ rows'[job[g].entry] = NoRow
                 \/ IsRowOf(job[g].entry, job[g].user, job[g].flight)'
      BY <1>3, <2>1 DEF Trail, IsRowOf
    <2> QED
      BY <2>1, <2>3, <2>4 DEF Trail
  <1>7. Trail(h)'
    BY <1>1, <1>2 DEF Trail, JoinPc, LeavePc, RowPc
  <1>8. EntriesIssued'
    BY <1>3 DEF GInv, EntriesIssued
  <1>9. MemberOwed'
    <2> SUFFICES ASSUME NEW v \in User, NEW g \in Flight, v \in zset[g], ~ Listed(v, g)'
                 PROVE  \/ Gone(v, g)
                        \/ \E k \in Handler : (job[k].pc \in MemberPc /\ Place(k, v, g))'
      BY <1>5 DEF MemberOwed, Gone
    <2>1. CASE v = u /\ g = f
      BY <1>2, <2>1 DEF Place, MemberPc
    <2>2. CASE ~ Listed(v, g) /\ ~ Gone(v, g)
      <3>1. PICK k \in Handler : job[k].pc \in MemberPc /\ Place(k, v, g)
        BY <2>2 DEF GInv, MemberOwed
      <3>2. k # h
        BY <3>1 DEF MemberPc
      <3> QED
        BY <1>2, <3>1, <3>2 DEF Place
    <2> QED
      BY <1>4, <2>1, <2>2
  <1>10. JoinApart'
    BY GotoStays, ApartKept DEF GInv
  <1> QED
    BY <1>6, <1>7, <1>8, <1>9, <1>10 DEF GInv, Trails

LEMMA RowMade ==
  ASSUME CoreInv, GInv, ListsKept, UNCHANGED tables, NEW h \in Handler, job[h].pc = "join_create",
         RowAllowed(job[h].user, job[h].flight), InsertRow(job[h].user, job[h].flight),
         Goto(h, "join_member"), UNCHANGED <<zset, todo>>
  PROVE  GInv'
  <1> DEFINE u == job[h].user
             f == job[h].flight
             r == [user |-> u, flight |-> f]
  <1>1. job[h].kind = "join" /\ f \in Flight
    BY DEF GInv, Trails, Trail, JoinPc
  <1>2. /\ issued \in Nat /\ issued + 1 \in EntryId /\ issued' = issued + 1
        /\ \A d \in EntryId : rows'[d] = IF d = issued + 1 THEN r ELSE rows[d]
        /\ \A d \in EntryId : d \in Nat
    BY WaitlistAssumption DEF RowAllowed, InsertRow, CoreInv, TypeOK, WaitlistType, EntryId
  <1>3. rows[issued + 1] = NoRow
    BY <1>2 DEF GInv, EntriesIssued
  <1>4. /\ job'[h].pc = "join_member" /\ job'[h].user = u /\ job'[h].flight = f
        /\ job'[h].kind = "join" /\ \A g \in Handler \ {h} : job'[g] = job[g]
    BY <1>1, GotoFacts
  <1>5. UNCHANGED <<accounts, flights>>
    BY DEF tables
  <1>6. \A v, g : g \in Flight /\ Listed(v, g) => Listed(v, g)'
    BY <1>2, <1>3, DomainAssumption DEF Listed, IsRowOf, NoRow
  <1>7. Listed(u, f)'
    BY <1>2, <1>4 DEF Listed, IsRowOf
  <1>8. ASSUME NEW g \in Handler \ {h}
        PROVE  Trail(g)'
    <2>1. job'[g] = job[g] /\ Trail(g)
      BY <1>4, <1>8 DEF GInv, Trails
    <2>2. job[g].pc = "join_member" =>
              (Listed(job[g].user, job[g].flight) \/ Gone(job[g].user, job[g].flight))'
      BY <1>5, <1>6, <2>1 DEF Trail, JoinPc, Gone
    <2>3. job[g].pc \in RowPc =>
              /\ job[g].entry \in EntryId /\ job[g].entry <= issued
              /\ rows[job[g].entry] = NoRow \/ IsRowOf(job[g].entry, job[g].user, job[g].flight)
      BY <2>1 DEF Trail
    <2>4. job[g].pc \in RowPc =>
              rows'[job[g].entry] = rows[job[g].entry] /\ job[g].entry <= issued'
      BY <1>2, <2>3
    <2>5. job[g].pc \in RowPc =>
              /\ job[g].entry \in EntryId /\ job[g].entry <= issued'
              /\ \/ rows'[job[g].entry] = NoRow
                 \/ IsRowOf(job[g].entry, job[g].user, job[g].flight)'
      BY <2>1, <2>3, <2>4 DEF IsRowOf
    <2> QED
      BY <2>1, <2>2, <2>5 DEF Trail
  <1>9. Trail(h)'
    BY <1>1, <1>4, <1>7 DEF Trail, LeavePc, RowPc
  <1>10. EntriesIssued'
    <2> SUFFICES ASSUME NEW e \in EntryId, rows'[e] # NoRow PROVE e <= issued'
      BY DEF EntriesIssued
    <2>1. e = issued + 1 \/ e <= issued
      BY <1>2 DEF GInv, EntriesIssued
    <2> QED
      BY <1>2, <2>1
  <1>11. MemberOwed'
    <2> SUFFICES ASSUME NEW v \in User, NEW g \in Flight, v \in zset[g], ~ Listed(v, g)',
                        ~ Gone(v, g)
                 PROVE  \E k \in Handler : (job[k].pc \in MemberPc /\ Place(k, v, g))'
      BY <1>5 DEF MemberOwed, Gone
    <2>1. PICK k \in Handler : job[k].pc \in MemberPc /\ Place(k, v, g)
      BY <1>6 DEF GInv, MemberOwed
    <2>2. k # h
      BY <2>1 DEF MemberPc
    <2> QED
      BY <1>4, <2>1, <2>2 DEF Place
  <1>12. JoinApart'
    BY GotoStays, ApartKept DEF GInv
  <1> QED
    BY <1>8, <1>9, <1>10, <1>11, <1>12 DEF GInv, Trails

(* The last step of a handler: a member with a row, or none without one. *)
LEMMA MemberDone ==
  ASSUME CoreInv, GInv, ListsKept, UNCHANGED tables, UNCHANGED <<rows, issued, todo>>,
         NEW h \in Handler, Finish(h),
         \/ job[h].pc = "join_member" /\ AddMember(job[h].flight, job[h].user)
         \/ job[h].pc \in MemberPc /\ RemoveMember(job[h].flight, job[h].user)
  PROVE  GInv'
  <1> DEFINE u == job[h].user
             f == job[h].flight
  <1>1. /\ \A g \in Handler \ {h} : job'[g] = job[g]
        /\ Others(h) /\ Stays(h) /\ Trail(h)'
    BY FinishStays, TrailEnds DEF Others
  <1>2. UNCHANGED <<accounts, flights>>
    BY DEF tables
  <1>3. Trails'
    BY <1>1, TrailOfOthers DEF Trails
  <1>4. EntriesIssued'
    BY DEF GInv, EntriesIssued
  <1>5. JoinApart'
    BY <1>1, ApartKept DEF GInv
  <1>6. \A v \in User, g \in Flight : Listed(v, g)' <=> Listed(v, g)
    BY DEF Listed, IsRowOf
  <1>7. zset \in [Flight -> SUBSET User]
    BY DEF CoreInv, TypeOK, WaitlistType
  <1>8. ASSUME NEW v \in User, NEW g \in Flight, v \in zset'[g], ~ Listed(v, g)', ~ Gone(v, g)
        PROVE  \E k \in Handler : (job[k].pc \in MemberPc /\ Place(k, v, g))'
    <2>0. ~ Listed(v, g)
      BY <1>6, <1>8
    <2>1. CASE job[h].pc = "join_member" /\ AddMember(f, u)
      <3>1. ~ (v = u /\ g = f)
        BY <1>8, <2>0, <2>1 DEF GInv, Trails, Trail
      <3>2. v \in zset[g]
        BY <1>7, <1>8, <2>1, <3>1 DEF AddMember
      <3>3. PICK k \in Handler : job[k].pc \in MemberPc /\ Place(k, v, g)
        BY <1>8, <2>0, <3>2 DEF GInv, MemberOwed
      <3>4. k # h
        BY <2>1, <3>3 DEF MemberPc
      <3> QED
        BY <1>1, <3>3, <3>4 DEF Place
    <2>2. CASE job[h].pc \in MemberPc /\ RemoveMember(f, u)
      <3>1. v \in zset[g] /\ ~ (v = u /\ g = f)
        BY <1>7, <1>8, <2>2 DEF RemoveMember
      <3>2. PICK k \in Handler : job[k].pc \in MemberPc /\ Place(k, v, g)
        BY <1>8, <2>0, <3>1 DEF GInv, MemberOwed
      <3>3. k # h
        BY <3>1, <3>2 DEF Place
      <3> QED
        BY <1>1, <3>2, <3>3 DEF Place
    <2> QED
      BY <2>1, <2>2
  <1>9. MemberOwed'
    BY <1>2, <1>8 DEF MemberOwed, Gone
  <1> QED
    BY <1>3, <1>4, <1>5, <1>9 DEF GInv

-------------------------------------------------------------------------------
LEMMA AssignOwed ==
  ASSUME WaitlistPremises, CoreInv, GInv, ListsKept, UNCHANGED tables, NEW h \in Handler,
         AssignStep(h)
  PROVE  GInv'
  <1>1. CASE AssignTop(h)
    BY <1>1, PlainTrail, LookOwed DEF Step, AssignStep
  <1>2. CASE AssignEntry(h)
    <2>1. UNCHANGED waitlist /\ job[h].pc \notin MemberPc
      BY <1>2 DEF AssignEntry, At, MemberPc
    <2> QED
      BY <1>2, <2>1, EntryTrail, LookOwed DEF Step, AssignStep
  <1>3. CASE AssignConfirmed(h) \/ AssignAcquire(h) \/ AssignCreate(h) \/ AssignSeat(h)
    <2>1. UNCHANGED waitlist /\ job[h].pc \notin MemberPc
      BY <1>3 DEF AssignConfirmed, AssignAcquire, AssignCreate, AssignSeat, At, MemberPc
    <2> QED
      BY <1>3, <2>1, LookTrail, LookOwed DEF Step, AssignStep
  <1>4. CASE AssignRow(h)
    <2>1. job[h].pc = "assign_row" /\ UNCHANGED <<issued, zset, todo>>
      BY <1>4 DEF AssignRow, At
    <2>2. CASE Finish(h) /\ UNCHANGED rows
      <3>1. UNCHANGED waitlist /\ job[h].pc \notin MemberPc
        BY <2>1, <2>2 DEF waitlist, MemberPc
      <3> QED
        BY <1>4, <2>1, <2>2, <3>1, TrailEnds, LookOwed DEF Step, AssignStep
    <2>3. CASE /\ rows[job[h].entry] # NoRow
               /\ DeleteRow(job[h].entry)
               /\ Goto(h, "assign_member")
      BY <2>1, <2>3, RowTaken
    <2> QED
      BY <1>4, <2>2, <2>3 DEF AssignRow
  <1>5. CASE AssignMember(h)
    BY <1>5, MemberDone DEF AssignMember, At, MemberPc
  <1> QED
    BY <1>1, <1>2, <1>3, <1>4, <1>5 DEF AssignStep

LEMMA WaitlistOwed ==
  ASSUME WaitlistPremises, CoreInv, GInv, ListsKept, UNCHANGED tables, NEW h \in Handler,
         WaitlistStep(h)
  PROVE  GInv'
  <1>1. CASE JoinConfirmed(h)
    <2>1. UNCHANGED waitlist /\ job[h].pc \notin MemberPc
      BY <1>1 DEF JoinConfirmed, At, MemberPc
    <2> QED
      BY <1>1, <2>1, JoinTrail, LookOwed DEF Step, WaitlistStep
  <1>2. CASE JoinCreate(h)
    <2>1. job[h].pc = "join_create" /\ UNCHANGED <<zset, todo>>
      BY <1>2 DEF JoinCreate, At
    <2>2. CASE Finish(h) /\ UNCHANGED <<rows, issued>>
      <3>1. UNCHANGED waitlist /\ job[h].pc \notin MemberPc
        BY <2>1, <2>2 DEF waitlist, MemberPc
      <3> QED
        BY <1>2, <2>1, <2>2, <3>1, TrailEnds, LookOwed DEF Step, WaitlistStep
    <2>3. CASE /\ RowAllowed(job[h].user, job[h].flight)
               /\ InsertRow(job[h].user, job[h].flight)
               /\ Goto(h, "join_member")
      BY <2>1, <2>3, RowMade
    <2> QED
      BY <1>2, <2>2, <2>3 DEF JoinCreate
  <1>3. CASE LeaveRow(h)
    <2>1. job[h].pc = "leave_row" /\ UNCHANGED <<issued, zset, todo>>
      BY <1>3 DEF LeaveRow, At
    <2>2. CASE Finish(h) /\ UNCHANGED rows
      <3>1. UNCHANGED waitlist /\ job[h].pc \notin MemberPc
        BY <2>1, <2>2 DEF waitlist, MemberPc
      <3> QED
        BY <1>3, <2>1, <2>2, <3>1, TrailEnds, LookOwed DEF Step, WaitlistStep
    <2>3. CASE /\ rows[job[h].entry] # NoRow
               /\ DeleteRow(job[h].entry)
               /\ Goto(h, "leave_member")
      BY <2>1, <2>3, RowTaken
    <2> QED
      BY <1>3, <2>2, <2>3 DEF LeaveRow
  <1>4. CASE JoinMember(h) \/ LeaveMember(h)
    BY <1>4, MemberDone DEF JoinMember, LeaveMember, At, MemberPc
  <1> QED
    BY <1>1, <1>2, <1>3, <1>4 DEF WaitlistStep

(* What deletions add to the steps: a handler gives up, skips an item, or *)
(* goes straight to the member of a passenger who has gone.               *)
LEMMA WorkOwed ==
  ASSUME WaitlistPremises, CoreInv, GInv, ListsKept, UNCHANGED tables, NEW h \in Handler, Work(h)
  PROVE  GInv'
  <1>1. CASE Misses(h) /\ Rejected(h)
    <2>1. /\ job[h].pc \notin MemberPc /\ Finish(h) /\ UNCHANGED todo
          /\ UNCHANGED waitlist
      BY <1>1 DEF Misses, NeedsOwner, NeedsSeat, NeedsBooking, Rejected, MemberPc
    <2>2. JoinApart' /\ Others(h)
      BY <2>1, FinishStays, ApartKept DEF GInv
    <2> QED
      BY <2>1, <2>2, TrailEnds, OwedKept
  <1>2. CASE BookingStep(h) \/ CleanupStep(h)
    BY <1>2, PlainTrail, LookOwed DEF Step
  <1>3. CASE Step(h)
    BY <1>2, <1>3, AssignOwed, WaitlistOwed DEF Step
  <1>4. ASSUME NEW b \in todo[h], CleanupSkip(h, b)
        PROVE  GInv'
    <2>1. /\ job[h].pc = "clean_next" /\ UNCHANGED waitlist
          /\ todo' = [todo EXCEPT ![h] = @ \ {b}]
          /\ job' = [job EXCEPT ![h] = IF todo[h] = {b} THEN NoJob ELSE @]
      BY <1>4 DEF CleanupSkip, At
    <2>2. /\ Others(h) /\ job'[h] \in {NoJob, job[h]} /\ todo'[h] = todo[h] \ {b}
      BY <2>1, JobFunction DEF Others, CoreInv, TypeOK, HandlersType
    <2>3. /\ job'[h].pc \in {"idle", "clean_next"}
          /\ job'[h].kind \in {job[h].kind, Nil} /\ job'[h].seat \in {job[h].seat, Nil}
      BY <2>1, <2>2 DEF NoJob
    <2>4. job'[h].kind \in {"join", "leave"} => job'[h].flight = job[h].flight
      BY <2>2, HandlersAssumption DEF NoJob, Kind
    <2>5. \A s \in Seat : WorksOn(h, s)' => WorksOn(h, s)
      BY <2>2, <2>3, DomainAssumption DEF WorksOn, ListsKept
    <2>6. JoinApart'
      BY <2>2, <2>3, <2>4, <2>5, ApartKept DEF Stays, GInv
    <2>7. Trail(h)'
      BY <2>3, Trailless DEF JoinPc, LeavePc, RowPc
    <2> QED
      BY <2>1, <2>2, <2>6, <2>7, OwedKept DEF MemberPc
  <1>5. CASE AssignUserGone(h)
    <2>1. /\ job[h].pc = "assign_confirmed" /\ Goto(h, "assign_member")
          /\ UNCHANGED waitlist /\ UNCHANGED todo
      BY <1>5 DEF AssignUserGone, At
    <2>2. JoinApart' /\ Others(h)
      BY <2>1, GotoStays, ApartKept DEF GInv
    <2>3. Trail(h)'
      BY <2>1, GotoFacts, Trailless DEF JoinPc, LeavePc, RowPc
    <2> QED
      BY <2>1, <2>2, <2>3, OwedKept DEF MemberPc
  <1> QED
    BY <1>1, <1>2, <1>3, <1>4, <1>5 DEF Work, Statement, CleanupItem, CleanupStep

LEMMA RequestOwed ==
  ASSUME WaitlistPremises, CoreInv, RInv, GInv, UNCHANGED tables, NEW h \in Proc,
         BookingRequest(h) \/ WaitlistRequest(h)
  PROVE  GInv'
  <1>1. h \in Handler /\ UNCHANGED waitlist
    BY DEF Handler, BookingRequest, LockCheck, ConfirmCheck, CancelCheck, AdminCancelCheck,
           WaitlistRequest, JoinCheck, LeaveCheck
  <1>2. CASE BookingRequest(h)
    <2>1. Others(h) /\ job[h].pc = "idle" /\ job'[h].pc \notin MindPc /\ JoinApart'
      BY <1>1, <1>2, BookingRequestApart DEF GInv
    <2>2. Trail(h)'
      BY <2>1, Trailless DEF MindPc, JoinPc, LeavePc, AssignPc, RowPc
    <2> QED
      BY <1>1, <2>1, <2>2, OwedKept DEF MemberPc
  <1>3. CASE WaitlistRequest(h)
    <2>1. /\ Others(h) /\ job[h].pc = "idle" /\ JoinApart'
          /\ \/ /\ job'[h].pc = "join_confirmed" /\ job'[h].kind = "join"
                /\ job'[h].user \in User /\ job'[h].flight \in Flight
             \/ /\ job'[h].pc = "leave_row" /\ job'[h].kind = "leave"
                /\ job'[h].entry \in EntryId /\ rows[job'[h].entry] # NoRow
                /\ IsRowOf(job'[h].entry, job'[h].user, job'[h].flight)
      BY <1>3, WaitlistRequestApart DEF GInv
    <2>2. CASE job'[h].pc = "join_confirmed"
      BY <1>1, <2>1, <2>2, OwedKept DEF Trail, LeavePc, RowPc, MemberPc
    <2>3. CASE job'[h].pc = "leave_row"
      <3>1. PICK e \in EntryId : e = job'[h].entry /\ rows[e] # NoRow
                                 /\ rows[e] = [user |-> job'[h].user, flight |-> job'[h].flight]
        BY <2>1, <2>3 DEF IsRowOf
      <3>2. e <= issued
        BY <3>1 DEF GInv, EntriesIssued
      <3>3. rows[e].flight \in Flight
        BY <3>1, TypeFacts DEF RInv, NoOrphans
      <3>4. job'[h].flight \in Flight
        BY <3>1, <3>3
      <3>5. UNCHANGED <<rows, issued>>
        BY <1>1 DEF waitlist
      <3>6. Trail(h)'
        BY <2>1, <2>3, <3>1, <3>2, <3>4, <3>5 DEF Trail, JoinPc, IsRowOf
      <3> QED
        BY <1>1, <2>1, <3>6, OwedKept DEF MemberPc
    <2> QED
      BY <2>1, <2>2, <2>3
  <1> QED
    BY <1>2, <1>3

(* A row that a deletion takes is the row of a place that is gone. *)
LEMMA OwedByDeletion ==
  ASSUME GInv, ListsKept, UNCHANGED <<issued, zset, job, todo>>,
         accounts' \subseteq accounts, flights' \subseteq flights,
         \A e \in EntryId :
             \/ rows'[e] = rows[e]
             \/ /\ rows'[e] = NoRow
                /\ rows[e].user \notin accounts' \/ rows[e].flight \notin flights'
  PROVE  GInv'
  <1>1. \A v \in User \cup {Nil}, g \in Flight : Gone(v, g) => Gone(v, g)'
    BY DEF Gone
  <1>2. ASSUME NEW v, NEW g, Listed(v, g), ~ Listed(v, g)' PROVE Gone(v, g)'
    <2>1. PICK e \in EntryId : rows[e] = [user |-> v, flight |-> g]
      BY <1>2 DEF Listed, IsRowOf
    <2>2. rows'[e] # rows[e]
      BY <1>2, <2>1 DEF Listed, IsRowOf
    <2>3. v \notin accounts' \/ g \notin flights'
      BY <2>1, <2>2
    <2> QED
      BY <2>3 DEF Gone
  <1>3. ASSUME NEW h \in Handler PROVE Trail(h)'
    <2>1. Trail(h)
      BY DEF GInv, Trails
    <2>2. job[h].pc = "join_member" =>
              (Listed(job[h].user, job[h].flight) \/ Gone(job[h].user, job[h].flight))'
      <3>1. job[h].pc = "join_member" /\ Gone(job[h].user, job[h].flight) =>
                Gone(job[h].user, job[h].flight)'
        BY DEF Gone
      <3> QED
        BY <1>2, <2>1, <3>1 DEF Trail, Listed, IsRowOf, Gone
    <2>3. job[h].pc \in RowPc =>
              /\ job[h].entry \in EntryId
              /\ \/ rows'[job[h].entry] = NoRow
                 \/ IsRowOf(job[h].entry, job[h].user, job[h].flight)'
      BY <2>1 DEF Trail, IsRowOf
    <2> QED
      BY <2>1, <2>2, <2>3 DEF Trail
  <1>4. EntriesIssued'
    BY DEF GInv, EntriesIssued
  <1>5. MemberOwed'
    <2> SUFFICES ASSUME NEW v \in User, NEW g \in Flight, v \in zset[g], ~ Listed(v, g)',
                        ~ Gone(v, g)'
                 PROVE  \E k \in Handler : job[k].pc \in MemberPc /\ Place(k, v, g)
      BY DEF MemberOwed, Place
    <2> QED
      BY <1>1, <1>2 DEF GInv, MemberOwed
  <1>6. \A g \in Handler, s \in Seat : Concerns(g, s)' => Concerns(g, s)
    BY DEF Concerns, WorksOn, ListsKept
  <1>7. JoinApart'
    BY <1>6 DEF GInv, JoinApart
  <1> QED
    BY <1>3, <1>4, <1>5, <1>7 DEF GInv, Trails

LEMMA OwedStep ==
  ASSUME WaitlistPremises, CoreInv, RInv, GInv, [RemovalNext]_removalVars
  PROVE  GInv'
  <1>1. ListsKept
    BY RemovalStep, ListsKeptAlways
  <1>2. CASE Tick /\ UNCHANGED tables
    <2>1. UNCHANGED <<rows, issued, zset, job, todo, accounts, flights>>
      BY <1>2 DEF Tick, waitlist, tables
    <2> QED
      BY <1>1, <2>1, OwedByDeletion
  <1>3. CASE UNCHANGED removalVars
    <2>1. UNCHANGED <<rows, issued, zset, job, todo, accounts, flights>>
      BY <1>3 DEF removalVars, vars
    <2> QED
      BY <1>1, <2>1, OwedByDeletion
  <1>4. ASSUME NEW h \in Proc, Request(h), UNCHANGED tables PROVE GInv'
    BY <1>4, RequestKnown, RequestOwed DEF Handler
  <1>5. ASSUME NEW h \in Cron, CleanupFind(h), UNCHANGED tables PROVE GInv'
    <2>1. h \in Handler /\ UNCHANGED waitlist
      BY <1>5 DEF Handler, CleanupFind
    <2>2. Others(h) /\ job[h].pc = "idle" /\ job'[h].pc \notin MindPc /\ JoinApart'
      BY <1>5, <2>1, CleanupFindApart DEF GInv
    <2>3. Trail(h)'
      BY <2>2, Trailless DEF MindPc, JoinPc, LeavePc, AssignPc, RowPc
    <2> QED
      BY <1>5, <2>1, <2>2, <2>3, OwedKept DEF MemberPc
  <1>6. ASSUME NEW h \in Handler, Work(h), UNCHANGED tables PROVE GInv'
    BY <1>1, <1>6, WorkOwed
  <1>7. ASSUME NEW u \in User, DeleteUser(u) PROVE GInv'
    <2>1. /\ UNCHANGED <<issued, zset, job, todo>>
          /\ accounts' = accounts \ {u} /\ flights' = flights
          /\ rows' = [e \in EntryId |-> IF rows[e].user = u THEN NoRow ELSE rows[e]]
      BY <1>7 DEF DeleteUser, DeleteRows
    <2>2. ASSUME NEW e \in EntryId
          PROVE  \/ rows'[e] = rows[e]
                 \/ /\ rows'[e] = NoRow
                    /\ rows[e].user \notin accounts' \/ rows[e].flight \notin flights'
      <3>1. CASE rows[e].user # u
        BY <2>1, <3>1
      <3>2. CASE rows[e].user = u
        <4>1. rows'[e] = NoRow
          BY <2>1, <3>2
        <4>2. u \notin accounts'
          BY <2>1
        <4> QED
          BY <3>2, <4>1, <4>2
      <3> QED
        BY <3>1, <3>2
    <2>3. accounts' \subseteq accounts /\ flights' \subseteq flights
      BY <2>1
    <2> QED
      BY <1>1, <2>1, <2>2, <2>3, OwedByDeletion
  <1>8. ASSUME NEW f \in Flight, DeleteFlight(f) PROVE GInv'
    <2>1. /\ UNCHANGED <<issued, zset, job, todo>>
          /\ flights' = flights \ {f} /\ accounts' = accounts
          /\ rows' = [e \in EntryId |-> IF rows[e].flight = f THEN NoRow ELSE rows[e]]
      BY <1>8 DEF DeleteFlight, DeleteRows
    <2>2. ASSUME NEW e \in EntryId
          PROVE  \/ rows'[e] = rows[e]
                 \/ /\ rows'[e] = NoRow
                    /\ rows[e].user \notin accounts' \/ rows[e].flight \notin flights'
      BY <2>1 DEF Gone
    <2>3. accounts' \subseteq accounts /\ flights' \subseteq flights
      BY <2>1
    <2> QED
      BY <1>1, <2>1, <2>2, <2>3, OwedByDeletion
  <1> QED
    BY <1>2, <1>3, <1>4, <1>5, <1>6, <1>7, <1>8 DEF RemovalNext

LEMMA OwedStart == RemovalInit => GInv
  <1> SUFFICES ASSUME RemovalInit PROVE GInv
    OBVIOUS
  <1>1. \A h \in Handler : job[h].pc = "idle" /\ job[h].kind = Nil
    BY DEF RemovalInit, HandlersInit, NoJob
  <1>2. Trails
    BY <1>1 DEF Trails, Trail, JoinPc, LeavePc, RowPc
  <1>3. JoinApart
    BY <1>1, HandlersAssumption DEF JoinApart, Kind
  <1>4. \A f \in Flight : zset[f] = {}
    BY DEF RemovalInit, WaitlistInit, SeededWaitlist
  <1>5. EntriesIssued
    <2>1. CASE WaitlistInit
      BY <2>1 DEF WaitlistInit, EntriesIssued
    <2>2. CASE SeededWaitlist
      <3>1. /\ issued \in Nat
            /\ \A e \in EntryId : e > issued => rows[e] = NoRow
        BY <2>2, WaitlistAssumption DEF SeededWaitlist
      <3> QED
        BY <3>1, WaitlistAssumption DEF EntriesIssued, EntryId
    <2> QED
      BY <2>1, <2>2 DEF RemovalInit
  <1> QED
    BY <1>2, <1>3, <1>4, <1>5 DEF GInv, MemberOwed

(* A handler interrupted by a deletion forgets nobody: whom it leaves in    *)
(* the sorted set without a row has lost the account or the flight.         *)
THEOREM GhostInvariantHolds ==
  ASSUME WaitlistPremises
  PROVE  RemovalSpec => [](CoreInv /\ RInv /\ GInv)
  <1>1. RemovalInit => CoreInv /\ RInv /\ GInv
    BY RemovalStart, SeatsStart, OwedStart
  <1>2. CoreInv /\ RInv /\ GInv /\ [RemovalNext]_removalVars => (CoreInv /\ RInv /\ GInv)'
    BY RemovalStep, SeatsStep, OwedStep DEF WaitlistPremises
  <1> QED
    BY <1>1, <1>2, PTL DEF RemovalSpec

(* When nobody works on a flight, whoever is in its sorted set without a row *)
(* is an account that has been deleted: no leave, promotion or interrupted   *)
(* join leaves a member behind, whatever is deleted under it.                *)
THEOREM GhostsOnlyOfDeletion ==
  ASSUME WaitlistPremises
  PROVE  RemovalSpec => []GhostsAreDeleted
  <1>1. ASSUME CoreInv, RInv, GInv PROVE GhostsAreDeleted
    <2> SUFFICES ASSUME NEW f \in flights, \A s \in SeatsOf(f) : Quiet(s), NEW u \in zset[f],
                        ~ Listed(u, f), u \in accounts
                 PROVE  FALSE
      BY DEF GhostsAreDeleted
    <2>1. f \in Flight /\ u \in User
      BY <1>1, TypeFacts
    <2>2. PICK s \in Seat : FlightOf[s] = f /\ Quiet(s)
      BY <2>1 DEF WaitlistPremises, SeatsOf
    <2>3. PICK h \in Handler : job[h].pc \in MemberPc /\ Place(h, u, f)
      BY <1>1, <2>1 DEF GInv, MemberOwed, Gone
    <2>4. CASE job[h].pc = "leave_member"
      BY <1>1, <2>2, <2>3, <2>4 DEF Quiet, Concerns, GInv, Trails, Trail, LeavePc, Place
    <2>5. CASE job[h].pc = "assign_member"
      <3>1. job[h].seat \in Seat /\ job[h].flight = FlightOf[job[h].seat]
        BY <1>1, <2>5, SeatKnown DEF SeatPc, AssignPc
      <3> QED
        BY <2>3, <3>1 DEF SeatsOf, Quiet, Concerns, WorksOn, Place
    <2> QED
      BY <2>3, <2>4, <2>5 DEF MemberPc
  <1> QED
    BY <1>1, GhostInvariantHolds, PTL
===============================================================================
