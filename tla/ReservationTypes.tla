---------------------------- MODULE ReservationTypes ----------------------------
(***************************************************************************)
(* Type correctness of Reservations, for every value of its constants.      *)
(***************************************************************************)
EXTENDS ReservationInvariant, TLAPS

(* A handler that goes on, returns, or starts keeps a well-typed memory. *)
LEMMA PcType ==
  /\ LockPc \cup ConfirmPc \cup CancelPc \cup CleanPc \cup AssignPc \cup LeavePc
         \cup {"idle"} \subseteq Pc \ JoinPc
  /\ JoinPc \subseteq Pc
  BY DEF Pc, LockPc, ConfirmPc, CancelPc, CleanPc, AssignPc, JoinPc, LeavePc

LEMMA GotoType ==
  ASSUME JobsType, NEW h \in Handler, NEW p \in Pc, Goto(h, p),
         p \in JoinPc => job[h].user \in User
  PROVE  JobsType'
  BY DEF Goto, Job, JobsType

LEMMA NoJobType == NoJob \in Job
  BY DEF NoJob, Job, Pc

LEMMA FinishType ==
  ASSUME JobsType, NEW h \in Handler, Finish(h)
  PROVE  JobsType'
  <1>1. [NoJob EXCEPT !.pc = "clean_next", !.kind = "cleanup"] \in Job
    BY DEF NoJob, Job, Pc, CleanPc, Kind
  <1> QED
    BY <1>1, NoJobType DEF Finish, JobsType, NoJob, JoinPc

(* A handler starts with a memory r that is well typed. *)
LEMMA StartType ==
  ASSUME JobsType, NEW h \in Handler, NEW r \in Job, job' = [job EXCEPT ![h] = r],
         r.pc \in JoinPc => r.user \in User
  PROVE  JobsType'
  BY DEF JobsType

(* A handler goes on and remembers what it has just read or inserted. *)
LEMMA RememberType ==
  ASSUME JobsType, NEW h \in Handler, NEW p \in Pc \ JoinPc
  PROVE  /\ \A u \in User : job' = [job EXCEPT ![h].pc = p, ![h].user = u] => JobsType'
         /\ \A e \in EntryId : job' = [job EXCEPT ![h].pc = p, ![h].entry = e] => JobsType'
         /\ \A b \in BookingId : job' = [job EXCEPT ![h].pc = p, ![h].booking = b] => JobsType'
         /\ \A b \in BookingId, f \in Flight \cup {Nil}, s \in Seat \cup {Nil} :
               job' = [job EXCEPT ![h].pc = p, ![h].booking = b, ![h].flight = f, ![h].seat = s]
               => JobsType'
  <1>1. job \in [Handler -> Job] /\ job[h] \in Job
    BY DEF JobsType
  <1>2. ASSUME NEW u \in User, job' = [job EXCEPT ![h].pc = p, ![h].user = u]
        PROVE  JobsType'
    <2> DEFINE r == [job[h] EXCEPT !.pc = p, !.user = u]
    <2>1. r \in Job /\ r.pc = p /\ job' = [job EXCEPT ![h] = r]
      BY <1>1, <1>2 DEF Job
    <2> HIDE DEF r
    <2> QED
      BY <2>1, StartType
  <1>3. ASSUME NEW e \in EntryId, job' = [job EXCEPT ![h].pc = p, ![h].entry = e]
        PROVE  JobsType'
    <2> DEFINE r == [job[h] EXCEPT !.pc = p, !.entry = e]
    <2>1. r \in Job /\ r.pc = p /\ job' = [job EXCEPT ![h] = r]
      BY <1>1, <1>3 DEF Job
    <2> HIDE DEF r
    <2> QED
      BY <2>1, StartType
  <1>4. ASSUME NEW b \in BookingId, job' = [job EXCEPT ![h].pc = p, ![h].booking = b]
        PROVE  JobsType'
    <2> DEFINE r == [job[h] EXCEPT !.pc = p, !.booking = b]
    <2>1. r \in Job /\ r.pc = p /\ job' = [job EXCEPT ![h] = r]
      BY <1>1, <1>4 DEF Job
    <2> HIDE DEF r
    <2> QED
      BY <2>1, StartType
  <1>5. ASSUME NEW b \in BookingId, NEW f \in Flight \cup {Nil}, NEW s \in Seat \cup {Nil},
               job' = [job EXCEPT ![h].pc = p, ![h].booking = b, ![h].flight = f, ![h].seat = s]
        PROVE  JobsType'
    <2> DEFINE r == [job[h] EXCEPT !.pc = p, !.booking = b, !.flight = f, !.seat = s]
    <2>1. r \in Job /\ r.pc = p /\ job' = [job EXCEPT ![h] = r]
      BY <1>1, <1>5 DEF Job
    <2> HIDE DEF r
    <2> QED
      BY <2>1, StartType
  <1> QED
    BY <1>2, <1>3, <1>4, <1>5

LEMMA OnBookingType ==
  ASSUME TypeOK, NEW h \in Handler, NEW b \in BookingId, NEW k \in Kind,
         NEW p \in Pc \ JoinPc, OnBooking(h, b, k, p)
  PROVE  JobsType'
  <1>1. bookings[b] \in Booking
    BY DEF TypeOK, StoreType
  <1> DEFINE r == [NoJob EXCEPT !.pc = p, !.kind = k, !.booking = b,
                                !.flight = bookings[b].flight, !.seat = bookings[b].seat]
  <1>2. r \in Job
    BY <1>1 DEF NoJob, Job, Booking
  <1>3. r.pc \notin JoinPc
    BY DEF NoJob
  <1>4. job' = [job EXCEPT ![h] = r]
    BY DEF OnBooking
  <1> QED
    BY <1>2, <1>3, <1>4, StartType DEF TypeOK, HandlersType

-------------------------------------------------------------------------------
(* What a statement of the stores writes is well typed. *)
LEMMA LockWriteType ==
  ASSUME lock \in [Flight \X Seat -> Lock], NEW f, NEW s,
         \/ \E u \in User \cup {Nil} : SetLock(f, s, u)
         \/ ReleaseLock(f, s)
         \/ LocksElapse
  PROVE  lock' \in [Flight \X Seat -> Lock]
  <1>1. NoLock \in Lock /\ \A u \in User \cup {Nil} : [holder |-> u, ttl |-> TTL] \in Lock
    BY DomainAssumption DEF NoLock, Lock
  <1>2. CASE (\E u \in User \cup {Nil} : SetLock(f, s, u)) \/ ReleaseLock(f, s)
    BY <1>1, <1>2 DEF SetLock, ReleaseLock
  <1>3. CASE LocksElapse
    <2>1. ASSUME NEW k \in Flight \X Seat, ~ (lock[k].ttl <= 1)
          PROVE  [lock[k] EXCEPT !.ttl = @ - 1] \in Lock
      BY <2>1, DomainAssumption DEF Lock
    <2> QED
      BY <1>1, <1>3, <2>1 DEF LocksElapse
  <1> QED
    BY <1>2, <1>3

LEMMA BookingWriteType ==
  ASSUME bookings \in [BookingId -> Booking],
         \/ \E b \in BookingId, u \in User \cup {Nil}, f \in Flight \cup {Nil},
               s \in Seat \cup {Nil} : InsertBooking(b, u, f, s)
         \/ BookingsAge
  PROVE  bookings' \in [BookingId -> Booking]
  <1>1. CASE \E b \in BookingId, u \in User \cup {Nil}, f \in Flight \cup {Nil},
                s \in Seat \cup {Nil} : InsertBooking(b, u, f, s)
    BY <1>1, DomainAssumption DEF InsertBooking, Booking, BookingStatus
  <1>2. CASE BookingsAge
    <2>1. ASSUME NEW b \in BookingId, bookings[b].age <= TTL
          PROVE  [bookings[b] EXCEPT !.age = @ + 1] \in Booking
      <3>1. bookings[b].age + 1 \in 0 .. TTL + 1
        BY <2>1, DomainAssumption DEF Booking
      <3> QED
        BY <3>1 DEF Booking
    <2>2. bookings' = [b \in BookingId |->
              IF bookings[b].status # "NONE" /\ bookings[b].age <= TTL
              THEN [bookings[b] EXCEPT !.age = @ + 1] ELSE bookings[b]]
      BY <1>2 DEF BookingsAge
    <2>3. ASSUME NEW b \in BookingId
          PROVE  (IF bookings[b].status # "NONE" /\ bookings[b].age <= TTL
                  THEN [bookings[b] EXCEPT !.age = @ + 1] ELSE bookings[b]) \in Booking
      BY <2>1
    <2> QED
      BY <2>2, <2>3
  <1> QED
    BY <1>1, <1>2

LEMMA StatusWriteType ==
  ASSUME bookings \in [BookingId -> Booking], NEW b, NEW status \in BookingStatus,
         UpdateStatus(b, status)
  PROVE  bookings' \in [BookingId -> Booking]
  BY DEF UpdateStatus, Booking

LEMMA SeatWriteType ==
  ASSUME seats \in [Seat -> SeatStatus], NEW s, NEW status \in SeatStatus, UpdateSeat(s, status)
  PROVE  seats' \in [Seat -> SeatStatus]
  BY DEF UpdateSeat

LEMMA RowWriteType ==
  ASSUME WaitlistType, UNCHANGED zset,
         \/ \E u \in User \cup {Nil}, f \in Flight \cup {Nil} :
               issued < MaxEntries /\ InsertRow(u, f)
         \/ UNCHANGED issued /\ \E e : DeleteRow(e)
  PROVE  WaitlistType'
  <1>1. CASE \E u \in User \cup {Nil}, f \in Flight \cup {Nil} :
                issued < MaxEntries /\ InsertRow(u, f)
    BY <1>1, WaitlistAssumption DEF WaitlistType, InsertRow, Row, EntryId
  <1>2. CASE UNCHANGED issued /\ \E e : DeleteRow(e)
    <2>1. NoRow \in Row
      BY DEF NoRow, Row
    <2> QED
      BY <1>2, <2>1 DEF WaitlistType, DeleteRow
  <1> QED
    BY <1>1, <1>2

LEMMA MemberWriteType ==
  ASSUME WaitlistType, UNCHANGED <<rows, issued>>, NEW f, NEW u \in User \cup {Nil},
         RemoveMember(f, u) \/ (u \in User /\ AddMember(f, u))
  PROVE  WaitlistType'
  BY DEF WaitlistType, RemoveMember, AddMember

-------------------------------------------------------------------------------
LEMMA InitTypeOK == Init => TypeOK
  <1> SUFFICES ASSUME Init PROVE TypeOK
    OBVIOUS
  <1>1. LocksType
    BY DomainAssumption DEF Init, LocksInit, LocksType, NoLock, Lock
  <1>2. StoreType
    BY DomainAssumption
    DEF Init, StoreInit, StoreType, NoBooking, Booking, BookingStatus, SeatStatus
  <1>3. WaitlistType
    BY WaitlistAssumption DEF Init, WaitlistInit, WaitlistType, NoRow, Row
  <1>4. HandlersType
    BY NoJobType, PcType DEF Init, HandlersInit, HandlersType, JobsType, NoJob, JoinPc
  <1> QED
    BY <1>1, <1>2, <1>3, <1>4 DEF TypeOK

LEMMA TickType == TypeOK /\ Tick => TypeOK'
  <1> SUFFICES ASSUME TypeOK, Tick PROVE TypeOK'
    OBVIOUS
  <1>1. LocksType'
    <2>1. lock \in [Flight \X Seat -> Lock] /\ LocksElapse
      BY DEF TypeOK, LocksType, Tick
    <2> QED
      BY <2>1, LockWriteType DEF LocksType
  <1>2. StoreType'
    BY BookingWriteType DEF TypeOK, StoreType, Tick
  <1> QED
    BY <1>1, <1>2 DEF Tick, TypeOK, WaitlistType, HandlersType, JobsType, waitlist

LEMMA BookingRequestType ==
  ASSUME TypeOK, NEW h \in Handler, BookingRequest(h)
  PROVE  TypeOK'
  <1>1. JobsType'
    <2>1. ASSUME NEW u \in User, NEW f \in Flight, NEW s \in Seat, LockCheck(h, u, f, s)
          PROVE  JobsType'
      <3> DEFINE r == [NoJob EXCEPT !.pc = "lock_acquire", !.kind = "lock",
                                    !.user = u, !.flight = f, !.seat = s]
      <3>1. r \in Job
        BY DEF Job, NoJob, Pc, LockPc, Kind
      <3>2. r.user \in User
        BY DEF NoJob
      <3>3. job' = [job EXCEPT ![h] = r]
        BY <2>1 DEF LockCheck
      <3> QED
        BY <3>1, <3>2, <3>3, StartType DEF TypeOK, HandlersType
    <2>2. CASE \E u \in User, b \in BookingId : ConfirmCheck(h, u, b)
      BY <2>2, OnBookingType, PcType DEF ConfirmCheck, ConfirmPc, Kind
    <2>3. CASE \E u \in User, b \in BookingId : CancelCheck(h, u, b)
      BY <2>3, OnBookingType, PcType DEF CancelCheck, CancelPc, Kind
    <2>4. CASE \E b \in BookingId : AdminCancelCheck(h, b)
      BY <2>4, OnBookingType, PcType DEF AdminCancelCheck, CancelPc, Kind
    <2> QED
      BY <2>1, <2>2, <2>3, <2>4 DEF BookingRequest
  <1>2. UNCHANGED <<locks, store, waitlist, todo>>
    BY DEF BookingRequest, LockCheck, ConfirmCheck, CancelCheck, AdminCancelCheck
  <1> QED
    BY <1>1, <1>2
    DEF TypeOK, LocksType, StoreType, WaitlistType, HandlersType, locks, store, waitlist

LEMMA WaitlistRequestType ==
  ASSUME TypeOK, NEW h \in Handler, WaitlistRequest(h)
  PROVE  TypeOK'
  <1>1. JobsType'
    <2>1. ASSUME NEW u \in User, NEW f \in Flight, JoinCheck(h, u, f)
          PROVE  JobsType'
      <3> DEFINE r == [NoJob EXCEPT !.pc = "join_confirmed", !.kind = "join",
                                    !.user = u, !.flight = f]
      <3>1. r \in Job
        BY DEF Job, NoJob, Pc, JoinPc, Kind
      <3>2. r.user \in User
        BY DEF NoJob
      <3>3. job' = [job EXCEPT ![h] = r]
        BY <2>1 DEF JoinCheck
      <3> QED
        BY <3>1, <3>2, <3>3, StartType DEF TypeOK, HandlersType
    <2>2. ASSUME NEW e \in EntryId, LeaveCheck(h, e)
          PROVE  JobsType'
      <3> DEFINE r == [NoJob EXCEPT !.pc = "leave_row", !.kind = "leave",
                                    !.user = rows[e].user, !.flight = rows[e].flight,
                                    !.entry = e]
      <3>0. rows[e] \in Row
        BY DEF TypeOK, WaitlistType
      <3>1. r \in Job
        BY <3>0 DEF Job, NoJob, Pc, LeavePc, Kind, Row
      <3>2. r.pc \notin JoinPc
        BY DEF NoJob, JoinPc
      <3>3. job' = [job EXCEPT ![h] = r]
        BY <2>2 DEF LeaveCheck
      <3> QED
        BY <3>1, <3>2, <3>3, StartType DEF TypeOK, HandlersType
    <2> QED
      BY <2>1, <2>2 DEF WaitlistRequest
  <1>2. UNCHANGED <<locks, store, waitlist, todo>>
    BY DEF WaitlistRequest, JoinCheck, LeaveCheck
  <1> QED
    BY <1>1, <1>2
    DEF TypeOK, LocksType, StoreType, WaitlistType, HandlersType, locks, store, waitlist

LEMMA CleanupFindType ==
  ASSUME TypeOK, NEW h \in Handler, CleanupFind(h)
  PROVE  TypeOK'
  <1> DEFINE r == [NoJob EXCEPT !.pc = "clean_next", !.kind = "cleanup"]
  <1>1. r \in Job /\ r.pc \notin JoinPc
    BY DEF Job, NoJob, Pc, CleanPc, JoinPc, Kind
  <1>2. job' = [job EXCEPT ![h] = r]
    BY DEF CleanupFind
  <1>3. JobsType'
    BY <1>1, <1>2, StartType DEF TypeOK, HandlersType
  <1>4. todo' \in [Handler -> SUBSET BookingId]
    BY DEF TypeOK, HandlersType, CleanupFind, ExpiredLocked
  <1> QED
    BY <1>3, <1>4
    DEF CleanupFind, TypeOK, LocksType, StoreType, WaitlistType, HandlersType, locks, store,
        waitlist
-------------------------------------------------------------------------------
(* The steps of a handler in flight: its memory, what it writes, the rest. *)
LEMMA JobFacts ==
  ASSUME TypeOK, NEW h \in Handler
  PROVE  /\ JobsType
         /\ job[h].user \in User \cup {Nil}
         /\ job[h].flight \in Flight \cup {Nil}
         /\ job[h].seat \in Seat \cup {Nil}
         /\ lock \in [Flight \X Seat -> Lock]
         /\ bookings \in [BookingId -> Booking]
         /\ seats \in [Seat -> SeatStatus]
         /\ WaitlistType
  BY DEF TypeOK, HandlersType, JobsType, Job, StoreType, LocksType

LEMMA TypeParts ==
  ASSUME TypeOK, JobsType', todo' \in [Handler -> SUBSET BookingId],
         LocksType', StoreType', WaitlistType'
  PROVE  TypeOK'
  BY DEF TypeOK, HandlersType

LEMMA Unwritten ==
  ASSUME TypeOK
  PROVE  /\ UNCHANGED todo => todo' \in [Handler -> SUBSET BookingId]
         /\ UNCHANGED locks => LocksType'
         /\ UNCHANGED store => StoreType'
         /\ UNCHANGED waitlist => WaitlistType'
  BY DEF TypeOK, HandlersType, LocksType, StoreType, WaitlistType, locks, store, waitlist

LEMMA BookingStepType ==
  ASSUME TypeOK, NEW h \in Handler, BookingStep(h)
  PROVE  TypeOK'
  <1> USE JobFacts
  <1>1. CASE LockAcquire(h)
    <2>1. JobsType'
      BY <1>1, GotoType, FinishType, PcType DEF LockAcquire, At, LockPc
    <2>2. LocksType'
      BY <1>1, LockWriteType, Unwritten DEF LockAcquire, LocksType
    <2> QED
      BY <1>1, <2>1, <2>2, Unwritten, TypeParts DEF LockAcquire, locks, store, waitlist
  <1>2. CASE LockCreate(h)
    <2>1. JobsType'
      BY <1>2, FinishType, RememberType, PcType DEF LockCreate, LockPc
    <2>2. StoreType'
      BY <1>2, BookingWriteType, StatusWriteType DEF LockCreate, StoreType, BookingStatus
    <2> QED
      BY <1>2, <2>1, <2>2, Unwritten, TypeParts DEF LockCreate, locks, store, waitlist
  <1>3. CASE LockSeat(h)
    <2>1. JobsType'
      BY <1>3, GotoType, FinishType, PcType DEF LockSeat, At, LockPc
    <2>2. StoreType'
      BY <1>3, SeatWriteType DEF LockSeat, StoreType, SeatStatus
    <2> QED
      BY <1>3, <2>1, <2>2, Unwritten, TypeParts DEF LockSeat, locks, store, waitlist
  <1>4. CASE ConfirmLock(h)
    <2>1. JobsType'
      BY <1>4, GotoType, FinishType, PcType DEF ConfirmLock, At, ConfirmPc
    <2> QED
      BY <1>4, <2>1, Unwritten, TypeParts DEF ConfirmLock, locks, store, waitlist
  <1>5. CASE ConfirmStatus(h)
    <2>1. JobsType'
      BY <1>5, GotoType, FinishType, PcType DEF ConfirmStatus, At, ConfirmPc
    <2>2. StoreType'
      BY <1>5, BookingWriteType, StatusWriteType DEF ConfirmStatus, StoreType, BookingStatus
    <2> QED
      BY <1>5, <2>1, <2>2, Unwritten, TypeParts DEF ConfirmStatus, locks, store, waitlist
  <1>6. CASE ConfirmSeat(h)
    <2>1. JobsType'
      BY <1>6, GotoType, FinishType, PcType DEF ConfirmSeat, At, ConfirmPc
    <2>2. StoreType'
      BY <1>6, SeatWriteType DEF ConfirmSeat, StoreType, SeatStatus
    <2> QED
      BY <1>6, <2>1, <2>2, Unwritten, TypeParts DEF ConfirmSeat, locks, store, waitlist
  <1>7. CASE CancelStatus(h)
    <2>1. JobsType'
      BY <1>7, GotoType, FinishType, PcType DEF CancelStatus, At, CancelPc
    <2>2. StoreType'
      BY <1>7, BookingWriteType, StatusWriteType DEF CancelStatus, StoreType, BookingStatus
    <2> QED
      BY <1>7, <2>1, <2>2, Unwritten, TypeParts DEF CancelStatus, locks, store, waitlist
  <1>8. CASE CancelSeat(h)
    <2>1. JobsType'
      BY <1>8, GotoType, FinishType, PcType DEF CancelSeat, At, CancelPc
    <2>2. StoreType'
      BY <1>8, SeatWriteType DEF CancelSeat, StoreType, SeatStatus
    <2> QED
      BY <1>8, <2>1, <2>2, Unwritten, TypeParts DEF CancelSeat, locks, store, waitlist
  <1>9. CASE CancelRelease(h)
    <2>1. JobsType'
      BY <1>9, GotoType, FinishType, PcType DEF CancelRelease, At, CancelPc, AssignPc
    <2>2. LocksType'
      BY <1>9, LockWriteType, Unwritten DEF CancelRelease, LocksType
    <2> QED
      BY <1>9, <2>1, <2>2, Unwritten, TypeParts DEF CancelRelease, locks, store, waitlist
  <1> QED
    BY <1>1, <1>2, <1>3, <1>4, <1>5, <1>6, <1>7, <1>8, <1>9 DEF BookingStep

LEMMA CleanupStepType ==
  ASSUME TypeOK, NEW h \in Handler, CleanupStep(h)
  PROVE  TypeOK'
  <1> USE JobFacts
  <1>1. CASE CleanupStatus(h)
    <2>1. JobsType'
      <3>1. PICK b \in todo[h] :
                job' = [job EXCEPT ![h].pc = "clean_seat", ![h].booking = b,
                                   ![h].flight = bookings[b].flight,
                                   ![h].seat = bookings[b].seat]
        BY <1>1 DEF CleanupStatus
      <3>2. b \in BookingId
        BY <3>1 DEF TypeOK, HandlersType
      <3>3. bookings[b].flight \in Flight \cup {Nil} /\ bookings[b].seat \in Seat \cup {Nil}
        BY <3>2 DEF Booking
      <3> QED
        BY <3>1, <3>2, <3>3, RememberType, PcType DEF CleanPc
    <2>2. StoreType'
      BY <1>1, StatusWriteType DEF CleanupStatus, StoreType, BookingStatus
    <2>3. todo' \in [Handler -> SUBSET BookingId]
      BY <1>1 DEF CleanupStatus, TypeOK, HandlersType
    <2> QED
      BY <1>1, <2>1, <2>2, <2>3, Unwritten, TypeParts DEF CleanupStatus, locks, store, waitlist
  <1>2. CASE CleanupSeat(h)
    <2>1. JobsType'
      BY <1>2, GotoType, FinishType, PcType DEF CleanupSeat, At, CleanPc, AssignPc
    <2>2. StoreType'
      BY <1>2, SeatWriteType DEF CleanupSeat, StoreType, SeatStatus
    <2> QED
      BY <1>2, <2>1, <2>2, Unwritten, TypeParts DEF CleanupSeat, locks, store, waitlist
  <1> QED
    BY <1>1, <1>2 DEF CleanupStep

LEMMA AssignStepType ==
  ASSUME TypeOK, NEW h \in Handler, AssignStep(h)
  PROVE  TypeOK'
  <1> USE JobFacts
  <1>1. CASE AssignTop(h)
    <2>1. JobsType'
      BY <1>1, FinishType, RememberType, PcType DEF AssignTop, AssignPc
    <2> QED
      BY <1>1, <2>1, Unwritten, TypeParts DEF AssignTop, locks, store, waitlist
  <1>2. CASE AssignEntry(h)
    <2>1. JobsType'
      BY <1>2, GotoType, RememberType, PcType DEF AssignEntry, AssignPc
    <2> QED
      BY <1>2, <2>1, Unwritten, TypeParts DEF AssignEntry, locks, store, waitlist
  <1>3. CASE AssignConfirmed(h)
    <2>1. JobsType'
      BY <1>3, GotoType, FinishType, PcType DEF AssignConfirmed, At, AssignPc
    <2> QED
      BY <1>3, <2>1, Unwritten, TypeParts DEF AssignConfirmed, locks, store, waitlist
  <1>4. CASE AssignAcquire(h)
    <2>1. JobsType'
      BY <1>4, GotoType, FinishType, PcType DEF AssignAcquire, At, AssignPc
    <2>2. LocksType'
      BY <1>4, LockWriteType, Unwritten DEF AssignAcquire, LocksType
    <2> QED
      BY <1>4, <2>1, <2>2, Unwritten, TypeParts DEF AssignAcquire, locks, store, waitlist
  <1>5. CASE AssignCreate(h)
    <2>1. JobsType'
      BY <1>5, FinishType, RememberType, PcType DEF AssignCreate, AssignPc
    <2>2. StoreType'
      BY <1>5, BookingWriteType, StatusWriteType DEF AssignCreate, StoreType, BookingStatus
    <2> QED
      BY <1>5, <2>1, <2>2, Unwritten, TypeParts DEF AssignCreate, locks, store, waitlist
  <1>6. CASE AssignSeat(h)
    <2>1. JobsType'
      BY <1>6, GotoType, FinishType, PcType DEF AssignSeat, At, AssignPc
    <2>2. StoreType'
      BY <1>6, SeatWriteType DEF AssignSeat, StoreType, SeatStatus
    <2> QED
      BY <1>6, <2>1, <2>2, Unwritten, TypeParts DEF AssignSeat, locks, store, waitlist
  <1>7. CASE AssignRow(h)
    <2>1. JobsType'
      BY <1>7, GotoType, FinishType, PcType DEF AssignRow, At, AssignPc
    <2>2. WaitlistType'
      BY <1>7, RowWriteType, Unwritten DEF AssignRow, RowAllowed, waitlist
    <2> QED
      BY <1>7, <2>1, <2>2, Unwritten, TypeParts DEF AssignRow, locks, store, waitlist
  <1>8. CASE AssignMember(h)
    <2>1. JobsType'
      BY <1>8, GotoType, FinishType, PcType DEF AssignMember, At, AssignPc
    <2>2. WaitlistType'
      BY <1>8, MemberWriteType DEF AssignMember, At, JobsType, JoinPc
    <2> QED
      BY <1>8, <2>1, <2>2, Unwritten, TypeParts DEF AssignMember, locks, store, waitlist
  <1> QED
    BY <1>1, <1>2, <1>3, <1>4, <1>5, <1>6, <1>7, <1>8 DEF AssignStep

LEMMA WaitlistStepType ==
  ASSUME TypeOK, NEW h \in Handler, WaitlistStep(h)
  PROVE  TypeOK'
  <1> USE JobFacts
  <1>1. CASE JoinConfirmed(h)
    <2>1. JobsType'
      BY <1>1, GotoType, FinishType, PcType DEF JoinConfirmed, At, JoinPc, JobsType
    <2> QED
      BY <1>1, <2>1, Unwritten, TypeParts DEF JoinConfirmed, locks, store, waitlist
  <1>2. CASE JoinCreate(h)
    <2>1. JobsType'
      BY <1>2, GotoType, FinishType, PcType DEF JoinCreate, At, JoinPc, JobsType
    <2>2. WaitlistType'
      BY <1>2, RowWriteType, Unwritten DEF JoinCreate, RowAllowed, waitlist
    <2> QED
      BY <1>2, <2>1, <2>2, Unwritten, TypeParts DEF JoinCreate, locks, store, waitlist
  <1>3. CASE JoinMember(h)
    <2>1. JobsType'
      BY <1>3, GotoType, FinishType, PcType DEF JoinMember, At, JoinPc
    <2>2. WaitlistType'
      BY <1>3, MemberWriteType DEF JoinMember, At, JobsType, JoinPc
    <2> QED
      BY <1>3, <2>1, <2>2, Unwritten, TypeParts DEF JoinMember, locks, store, waitlist
  <1>4. CASE LeaveRow(h)
    <2>1. JobsType'
      BY <1>4, GotoType, FinishType, PcType DEF LeaveRow, At, LeavePc
    <2>2. WaitlistType'
      BY <1>4, RowWriteType, Unwritten DEF LeaveRow, RowAllowed, waitlist
    <2> QED
      BY <1>4, <2>1, <2>2, Unwritten, TypeParts DEF LeaveRow, locks, store, waitlist
  <1>5. CASE LeaveMember(h)
    <2>1. JobsType'
      BY <1>5, GotoType, FinishType, PcType DEF LeaveMember, At, LeavePc
    <2>2. WaitlistType'
      BY <1>5, MemberWriteType DEF LeaveMember, At, JobsType, JoinPc
    <2> QED
      BY <1>5, <2>1, <2>2, Unwritten, TypeParts DEF LeaveMember, locks, store, waitlist
  <1> QED
    BY <1>1, <1>2, <1>3, <1>4, <1>5 DEF WaitlistStep

-------------------------------------------------------------------------------
LEMMA NextTypeOK == TypeOK /\ [Next]_vars => TypeOK'
  <1> SUFFICES ASSUME TypeOK, [Next]_vars PROVE TypeOK'
    OBVIOUS
  <1>1. CASE Tick
    BY <1>1, TickType
  <1>2. CASE \E h \in Proc : BookingRequest(h) \/ WaitlistRequest(h)
    BY <1>2, BookingRequestType, WaitlistRequestType DEF Handler
  <1>3. CASE \E h \in Cron : CleanupFind(h)
    BY <1>3, CleanupFindType DEF Handler
  <1>4. CASE \E h \in Handler : Step(h)
    BY <1>4, BookingStepType, CleanupStepType, AssignStepType, WaitlistStepType DEF Step
  <1>5. CASE \E s \in Seat, status \in SeatStatus : SetSeat(s, status)
    <2>1. StoreType'
      BY <1>5, SeatWriteType DEF SetSeat, TypeOK, StoreType
    <2> QED
      BY <1>5, <2>1, Unwritten, TypeParts
      DEF SetSeat, TypeOK, HandlersType, JobsType, locks, waitlist
  <1>6. CASE UNCHANGED vars
    BY <1>6
    DEF vars, TypeOK, LocksType, StoreType, WaitlistType, HandlersType, JobsType
  <1> QED
    BY <1>1, <1>2, <1>3, <1>4, <1>5, <1>6 DEF Next

(* Every variable keeps its type, whatever the traffic does: no handler    *)
(* writes a row, a key or a status from a memory it has not filled before. *)
THEOREM TypeCorrect == Spec => []TypeOK
  <1>1. Init => TypeOK
    BY InitTypeOK
  <1>2. TypeOK /\ [Next]_vars => TypeOK'
    BY NextTypeOK
  <1> QED
    BY <1>1, <1>2, PTL DEF Spec
===============================================================================
