------------------------------ MODULE StatusProofs ------------------------------
(***************************************************************************)
(* The status of a seat, exactly: under one more premise than the rest of   *)
(* the core's safety needs, that no hold is asked for on a seat while the   *)
(* last one is being confirmed.                                             *)
(***************************************************************************)
EXTENDS ReservationProofs

StrictPremises == Premises /\ {"lock", "confirm"} \in Exclusive

(* A seat is marked BOOKED only for a paid booking, *)
BookedSold ==
    \A b \in BookingId, s \in Seat :
        ActiveOn(b, s) /\ seats[s] = "BOOKED" => bookings[b].status = "CONFIRMED"

(* a paid booking finds its seat LOCKED only until its confirmation marks it, *)
LockedHeld ==
    \A b \in BookingId, s \in Seat :
        ActiveOn(b, s) /\ bookings[b].status = "CONFIRMED" /\ seats[s] = "LOCKED" =>
            \E h \in Handler : On(h, {"confirm_seat"}, s)

(* and who is about to mark a seat LOCKED does so for a hold. *)
MarkHeld ==
    \A h \in Handler, b \in BookingId, s \in Seat :
        On(h, MarkPc, s) /\ ActiveOn(b, s) => bookings[b].status = "LOCKED"

SInv == BookedSold /\ LockedHeld /\ MarkHeld

-------------------------------------------------------------------------------
(* Steps that mark no seat, take none and confirm nothing. *)
LEMMA StatusKept ==
  ASSUME SInv,
         \A b \in BookingId, s \in Seat : ActiveOn(b, s)' =>
             ActiveOn(b, s) /\ bookings'[b].status = bookings[b].status,
         \A s \in Seat : seats'[s] \in {seats[s], "AVAILABLE"},
         \A g \in Handler, s \in Seat :
             /\ On(g, MarkPc, s)' => On(g, MarkPc, s)
             /\ On(g, {"confirm_seat"}, s) => On(g, {"confirm_seat"}, s)'
  PROVE  SInv'
  <1>1. BookedSold'
    BY DEF SInv, BookedSold
  <1>2. LockedHeld'
    BY DEF SInv, LockedHeld
  <1>3. MarkHeld'
    BY DEF SInv, MarkHeld
  <1> QED
    BY <1>1, <1>2, <1>3 DEF SInv

(* The same of a step of one handler, by where it starts and ends. *)
LEMMA StatusKeptBy ==
  ASSUME SInv, NEW h \in Handler, \A g \in Handler \ {h} : job'[g] = job[g],
         job'[h].pc \notin MarkPc, job[h].pc # "confirm_seat",
         \A b \in BookingId, s \in Seat : ActiveOn(b, s)' =>
             ActiveOn(b, s) /\ bookings'[b].status = bookings[b].status,
         \A s \in Seat : seats'[s] \in {seats[s], "AVAILABLE"}
  PROVE  SInv'
  <1>1. \A g \in Handler, s \in Seat :
             /\ On(g, MarkPc, s)' => On(g, MarkPc, s)
             /\ On(g, {"confirm_seat"}, s) => On(g, {"confirm_seat"}, s)'
    BY DEF On
  <1> QED
    BY <1>1, StatusKept

LEMMA SameActive ==
  ASSUME UNCHANGED bookings
  PROVE  \A b \in BookingId, s \in Seat :
             /\ ActiveOn(b, s)' <=> ActiveOn(b, s)
             /\ bookings'[b].status = bookings[b].status
  BY DEF ActiveOn, Active

LEMMA EndedActive ==
  ASSUME IInv, NEW c, NEW v, UpdateStatus(c, v), v \in {"CANCELLED", "EXPIRED"}
  PROVE  \A b \in BookingId, s \in Seat : ActiveOn(b, s)' =>
             ActiveOn(b, s) /\ bookings'[b].status = bookings[b].status
  <1>1. bookings \in [BookingId -> Booking]
    BY DEF IInv, CoreInv, TypeOK, StoreType
  <1>2. \A b \in BookingId : b # c => bookings'[b] = bookings[b]
    BY <1>1 DEF UpdateStatus
  <1>3. c \in BookingId => bookings'[c].status = v
    BY <1>1 DEF UpdateStatus, Booking
  <1> QED
    BY <1>2, <1>3 DEF ActiveOn, Active

(* A hold marks the seat that its handler holds the token of. *)
LEMMA MarkStatus ==
  ASSUME IInv, SInv, NEW h \in Handler, NEW s \in Seat, On(h, MarkPc, s),
         UpdateSeat(s, "LOCKED"), UNCHANGED bookings,
         \A g \in Handler \ {h} : job'[g] = job[g], job'[h].pc \notin MarkPc
  PROVE  SInv'
  <1>1. seats'[s] = "LOCKED" /\ \A r \in Seat : r # s => seats'[r] = seats[r]
    BY DEF UpdateSeat, IInv, CoreInv, TypeOK, StoreType
  <1>2. \A b \in BookingId : ActiveOn(b, s) => bookings[b].status = "LOCKED"
    BY DEF SInv, MarkHeld
  <1>3. \A g \in Handler, r \in Seat :
           /\ On(g, MarkPc, r)' => On(g, MarkPc, r)
           /\ On(g, {"confirm_seat"}, r) => On(g, {"confirm_seat"}, r)'
    BY DEF On, MarkPc
  <1>4. BookedSold'
    BY <1>1, SameActive DEF SInv, BookedSold
  <1>5. LockedHeld'
    BY <1>1, <1>2, <1>3, SameActive DEF SInv, LockedHeld
  <1>6. MarkHeld'
    BY <1>3, SameActive DEF SInv, MarkHeld
  <1> QED
    BY <1>4, <1>5, <1>6 DEF SInv

LEMMA ConfirmSeatStatus ==
  ASSUME IInv, SInv, NEW h \in Handler, ConfirmSeat(h)
  PROVE  SInv'
  <1>1. job[h].pc = "confirm_seat" /\ Finish(h) /\ UNCHANGED <<bookings, todo>>
    BY DEF ConfirmSeat, At
  <1>2. PICK s \in Seat : s = job[h].seat
    BY <1>1, Intact, SeatKnown DEF SeatPc, ConfirmPc
  <1>3. seats'[s] = "BOOKED" /\ \A r \in Seat : r # s => seats'[r] = seats[r]
    BY <1>2 DEF ConfirmSeat, UpdateSeat, IInv, CoreInv, TypeOK, StoreType
  <1>4. PICK c \in BookingId : ActiveOn(c, s) /\ bookings[c].status = "CONFIRMED"
    BY <1>1, <1>2, Intact DEF On, ConfirmPc
  <1>5. \A b \in BookingId : ActiveOn(b, s) => b = c
    BY <1>4 DEF IInv, CoreInv, OneActive
  <1>6. job'[h].pc \in {"idle", "clean_next"} /\ \A g \in Handler \ {h} : job'[g] = job[g]
    BY <1>1, Intact, FinishFacts DEF Others
  <1>7. \A g \in Handler, r \in Seat :
           /\ On(g, MarkPc, r)' => On(g, MarkPc, r)
           /\ r # s /\ On(g, {"confirm_seat"}, r) => On(g, {"confirm_seat"}, r)'
    BY <1>2, <1>6 DEF On, MarkPc
  <1>8. BookedSold'
    BY <1>1, <1>3, <1>4, <1>5, SameActive DEF SInv, BookedSold
  <1>9. LockedHeld'
    BY <1>1, <1>3, <1>7, SameActive DEF SInv, LockedHeld
  <1>10. MarkHeld'
    BY <1>1, <1>7, SameActive DEF SInv, MarkHeld
  <1> QED
    BY <1>8, <1>9, <1>10 DEF SInv

(* A confirmation meets nobody who is about to mark the seat for a hold. *)
LEMMA ConfirmStatusStatus ==
  ASSUME StrictPremises, IInv, SInv, IInv', NEW h \in Handler, ConfirmStatus(h)
  PROVE  SInv'
  <1>1. /\ job[h].pc = "confirm_status" /\ UpdateStatus(job[h].booking, "CONFIRMED")
        /\ Goto(h, "confirm_seat") /\ UNCHANGED <<seats, todo>>
    BY DEF ConfirmStatus, At
  <1>2. PICK s \in Seat : s = job[h].seat
    BY <1>1, Intact, SeatKnown DEF SeatPc, ConfirmPc
  <1>3. PICK c \in BookingId : c = job[h].booking /\ ActiveOn(c, s)
    BY <1>1, <1>2, Intact DEF On, ConfirmPc
  <1>4. /\ \A b \in BookingId \ {c} : bookings'[b] = bookings[b]
        /\ bookings'[c].status = "CONFIRMED" /\ bookings'[c].seat = bookings[c].seat
    BY <1>1, <1>3, StatusWrite
  <1>5. \A b \in BookingId, r \in Seat :
           /\ ActiveOn(b, r)' => ActiveOn(b, r)
           /\ b # c => bookings'[b].status = bookings[b].status
    BY <1>3, <1>4 DEF ActiveOn, Active
  <1>6. /\ \A g \in Handler \ {h} : job'[g] = job[g]
        /\ job'[h].pc = "confirm_seat" /\ job'[h].seat = s
    BY <1>1, <1>2, Intact, GotoFacts
  <1>7. \A g \in Handler : ~ On(g, MarkPc, s)
    <2> SUFFICES ASSUME NEW g \in Handler, On(g, MarkPc, s) PROVE FALSE
      OBVIOUS
    <2>1. job[g].kind \in {"lock", "cancel", "cleanup"} /\ job[h].kind = "confirm" /\ g # h
      BY <1>1 DEF On, MarkPc, IInv, CoreInv, JobShape, Shape, LockPc, AssignPc, ConfirmPc
    <2>2. {job[g].kind, job[h].kind} \notin Exclusive
      BY <1>2, <2>1 DEF On, WorksOn, IInv, CoreInv, Separation
    <2> QED
      BY <2>1, <2>2 DEF StrictPremises, Premises, SeatKinds
  <1>8. \A g \in Handler, r \in Seat :
           /\ On(g, MarkPc, r)' => On(g, MarkPc, r) /\ r # s
           /\ On(g, {"confirm_seat"}, r) => On(g, {"confirm_seat"}, r)'
    BY <1>1, <1>6, <1>7 DEF On, MarkPc
  <1>9. On(h, {"confirm_seat"}, s)' /\ \A r \in Seat : ActiveOn(c, r) => r = s
    BY <1>3, <1>6 DEF On, ActiveOn
  <1>10. BookedSold'
    BY <1>1, <1>4, <1>5 DEF SInv, BookedSold
  <1>11. LockedHeld'
    BY <1>1, <1>5, <1>8, <1>9 DEF SInv, LockedHeld
  <1>12. MarkHeld'
    BY <1>5, <1>8, <1>9 DEF SInv, MarkHeld
  <1> QED
    BY <1>10, <1>11, <1>12 DEF SInv

(* The seat of a new hold is still on sale. *)
LEMMA CreateStatus ==
  ASSUME Premises, IInv, SInv, NEW h \in Handler, NEW s \in Seat, NEW b \in BookingId,
         On(h, CreatePc, s), InsertBooking(b, job[h].user, job[h].flight, s), UNCHANGED seats,
         \A g \in Handler \ {h} : job'[g] = job[g], job'[h].pc \in MarkPc, job'[h].seat = s
  PROVE  SInv'
  <1>1. Free(s)
    BY DEF IInv, CoreInv, CreateFree
  <1>2. seats[s] = "AVAILABLE"
    <2> SUFFICES ASSUME seats[s] # "AVAILABLE" PROVE FALSE
      OBVIOUS
    <2>1. PICK g \in Handler : On(g, {"cancel_seat", "clean_seat"}, s)
      BY <1>1, Intact
    <2>2. g # h /\ WorksOn(g, s) /\ WorksOn(h, s)
      BY <2>1 DEF On, CreatePc, WorksOn
    <2>3. CASE On(g, {"cancel_seat"}, s)
      <3>1. job[g].kind = "cancel"
        BY <2>3 DEF On, IInv, CoreInv, JobShape, Shape, CancelPc
      <3> QED
        BY <2>2, <3>1, Intact, CancelAlone
    <2>4. CASE On(g, {"clean_seat"}, s)
      BY <2>4 DEF IInv, CoreInv, CleanFree, On, TokenPc
    <2> QED
      BY <2>1, <2>3, <2>4 DEF On
  <1>3. /\ \A c \in BookingId \ {b} : bookings'[c] = bookings[c]
        /\ bookings'[b].status = "LOCKED" /\ bookings'[b].seat = s
    BY DEF InsertBooking, IInv, CoreInv, TypeOK, StoreType
  <1>4. \A c \in BookingId, r \in Seat :
           ActiveOn(c, r)' => \/ c = b /\ r = s
                              \/ c # b /\ ActiveOn(c, r) /\ bookings'[c].status = bookings[c].status
    BY <1>3 DEF ActiveOn, Active
  <1>5. \A g \in Handler, r \in Seat :
           /\ On(g, MarkPc, r)' => r = s \/ On(g, MarkPc, r)
           /\ On(g, {"confirm_seat"}, r) => On(g, {"confirm_seat"}, r)'
    BY DEF On, CreatePc
  <1>6. BookedSold'
    BY <1>2, <1>4 DEF SInv, BookedSold
  <1>7. LockedHeld'
    BY <1>2, <1>4, <1>5 DEF SInv, LockedHeld
  <1>8. MarkHeld'
    BY <1>1, <1>3, <1>4, <1>5 DEF SInv, MarkHeld, Free
  <1> QED
    BY <1>6, <1>7, <1>8 DEF SInv

-------------------------------------------------------------------------------
LEMMA RecordsRead ==
  ASSUME IInv, NEW h \in Handler, NEW p
  PROVE  /\ \A r : job' = [job EXCEPT ![h] = r] =>
                /\ job'[h] = r
                /\ \A g \in Handler \ {h} : job'[g] = job[g]
         /\ \A u : job' = [job EXCEPT ![h].pc = p, ![h].user = u] =>
                /\ job'[h].pc = p /\ job'[h].seat = job[h].seat
                /\ \A g \in Handler \ {h} : job'[g] = job[g]
         /\ \A u : job' = [job EXCEPT ![h].pc = p, ![h].entry = u] =>
                /\ job'[h].pc = p /\ job'[h].seat = job[h].seat
                /\ \A g \in Handler \ {h} : job'[g] = job[g]
         /\ \A u : job' = [job EXCEPT ![h].pc = p, ![h].booking = u] =>
                /\ job'[h].pc = p /\ job'[h].seat = job[h].seat
                /\ \A g \in Handler \ {h} : job'[g] = job[g]
  <1>1. job \in [Handler -> Job]
    BY Intact, JobFunction
  <1> QED
    BY <1>1 DEF Job

(* Requests that begin, and the cleanup's list. *)
LEMMA StartStatus ==
  ASSUME IInv, SInv, NEW h \in Handler, NEW r, job' = [job EXCEPT ![h] = r], r.pc \notin MarkPc,
         UNCHANGED <<bookings, seats>>, job[h].pc = "idle"
  PROVE  SInv'
  <1>1. job'[h] = r /\ \A g \in Handler \ {h} : job'[g] = job[g]
    BY RecordsRead
  <1> QED
    BY <1>1, SameActive, StatusKeptBy

LEMMA BeginStatus ==
  ASSUME IInv, SInv, NEW h \in Handler,
         BookingRequest(h) \/ WaitlistRequest(h) \/ CleanupFind(h)
  PROVE  SInv'
  <1>1. UNCHANGED <<bookings, seats>> /\ job[h].pc = "idle"
    BY DEF BookingRequest, LockCheck, ConfirmCheck, CancelCheck, AdminCancelCheck,
           WaitlistRequest, JoinCheck, LeaveCheck, CleanupFind, Starts, At, store
  <1>2. ASSUME NEW u \in User, NEW f \in Flight, NEW s \in Seat, LockCheck(h, u, f, s)
        PROVE  SInv'
    <2> DEFINE r == [NoJob EXCEPT !.pc = "lock_acquire", !.kind = "lock",
                                  !.user = u, !.flight = f, !.seat = s]
    <2>1. r.pc \notin MarkPc
      BY DEF NoJob, MarkPc
    <2>2. job' = [job EXCEPT ![h] = r]
      BY <1>2 DEF LockCheck
    <2> HIDE DEF r
    <2> QED
      BY <1>1, <2>1, <2>2, StartStatus
  <1>3. ASSUME NEW b \in BookingId, NEW k, NEW p \in {"confirm_lock", "cancel_status"},
               OnBooking(h, b, k, p)
        PROVE  SInv'
    <2> DEFINE r == [NoJob EXCEPT !.pc = p, !.kind = k, !.booking = b,
                                  !.flight = bookings[b].flight, !.seat = bookings[b].seat]
    <2>1. r.pc \notin MarkPc
      BY DEF NoJob, MarkPc
    <2>2. job' = [job EXCEPT ![h] = r]
      BY <1>3 DEF OnBooking
    <2> HIDE DEF r
    <2> QED
      BY <1>1, <2>1, <2>2, StartStatus
  <1>4. ASSUME NEW u \in User, NEW f \in Flight, JoinCheck(h, u, f)
        PROVE  SInv'
    <2> DEFINE r == [NoJob EXCEPT !.pc = "join_confirmed", !.kind = "join",
                                  !.user = u, !.flight = f]
    <2>1. r.pc \notin MarkPc
      BY DEF NoJob, MarkPc
    <2>2. job' = [job EXCEPT ![h] = r]
      BY <1>4 DEF JoinCheck
    <2> HIDE DEF r
    <2> QED
      BY <1>1, <2>1, <2>2, StartStatus
  <1>5. ASSUME NEW e \in EntryId, LeaveCheck(h, e)
        PROVE  SInv'
    <2> DEFINE r == [NoJob EXCEPT !.pc = "leave_row", !.kind = "leave",
                                  !.user = rows[e].user, !.flight = rows[e].flight, !.entry = e]
    <2>1. r.pc \notin MarkPc
      BY DEF NoJob, MarkPc
    <2>2. job' = [job EXCEPT ![h] = r]
      BY <1>5 DEF LeaveCheck
    <2> HIDE DEF r
    <2> QED
      BY <1>1, <2>1, <2>2, StartStatus
  <1>6. CASE CleanupFind(h)
    <2> DEFINE r == [NoJob EXCEPT !.pc = "clean_next", !.kind = "cleanup"]
    <2>1. r.pc \notin MarkPc
      BY DEF NoJob, MarkPc
    <2>2. job' = [job EXCEPT ![h] = r]
      BY <1>6 DEF CleanupFind
    <2> HIDE DEF r
    <2> QED
      BY <1>1, <2>1, <2>2, StartStatus
  <1>7. CASE BookingRequest(h)
    BY <1>2, <1>3, <1>7 DEF BookingRequest, ConfirmCheck, CancelCheck, AdminCancelCheck
  <1> QED
    BY <1>4, <1>5, <1>6, <1>7 DEF WaitlistRequest

LEMMA NewHoldStatus ==
  ASSUME Premises, IInv, SInv, NEW h \in Handler, LockCreate(h) \/ AssignCreate(h)
  PROVE  SInv'
  <1>1. job[h].pc \in CreatePc /\ UNCHANGED <<seats, todo>>
    BY DEF LockCreate, AssignCreate, At, CreatePc
  <1>2. PICK s \in Seat : s = job[h].seat
    BY <1>1, Intact, SeatKnown DEF SeatPc, LockPc, AssignPc, CreatePc
  <1>3. CASE UNCHANGED bookings /\ Finish(h)
    <2>1. job'[h].pc \in {"idle", "clean_next"} /\ \A g \in Handler \ {h} : job'[g] = job[g]
      BY <1>1, <1>3, Intact, FinishFacts DEF Others
    <2> QED
      BY <1>1, <1>3, <2>1, SameActive, StatusKeptBy DEF MarkPc, CreatePc
  <1>4. ASSUME NEW b \in BookingId, NEW p \in MarkPc,
               InsertBooking(b, job[h].user, job[h].flight, job[h].seat),
               job' = [job EXCEPT ![h].pc = p, ![h].booking = b]
        PROVE  SInv'
    <2>1. /\ job'[h].pc = p /\ job'[h].seat = job[h].seat
          /\ \A g \in Handler \ {h} : job'[g] = job[g]
      BY <1>4, RecordsRead
    <2> QED
      BY <1>1, <1>2, <1>4, <2>1, CreateStatus DEF On
  <1> QED
    BY <1>3, <1>4 DEF LockCreate, AssignCreate, MarkPc

LEMMA MarkedStatus ==
  ASSUME IInv, SInv, NEW h \in Handler, LockSeat(h) \/ AssignSeat(h)
  PROVE  SInv'
  <1>1. /\ job[h].pc \in MarkPc /\ UpdateSeat(job[h].seat, "LOCKED")
        /\ UNCHANGED <<bookings, todo>>
        /\ Finish(h) \/ Goto(h, "assign_row")
    BY DEF LockSeat, AssignSeat, At, MarkPc
  <1>2. PICK s \in Seat : s = job[h].seat
    BY <1>1, Intact, SeatKnown DEF SeatPc, LockPc, AssignPc, MarkPc
  <1>3. job'[h].pc \in {"idle", "clean_next", "assign_row"} /\ \A g \in Handler \ {h} : job'[g] = job[g]
    BY <1>1, Intact, FinishFacts, GotoFacts DEF Others
  <1> QED
    BY <1>1, <1>2, <1>3, MarkStatus DEF On, MarkPc

(* Every other statement of a handler. *)
LEMMA PlainStatus ==
  ASSUME IInv, SInv, NEW h \in Handler, UNCHANGED bookings,
         \A s \in Seat : seats'[s] \in {seats[s], "AVAILABLE"},
         job[h].pc # "confirm_seat",
         \/ Finish(h) /\ UNCHANGED todo
         \/ \E p \in Pc \ MarkPc : \/ Goto(h, p)
                                   \/ \E u : job' = [job EXCEPT ![h].pc = p, ![h].user = u]
                                   \/ \E e : job' = [job EXCEPT ![h].pc = p, ![h].entry = e]
  PROVE  SInv'
  <1>1. job'[h].pc \notin MarkPc /\ \A g \in Handler \ {h} : job'[g] = job[g]
    <2>1. CASE Finish(h) /\ UNCHANGED todo
      BY <2>1, Intact, FinishFacts DEF Others, MarkPc
    <2>2. ASSUME NEW p \in Pc \ MarkPc, Goto(h, p)
          PROVE  job'[h].pc \notin MarkPc /\ \A g \in Handler \ {h} : job'[g] = job[g]
      BY <2>2, Intact, GotoFacts
    <2>3. ASSUME NEW p \in Pc \ MarkPc, NEW u,
                 \/ job' = [job EXCEPT ![h].pc = p, ![h].user = u]
                 \/ job' = [job EXCEPT ![h].pc = p, ![h].entry = u]
          PROVE  job'[h].pc \notin MarkPc /\ \A g \in Handler \ {h} : job'[g] = job[g]
      BY <2>3, RecordsRead
    <2> QED
      BY <2>1, <2>2, <2>3
  <1> QED
    BY <1>1, SameActive, StatusKeptBy

LEMMA StepStatus ==
  ASSUME StrictPremises, IInv, SInv, IInv', NEW h \in Handler, Step(h)
  PROVE  SInv'
  <1>0. /\ Premises
        /\ seats \in [Seat -> SeatStatus]
        /\ {"lock_create", "confirm_status", "cancel_seat", "cancel_release", "assign_top",
            "assign_entry", "assign_confirmed", "assign_acquire", "assign_create", "assign_row",
            "assign_member", "join_create", "join_member", "leave_member"} \subseteq Pc \ MarkPc
    BY DEF StrictPremises, IInv, CoreInv, TypeOK, StoreType, Pc, LockPc, ConfirmPc, CancelPc, AssignPc,
           JoinPc, LeavePc, MarkPc
  <1>1. CASE LockCreate(h) \/ AssignCreate(h)
    BY <1>0, <1>1, NewHoldStatus
  <1>2. CASE LockSeat(h) \/ AssignSeat(h)
    BY <1>2, MarkedStatus
  <1>3. CASE ConfirmStatus(h)
    BY <1>3, ConfirmStatusStatus
  <1>4. CASE ConfirmSeat(h)
    BY <1>4, ConfirmSeatStatus
  <1>5. CASE LockAcquire(h) \/ ConfirmLock(h) \/ CancelRelease(h)
    BY <1>0, <1>5, PlainStatus DEF LockAcquire, ConfirmLock, CancelRelease, At, store
  <1>6. CASE CancelSeat(h) \/ CleanupSeat(h)
    <2>1. \A s \in Seat : seats'[s] \in {seats[s], "AVAILABLE"}
      BY <1>0, <1>6 DEF CancelSeat, CleanupSeat, UpdateSeat
    <2> QED
      BY <1>0, <1>6, <2>1, PlainStatus DEF CancelSeat, CleanupSeat, At
  <1>7. CASE AssignTop(h) \/ AssignEntry(h) \/ AssignConfirmed(h) \/ AssignAcquire(h)
    BY <1>0, <1>7, PlainStatus
    DEF AssignTop, AssignEntry, AssignConfirmed, AssignAcquire, At, store
  <1>8. CASE AssignRow(h) \/ AssignMember(h) \/ WaitlistStep(h)
    BY <1>0, <1>8, PlainStatus
    DEF AssignRow, AssignMember, WaitlistStep, JoinConfirmed, JoinCreate, JoinMember, LeaveRow,
        LeaveMember, At, store
  <1>9. CASE CancelStatus(h)
    <2>1. /\ UpdateStatus(job[h].booking, "CANCELLED") /\ Goto(h, "cancel_seat")
          /\ UNCHANGED seats /\ job[h].pc = "cancel_status"
      BY <1>9 DEF CancelStatus, At
    <2>2. job'[h].pc = "cancel_seat" /\ \A g \in Handler \ {h} : job'[g] = job[g]
      BY <2>1, Intact, GotoFacts
    <2> QED
      BY <2>1, <2>2, EndedActive, StatusKeptBy DEF MarkPc
  <1>10. CASE CleanupStatus(h)
    <2>1. PICK b \in todo[h] :
             /\ UpdateStatus(b, "EXPIRED")
             /\ job' = [job EXCEPT ![h].pc = "clean_seat", ![h].booking = b,
                                   ![h].flight = bookings[b].flight, ![h].seat = bookings[b].seat]
      BY <1>10 DEF CleanupStatus
    <2>2. UNCHANGED seats /\ job[h].pc = "clean_next"
      BY <1>10 DEF CleanupStatus, At
    <2>3. job'[h].pc = "clean_seat" /\ \A g \in Handler \ {h} : job'[g] = job[g]
      BY <2>1, Intact, JobFunction DEF Job
    <2> QED
      BY <2>1, <2>2, <2>3, EndedActive, StatusKeptBy DEF MarkPc
  <1> QED
    BY <1>1, <1>2, <1>3, <1>4, <1>5, <1>6, <1>7, <1>8, <1>9, <1>10
    DEF Step, BookingStep, CleanupStep, AssignStep

LEMMA TickStatus ==
  ASSUME IInv, SInv, Tick
  PROVE  SInv'
  <1>1. \A b \in BookingId : bookings[b] \in Booking
    BY DEF IInv, CoreInv, TypeOK, StoreType
  <1>2. \A b \in BookingId : /\ bookings'[b].status = bookings[b].status
                             /\ bookings'[b].seat = bookings[b].seat
    BY <1>1 DEF Tick, BookingsAge, Booking
  <1>3. UNCHANGED <<seats, job>>
    BY DEF Tick
  <1> QED
    BY <1>2, <1>3, StatusKept DEF ActiveOn, Active, On

LEMMA NextStatus ==
  ASSUME StrictPremises, IInv, SInv, IInv', [Next]_vars
  PROVE  SInv'
  <1>1. CASE UNCHANGED vars
    BY <1>1, StatusKept DEF vars, ActiveOn, Active, On
  <1>2. CASE \E s \in Seat, status \in SeatStatus : SetSeat(s, status)
    BY <1>2 DEF SetSeat, StrictPremises, Premises
  <1> QED
    BY <1>1, <1>2, TickStatus, BeginStatus, StepStatus DEF Next, Handler

(* Once nobody is working on a seat its status says exactly what its booking *)
(* is: LOCKED for a hold, BOOKED for a paid one.  The statements that write  *)
(* booking and seat apart never leave them apart.                            *)
THEOREM StatusExact ==
  ASSUME StrictPremises
  PROVE  Spec => []SeatStatusExact
  <1>1. Init => SInv
    BY DEF Init, StoreInit, NoBooking, SInv, BookedSold, LockedHeld, MarkHeld, ActiveOn, Active
  <1>2. IInv /\ IInv' /\ SInv /\ [Next]_vars => SInv'
    BY NextStatus
  <1>3. ASSUME IInv, SInv PROVE SeatStatusExact
    <2> SUFFICES ASSUME NEW s \in Seat, Quiet(s)
                 PROVE  /\ seats[s] = "LOCKED" <=>
                              \E b \in BookingId : bookings[b].seat = s /\ bookings[b].status = "LOCKED"
                        /\ seats[s] = "BOOKED" <=>
                              \E b \in BookingId : bookings[b].seat = s /\ bookings[b].status = "CONFIRMED"
      BY DEF SeatStatusExact
    <2>1. \A h \in Handler : job[h].seat # s
      BY DEF Quiet, Concerns, WorksOn
    <2>2. seats[s] = "AVAILABLE" => Free(s)
      BY <1>3, <2>1 DEF IInv, CoreInv, OpenTaken, On, Free
    <2>3. Free(s) => seats[s] = "AVAILABLE"
      BY <1>3, <2>1, Intact DEF On
    <2>4. seats[s] \in SeatStatus
      BY <1>3 DEF IInv, CoreInv, TypeOK, StoreType
    <2>5. \A b \in BookingId : ActiveOn(b, s) => /\ seats[s] = "BOOKED" => bookings[b].status = "CONFIRMED"
                                                 /\ seats[s] = "LOCKED" => bookings[b].status # "CONFIRMED"
      BY <1>3, <2>1 DEF SInv, BookedSold, LockedHeld, On
    <2> QED
      BY <2>2, <2>3, <2>4, <2>5 DEF SeatStatus, Free, ActiveOn, Active
  <1>4. Premises
    BY DEF StrictPremises
  <1>5. Spec => []IInv
    BY <1>4, InvariantHolds
  <1>6. IInv /\ SInv => SeatStatusExact
    BY <1>3
  <1> QED
    BY <1>1, <1>2, <1>5, <1>6, PTL DEF Spec
===============================================================================
