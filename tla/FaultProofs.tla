------------------------------ MODULE FaultProofs ------------------------------
(***************************************************************************)
(* The life of a booking, with and without faults, for every instance and   *)
(* every traffic: nothing is assumed of what overlaps.  Neither the locks   *)
(* nor the status of the seat play a part in it.  Handlers that have read a *)
(* booking before it moved on can still write over it, and no others get to *)
(* do so: an ended booking is let in by no check and found by no cleanup.   *)
(***************************************************************************)
EXTENDS ReservationFaults, ReservationTypes

(* Where a request still has the status of its booking to write. *)
WritePc == {"confirm_lock", "confirm_status", "cancel_status"}

(* The handler h has nothing more to write than before. *)
Lowers(h) ==
    /\ todo'[h] \subseteq todo[h]
    /\ job'[h].pc \in WritePc => job[h].pc \in WritePc /\ job'[h].booking = job[h].booking

(* What may become of a booking: it moves on by who still writes it alone, *)
(* and is expired only from a list it is on.                               *)
Moves(b) ==
    \/ bookings'[b].status = bookings[b].status
    \/ bookings[b].status = "NONE"
    \/ \E h \in Handler :
          /\ StillWrites(h, b)
          /\ bookings'[b].status \in {"CONFIRMED", "CANCELLED"} \/ b \in todo[h]

(* What StatusLifecycle says of one step. *)
Ages ==
    \A b \in BookingId :
        /\ Ended(b) => Ended(b)' /\ bookings'[b].status = bookings[b].status
        /\ Paid(b) => /\ bookings'[b].status \in {"CONFIRMED", "CANCELLED"}
                       /\ \A h \in Handler : b \notin todo'[h]

-------------------------------------------------------------------------------
LEMMA FTypes ==
  ASSUME TypeOK
  PROVE  /\ JobsType
         /\ job \in [Handler -> Job] /\ todo \in [Handler -> SUBSET BookingId]
         /\ bookings \in [BookingId -> Booking]
  BY DEF TypeOK, StoreType, HandlersType, JobsType

(* The heart of the proof: who had no status to write of a booking that has *)
(* ended gets none, so that nobody is left to move it.                      *)
LEMMA Lowered ==
  ASSUME \A b \in BookingId : Moves(b),
         \A g \in Handler, b \in BookingId :
            /\ StillWrites(g, b)' => StillWrites(g, b) \/ Active(b)
            /\ b \in todo'[g] => b \in todo[g] \/ bookings[b].status = "LOCKED"
  PROVE  Ages
  <1>1. ASSUME NEW b \in BookingId, Ended(b)
        PROVE  Ended(b)' /\ bookings'[b].status = bookings[b].status
    <2>1. bookings'[b].status = bookings[b].status
      BY <1>1 DEF Moves, Ended
    <2>2. \A g \in Handler : ~ StillWrites(g, b)'
      BY <1>1 DEF Ended, Active
    <2> QED
      BY <1>1, <2>1, <2>2 DEF Ended
  <1>2. ASSUME NEW b \in BookingId, Paid(b)
        PROVE  /\ bookings'[b].status \in {"CONFIRMED", "CANCELLED"}
               /\ \A h \in Handler : b \notin todo'[h]
    BY <1>2 DEF Moves, Paid
  <1> QED
    BY <1>1, <1>2 DEF Ages

LEMMA LowersLess ==
  ASSUME \A g \in Handler : Lowers(g), \A b \in BookingId : Moves(b)
  PROVE  Ages
  <1>1. \A g \in Handler, b \in BookingId :
            /\ StillWrites(g, b)' => StillWrites(g, b)
            /\ b \in todo'[g] => b \in todo[g]
    BY DEF Lowers, StillWrites, WritePc
  <1> QED
    BY <1>1, Lowered

LEMMA SameLowers ==
  ASSUME NEW g \in Handler, job'[g] = job[g], todo'[g] \subseteq todo[g]
  PROVE  Lowers(g)
  BY DEF Lowers

LEMMA KeptStay ==
  ASSUME UNCHANGED bookings
  PROVE  \A b \in BookingId : Moves(b)
  BY DEF Moves

(* A handler whose memory becomes r. *)
LEMMA BecomesLowers ==
  ASSUME TypeOK, NEW h \in Handler, UNCHANGED todo,
         NEW r, job' = [job EXCEPT ![h] = r], r.pc \notin WritePc
  PROVE  \A g \in Handler : Lowers(g)
  <1>1. job'[h] = r /\ \A g \in Handler \ {h} : job'[g] = job[g]
    BY FTypes
  <1> QED
    BY <1>1 DEF Lowers

LEMMA FinishLowers ==
  ASSUME TypeOK, NEW h \in Handler, Finish(h), UNCHANGED todo
  PROVE  \A g \in Handler : Lowers(g)
  <1> DEFINE r == IF todo[h] = {} THEN NoJob
                  ELSE [NoJob EXCEPT !.pc = "clean_next", !.kind = "cleanup"]
  <1>1. job' = [job EXCEPT ![h] = r]
    BY DEF Finish
  <1>2. r.pc \in {"idle", "clean_next"}
    BY DEF NoJob
  <1> HIDE DEF r
  <1> QED
    BY <1>1, <1>2, BecomesLowers DEF WritePc

LEMMA GotoLowers ==
  ASSUME TypeOK, NEW h \in Handler, NEW p, Goto(h, p), UNCHANGED todo,
         \/ p \notin WritePc
         \/ p = "confirm_status" /\ job[h].pc = "confirm_lock"
  PROVE  \A g \in Handler : Lowers(g)
  <1>1. /\ \A g \in Handler \ {h} : job'[g] = job[g]
        /\ job'[h].pc = p /\ job'[h].booking = job[h].booking
    BY FTypes DEF Goto, Job
  <1> QED
    BY <1>1 DEF Lowers, WritePc

(* A handler goes on with something read or inserted in its memory. *)
LEMMA RememberLowers ==
  ASSUME TypeOK, NEW h \in Handler, UNCHANGED todo,
         NEW p, p \notin WritePc, NEW v,
         \/ job' = [job EXCEPT ![h].pc = p, ![h].user = v]
         \/ job' = [job EXCEPT ![h].pc = p, ![h].entry = v]
         \/ job' = [job EXCEPT ![h].pc = p, ![h].booking = v]
  PROVE  \A g \in Handler : Lowers(g)
  <1>1. job'[h].pc = p /\ \A g \in Handler \ {h} : job'[g] = job[g]
    BY FTypes DEF Job
  <1> QED
    BY <1>1 DEF Lowers

-------------------------------------------------------------------------------
(* A confirmation or a cancellation is let in to a booking in force only. *)
LEMMA OnBookingLife ==
  ASSUME TypeOK, NEW h \in Handler, NEW b \in BookingId, NEW k, NEW p,
         OnBooking(h, b, k, p), Active(b), UNCHANGED <<bookings, todo>>
  PROVE  Ages
  <1> DEFINE r == [NoJob EXCEPT !.pc = p, !.kind = k, !.booking = b,
                                !.flight = bookings[b].flight, !.seat = bookings[b].seat]
  <1>1. r.booking = b
    BY DEF NoJob
  <1>2. job' = [job EXCEPT ![h] = r]
    BY DEF OnBooking
  <1> HIDE DEF r
  <1>3. job'[h] = r /\ \A g \in Handler \ {h} : job'[g] = job[g]
    BY <1>2, FTypes
  <1>4. \A g \in Handler, c \in BookingId : StillWrites(g, c)' => StillWrites(g, c) \/ c = b
    BY <1>1, <1>3 DEF StillWrites
  <1> QED
    BY <1>4, KeptStay, Lowered

(* A run of the cleanup lists holds only. *)
LEMMA FindLife ==
  ASSUME TypeOK, NEW h \in Handler, CleanupFind(h)
  PROVE  Ages
  <1> DEFINE r == [NoJob EXCEPT !.pc = "clean_next", !.kind = "cleanup"]
  <1>1. r.pc = "clean_next"
    BY DEF NoJob
  <1>2. /\ job' = [job EXCEPT ![h] = r] /\ todo' = [todo EXCEPT ![h] = ExpiredLocked]
        /\ UNCHANGED bookings
    BY DEF CleanupFind, store
  <1> HIDE DEF r
  <1>3. /\ job'[h] = r /\ todo'[h] = ExpiredLocked
        /\ \A g \in Handler \ {h} : job'[g] = job[g] /\ todo'[g] = todo[g]
    BY <1>2, FTypes
  <1>4. \A g \in Handler, b \in BookingId :
            /\ StillWrites(g, b)' => StillWrites(g, b) \/ b \in ExpiredLocked
            /\ b \in todo'[g] => b \in todo[g] \/ b \in ExpiredLocked
    BY <1>1, <1>3 DEF StillWrites
  <1> QED
    BY <1>2, <1>4, KeptStay, Lowered DEF ExpiredLocked, Active

-------------------------------------------------------------------------------
LEMMA InsertLife ==
  ASSUME TypeOK, \A g \in Handler : Lowers(g),
         NEW b \in BookingId, NextBookingId(b), NEW u, NEW f, NEW s, InsertBooking(b, u, f, s)
  PROVE  Ages
  <1>1. \A c \in BookingId \ {b} : bookings'[c] = bookings[c]
    BY FTypes DEF InsertBooking
  <1>2. bookings[b].status = "NONE"
    BY DEF NextBookingId, NoBooking
  <1> QED
    BY <1>1, <1>2, LowersLess DEF Moves

(* A status is written by who still had it to write. *)
LEMMA WriteLife ==
  ASSUME TypeOK, \A g \in Handler : Lowers(g), NEW h \in Handler, NEW b, NEW v,
         UpdateStatus(b, v), b \in BookingId => StillWrites(h, b),
         v \in {"CONFIRMED", "CANCELLED"} \/ b \in todo[h]
  PROVE  Ages
  <1>1. \A c \in BookingId : c # b => bookings'[c] = bookings[c]
    BY FTypes DEF UpdateStatus
  <1>2. b \in BookingId => bookings'[b].status = v
    BY FTypes DEF UpdateStatus, Booking
  <1> QED
    BY <1>1, <1>2, LowersLess DEF Moves

LEMMA BookingStepLife ==
  ASSUME TypeOK, NEW h \in Handler, BookingStep(h)
  PROVE  Ages
  <1>1. CASE LockAcquire(h) \/ LockSeat(h) \/ ConfirmLock(h) \/ ConfirmSeat(h)
               \/ CancelSeat(h) \/ CancelRelease(h)
    <2>1. UNCHANGED <<bookings, todo>>
      BY <1>1 DEF LockAcquire, LockSeat, ConfirmLock, ConfirmSeat, CancelSeat, CancelRelease, store
    <2>2. \/ Finish(h)
          \/ Goto(h, "lock_create") \/ Goto(h, "cancel_release") \/ Goto(h, "assign_top")
          \/ Goto(h, "confirm_status") /\ job[h].pc = "confirm_lock"
      BY <1>1 DEF LockAcquire, LockSeat, ConfirmLock, ConfirmSeat, CancelSeat, CancelRelease, At
    <2>3. \A g \in Handler : Lowers(g)
      BY <2>1, <2>2, FinishLowers, GotoLowers DEF WritePc
    <2> QED
      BY <2>1, <2>3, KeptStay, LowersLess
  <1>2. CASE LockCreate(h)
    <2>1. CASE BookingsFull /\ Finish(h) /\ UNCHANGED bookings
      BY <1>2, <2>1, FinishLowers, KeptStay, LowersLess DEF LockCreate
    <2>2. ASSUME NEW b \in BookingId, NextBookingId(b),
                 InsertBooking(b, job[h].user, job[h].flight, job[h].seat),
                 job' = [job EXCEPT ![h].pc = "lock_seat", ![h].booking = b]
          PROVE  Ages
      <3>1. "lock_seat" \notin WritePc /\ UNCHANGED todo
        BY <1>2 DEF LockCreate, WritePc
      <3>2. \A g \in Handler : Lowers(g)
        BY <2>2, <3>1, RememberLowers
      <3> QED
        BY <2>2, <3>2, InsertLife
    <2> QED
      BY <1>2, <2>1, <2>2 DEF LockCreate
  <1>3. CASE ConfirmStatus(h) \/ CancelStatus(h)
    <2>1. /\ \E v \in {"CONFIRMED", "CANCELLED"} : UpdateStatus(job[h].booking, v)
          /\ \E p \in {"confirm_seat", "cancel_seat"} : Goto(h, p)
          /\ UNCHANGED todo
      BY <1>3 DEF ConfirmStatus, CancelStatus
    <2>2. StillWrites(h, job[h].booking)
      BY <1>3 DEF ConfirmStatus, CancelStatus, At, StillWrites
    <2>3. \A g \in Handler : Lowers(g)
      BY <2>1, GotoLowers DEF WritePc
    <2> QED
      BY <2>1, <2>2, <2>3, WriteLife
  <1> QED
    BY <1>1, <1>2, <1>3 DEF BookingStep

LEMMA CleanupStepLife ==
  ASSUME TypeOK, NEW h \in Handler, CleanupStep(h)
  PROVE  Ages
  <1>1. CASE CleanupSeat(h)
    <2>1. Goto(h, "assign_top") /\ UNCHANGED <<bookings, todo>>
      BY <1>1 DEF CleanupSeat
    <2>2. \A g \in Handler : Lowers(g)
      BY <2>1, GotoLowers DEF WritePc
    <2> QED
      BY <2>1, <2>2, KeptStay, LowersLess
  <1>2. CASE CleanupStatus(h)
    <2>1. PICK b \in todo[h] :
             /\ UpdateStatus(b, "EXPIRED")
             /\ todo' = [todo EXCEPT ![h] = @ \ {b}]
             /\ job' = [job EXCEPT ![h].pc = "clean_seat", ![h].booking = b,
                                   ![h].flight = bookings[b].flight, ![h].seat = bookings[b].seat]
      BY <1>2 DEF CleanupStatus
    <2>2. /\ todo'[h] = todo[h] \ {b} /\ job'[h].pc = "clean_seat"
          /\ \A g \in Handler \ {h} : job'[g] = job[g] /\ todo'[g] = todo[g]
      BY <2>1, FTypes DEF Job
    <2>3. \A g \in Handler : Lowers(g)
      BY <2>2 DEF Lowers, WritePc
    <2>4. StillWrites(h, b)
      BY DEF StillWrites
    <2> QED
      BY <2>1, <2>3, <2>4, WriteLife
  <1> QED
    BY <1>1, <1>2 DEF CleanupStep

LEMMA AssignStepLife ==
  ASSUME TypeOK, NEW h \in Handler, AssignStep(h)
  PROVE  Ages
  <1>1. CASE ~ AssignCreate(h)
    <2>1. UNCHANGED <<bookings, todo>>
      BY <1>1 DEF AssignStep, AssignTop, AssignEntry, AssignConfirmed, AssignAcquire, AssignSeat,
          AssignRow, AssignMember, store
    <2>2. \/ Finish(h)
          \/ \E p \in {"assign_acquire", "assign_create", "assign_row", "assign_member"} : Goto(h, p)
          \/ \E u : job' = [job EXCEPT ![h].pc = "assign_entry", ![h].user = u]
          \/ \E e : job' = [job EXCEPT ![h].pc = "assign_confirmed", ![h].entry = e]
      BY <1>1 DEF AssignStep, AssignTop, AssignEntry, AssignConfirmed, AssignAcquire, AssignSeat,
          AssignRow, AssignMember
    <2>3. \A g \in Handler : Lowers(g)
      <3>1. {"assign_entry", "assign_confirmed"} \cap WritePc = {}
        BY DEF WritePc
      <3>2. ASSUME NEW u, job' = [job EXCEPT ![h].pc = "assign_entry", ![h].user = u]
            PROVE  \A g \in Handler : Lowers(g)
        BY <2>1, <3>1, <3>2, RememberLowers
      <3>3. ASSUME NEW e, job' = [job EXCEPT ![h].pc = "assign_confirmed", ![h].entry = e]
            PROVE  \A g \in Handler : Lowers(g)
        BY <2>1, <3>1, <3>3, RememberLowers
      <3>4. ASSUME NEW p \in {"assign_acquire", "assign_create", "assign_row", "assign_member"},
                   Goto(h, p)
            PROVE  \A g \in Handler : Lowers(g)
        BY <2>1, <3>4, GotoLowers DEF WritePc
      <3> QED
        BY <2>1, <2>2, <3>2, <3>3, <3>4, FinishLowers
    <2> QED
      BY <2>1, <2>3, KeptStay, LowersLess
  <1>2. CASE AssignCreate(h)
    <2>1. CASE BookingsFull /\ Finish(h) /\ UNCHANGED bookings
      BY <1>2, <2>1, FinishLowers, KeptStay, LowersLess DEF AssignCreate
    <2>2. ASSUME NEW b \in BookingId, NextBookingId(b),
                 InsertBooking(b, job[h].user, job[h].flight, job[h].seat),
                 job' = [job EXCEPT ![h].pc = "assign_seat", ![h].booking = b]
          PROVE  Ages
      <3>1. "assign_seat" \notin WritePc /\ UNCHANGED todo
        BY <1>2 DEF AssignCreate, WritePc
      <3>2. \A g \in Handler : Lowers(g)
        BY <2>2, <3>1, RememberLowers
      <3> QED
        BY <2>2, <3>2, InsertLife
    <2> QED
      BY <1>2, <2>1, <2>2 DEF AssignCreate
  <1> QED
    BY <1>1, <1>2

LEMMA WaitlistStepLife ==
  ASSUME TypeOK, NEW h \in Handler, WaitlistStep(h)
  PROVE  Ages
  <1>1. /\ UNCHANGED <<bookings, todo>>
        /\ \/ Finish(h)
           \/ \E p \in {"join_create", "join_member", "leave_member"} : Goto(h, p)
    BY DEF WaitlistStep, JoinConfirmed, JoinCreate, JoinMember, LeaveRow, LeaveMember, store
  <1>2. \A g \in Handler : Lowers(g)
    BY <1>1, FinishLowers, GotoLowers DEF WritePc
  <1> QED
    BY <1>1, <1>2, KeptStay, LowersLess

LEMMA RequestLife ==
  ASSUME TypeOK, NEW h \in Handler, BookingRequest(h) \/ WaitlistRequest(h)
  PROVE  Ages
  <1>1. UNCHANGED <<bookings, todo>>
    BY DEF BookingRequest, WaitlistRequest, LockCheck, ConfirmCheck, CancelCheck,
        AdminCancelCheck, JoinCheck, LeaveCheck, store
  <1>2. ASSUME NEW r, job' = [job EXCEPT ![h] = r], r.pc \notin WritePc
        PROVE  Ages
    BY <1>1, <1>2, BecomesLowers, KeptStay, LowersLess
  <1>3. ASSUME NEW u, NEW f, NEW s, LockCheck(h, u, f, s)
        PROVE  Ages
    <2> DEFINE r == [NoJob EXCEPT !.pc = "lock_acquire", !.kind = "lock",
                                  !.user = u, !.flight = f, !.seat = s]
    <2>1. r.pc = "lock_acquire"
      BY DEF NoJob
    <2>2. job' = [job EXCEPT ![h] = r]
      BY <1>3 DEF LockCheck
    <2> HIDE DEF r
    <2> QED
      BY <1>2, <2>1, <2>2 DEF WritePc
  <1>4. ASSUME NEW u, NEW f, JoinCheck(h, u, f)
        PROVE  Ages
    <2> DEFINE r == [NoJob EXCEPT !.pc = "join_confirmed", !.kind = "join",
                                  !.user = u, !.flight = f]
    <2>1. r.pc = "join_confirmed"
      BY DEF NoJob
    <2>2. job' = [job EXCEPT ![h] = r]
      BY <1>4 DEF JoinCheck
    <2> HIDE DEF r
    <2> QED
      BY <1>2, <2>1, <2>2 DEF WritePc
  <1>5. ASSUME NEW e, LeaveCheck(h, e)
        PROVE  Ages
    <2> DEFINE r == [NoJob EXCEPT !.pc = "leave_row", !.kind = "leave", !.user = rows[e].user,
                                  !.flight = rows[e].flight, !.entry = e]
    <2>1. r.pc = "leave_row"
      BY DEF NoJob
    <2>2. job' = [job EXCEPT ![h] = r]
      BY <1>5 DEF LeaveCheck
    <2> HIDE DEF r
    <2> QED
      BY <1>2, <2>1, <2>2 DEF WritePc
  <1>6. ASSUME NEW u, NEW b \in BookingId, ConfirmCheck(h, u, b)
        PROVE  Ages
    BY <1>1, <1>6, OnBookingLife DEF ConfirmCheck, Confirmable, Active
  <1>7. ASSUME NEW u, NEW b \in BookingId, CancelCheck(h, u, b) \/ AdminCancelCheck(h, b)
        PROVE  Ages
    <2>1. Active(b)
      BY <1>7, FTypes
      DEF CancelCheck, AdminCancelCheck, Cancellable, Active, Booking, BookingStatus
    <2> QED
      BY <1>1, <1>7, <2>1, OnBookingLife DEF CancelCheck, AdminCancelCheck
  <1> QED
    BY <1>1, <1>3, <1>4, <1>5, <1>6, <1>7, KeptStay DEF BookingRequest, WaitlistRequest

LEMMA NextLife ==
  ASSUME TypeOK, [Next]_vars
  PROVE  Ages
  <1>1. ASSUME UNCHANGED <<job, todo>>, \A b \in BookingId : Moves(b)
        PROVE  Ages
    BY <1>1, SameLowers, LowersLess
  <1>2. CASE Tick
    <2>1. ASSUME NEW b \in BookingId
          PROVE  bookings'[b].status = bookings[b].status
      <3>1. bookings'[b] = bookings[b] \/ bookings'[b] = [bookings[b] EXCEPT !.age = @ + 1]
        BY <1>2 DEF Tick, BookingsAge
      <3> QED
        BY <3>1, FTypes DEF Booking
    <2> QED
      BY <1>1, <1>2, <2>1 DEF Tick, Moves
  <1>3. CASE \E h \in Proc : BookingRequest(h) \/ WaitlistRequest(h)
    BY <1>3, RequestLife DEF Handler
  <1>4. CASE \E h \in Cron : CleanupFind(h)
    BY <1>4, FindLife DEF Handler
  <1>5. CASE \E h \in Handler : Step(h)
    BY <1>5, BookingStepLife, CleanupStepLife, AssignStepLife, WaitlistStepLife DEF Step
  <1>6. CASE \E s \in Seat, status \in SeatStatus : SetSeat(s, status)
    BY <1>1, <1>6, KeptStay DEF SetSeat
  <1>7. CASE UNCHANGED vars
    BY <1>1, <1>7, KeptStay DEF vars
  <1> QED
    BY <1>2, <1>3, <1>4, <1>5, <1>6, <1>7 DEF Next

(* An ended booking whose readers are through stays as it ended, and a paid  *)
(* one that no cleanup has listed is never expired, in every traffic: the    *)
(* status checks and the query of the cleanup let in no new writer, however  *)
(* requests, cleanups and lapsing keys overlap.                              *)
THEOREM LifecycleKept == Spec => StatusLifecycle
  <1>1. TypeOK /\ [Next]_vars => [Ages]_vars
    BY NextLife
  <1> QED
    BY <1>1, TypeCorrect, PTL DEF Spec, StatusLifecycle, Ages

-------------------------------------------------------------------------------
LEMMA ThrowLife ==
  ASSUME TypeOK, NEW h \in Handler, Throw(h)
  PROVE  TypeOK' /\ Ages
  <1>1. CASE Rejected(h)
    <2>1. TypeOK'
      BY <1>1, FTypes, FinishType, Unwritten, TypeParts DEF Rejected
    <2>2. Finish(h) /\ UNCHANGED <<bookings, todo>>
      BY <1>1 DEF Rejected, store
    <2> QED
      BY <2>1, <2>2, FinishLowers, KeptStay, LowersLess
  <1>2. ASSUME NEW b \in todo[h], CleanupSkip(h, b)
        PROVE  TypeOK' /\ Ages
    <2>1. /\ todo'[h] = todo[h] \ {b} /\ UNCHANGED bookings
          /\ job'[h] = IF todo[h] = {b} THEN NoJob ELSE job[h]
          /\ \A g \in Handler \ {h} : job'[g] = job[g] /\ todo'[g] = todo[g]
      BY <1>2, FTypes DEF CleanupSkip, store
    <2>2. \A g \in Handler : Lowers(g)
      BY <2>1 DEF Lowers, NoJob, WritePc
    <2>3. JobsType'
      <3>1. job' = [job EXCEPT ![h] = NoJob] \/ job' = job
        BY <1>2, FTypes DEF CleanupSkip
      <3>2. NoJob.pc \notin JoinPc
        BY DEF NoJob, JoinPc
      <3> QED
        BY <3>1, <3>2, FTypes, NoJobType, StartType DEF JobsType
    <2>4. todo' \in [Handler -> SUBSET BookingId]
      BY <1>2, FTypes DEF CleanupSkip
    <2>5. TypeOK'
      BY <1>2, <2>3, <2>4, FTypes, Unwritten, TypeParts DEF CleanupSkip
    <2> QED
      BY <2>1, <2>2, <2>5, KeptStay, LowersLess
  <1> QED
    BY <1>1, <1>2 DEF Throw

(* Redis alone is written to by a command sent twice, or lost as a whole. *)
LEMMA RedisLife ==
  ASSUME TypeOK, RedisLost \/ \E h \in Handler : Resent(h)
  PROVE  TypeOK' /\ Ages
  <1>1. UNCHANGED <<store, rows, issued, job, todo>>
    BY DEF RedisLost, Resent
  <1>2. LocksType' /\ zset' \in [Flight -> SUBSET User]
    <2>1. CASE RedisLost
      <3>1. NoLock \in Lock
        BY DomainAssumption DEF NoLock, Lock
      <3> QED
        BY <2>1, <3>1 DEF RedisLost, LocksType
    <2>2. ASSUME NEW h \in Handler, Resent(h)
          PROVE  LocksType' /\ zset' \in [Flight -> SUBSET User]
      <3>1. LocksType'
        <4>1. \/ SetLock(job[h].flight, job[h].seat, job[h].user)
              \/ ReleaseLock(job[h].flight, job[h].seat)
              \/ UNCHANGED lock
          BY <2>2 DEF Resent
        <4> QED
          BY <4>1, FTypes, JobFacts, LockWriteType DEF LocksType
      <3>2. zset' \in [Flight -> SUBSET User]
        <4>1. \/ /\ job[h].pc = "join_member"
                 /\ zset' = [zset EXCEPT ![job[h].flight] = @ \cup {job[h].user}]
              \/ zset' = [zset EXCEPT ![job[h].flight] = @ \ {job[h].user}]
              \/ UNCHANGED zset
          BY <2>2 DEF Resent, AddMember, RemoveMember, At
        <4>2. job[h].pc = "join_member" => job[h].user \in User
          BY FTypes DEF JobsType, JoinPc
        <4> QED
          BY <4>1, <4>2, FTypes DEF TypeOK, WaitlistType
      <3> QED
        BY <3>1, <3>2
    <2> QED
      BY <2>1, <2>2
  <1>3. TypeOK'
    BY <1>1, <1>2, FTypes
    DEF TypeOK, StoreType, WaitlistType, HandlersType, JobsType, store
  <1> QED
    BY <1>1, <1>3, SameLowers, KeptStay, LowersLess DEF store

LEMMA RestartLife ==
  ASSUME TypeOK, Restart
  PROVE  TypeOK' /\ Ages
  <1>1. /\ job' = [h \in Handler |-> NoJob] /\ todo' = [h \in Handler |-> {}]
        /\ UNCHANGED <<locks, store, waitlist>>
    BY DEF Restart
  <1>2. TypeOK'
    <2>1. JobsType' /\ todo' \in [Handler -> SUBSET BookingId]
      BY <1>1, NoJobType DEF JobsType, NoJob, JoinPc
    <2> QED
      BY <1>1, <2>1, FTypes, Unwritten, TypeParts
  <1>3. \A g \in Handler : Lowers(g)
    BY <1>1 DEF Lowers, NoJob, WritePc
  <1> QED
    BY <1>1, <1>2, <1>3, KeptStay, LowersLess DEF store

LEMMA FaultLife ==
  ASSUME TypeOK, [FaultNext]_faultVars
  PROVE  TypeOK' /\ Ages
  <1>1. CASE [Next]_vars
    BY <1>1, NextLife, NextTypeOK
  <1>2. CASE Fault
    BY <1>2, ThrowLife, RedisLife, RestartLife DEF Fault
  <1> QED
    BY <1>1, <1>2 DEF FaultNext, faultVars

(* The same when statements fail or take effect twice, the server restarts *)
(* and Redis is lost, at any point and however often: no fault brings back *)
(* a writer of a booking that has ended.                                   *)
THEOREM LifecycleThroughFaults == FaultSpec => StatusLifecycle
  <1>1. FaultInit => TypeOK
    BY InitTypeOK DEF FaultInit
  <1>2. TypeOK /\ [FaultNext]_faultVars => TypeOK'
    BY FaultLife
  <1>3. TypeOK /\ [FaultNext]_faultVars => [Ages]_vars
    BY FaultLife
  <1> QED
    BY <1>1, <1>2, <1>3, PTL DEF FaultSpec, StatusLifecycle, Ages
===============================================================================
