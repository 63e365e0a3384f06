--------------------------- MODULE WaitlistSyncProofs ---------------------------
(***************************************************************************)
(* The two copies of a waitlist, and the promotions decided on one of them, *)
(* when joins of a flight overlap neither leaves nor promotions on it.      *)
(* Every flight has a seat: FlightsService creates the two together.        *)
(***************************************************************************)
EXTENDS WaitlistInvariant, ReservationProofs, WaitlistProofs

(* Bookings are never taken back, and keep whose and of what they are. *)
BookingsKept ==
    \A b \in BookingId : bookings[b].status # "NONE" =>
        /\ bookings'[b].status # "NONE" /\ bookings'[b].seat = bookings[b].seat
        /\ bookings'[b].user = bookings[b].user /\ bookings'[b].flight = bookings[b].flight

LEMMA KeptAlways ==
  ASSUME IInv, [Next]_vars
  PROVE  BookingsKept
  <1>1. bookings \in [BookingId -> Booking]
    BY DEF IInv, CoreInv, TypeOK, StoreType
  <1>2. CASE UNCHANGED bookings
    BY <1>2 DEF BookingsKept
  <1>3. ASSUME NEW b, NEW v \in {"CONFIRMED", "CANCELLED", "EXPIRED"}, UpdateStatus(b, v)
        PROVE  BookingsKept
    BY <1>1, <1>3 DEF UpdateStatus, BookingsKept, Booking
  <1>4. ASSUME NEW b \in BookingId, NEW u, NEW f, NEW s, NextBookingId(b), InsertBooking(b, u, f, s)
        PROVE  BookingsKept
    <2>1. bookings[b].status = "NONE"
      BY <1>4 DEF NextBookingId, NoBooking
    <2> QED
      BY <1>1, <1>4, <2>1 DEF InsertBooking, BookingsKept
  <1>5. CASE Tick
    <2>1. \A b \in BookingId : bookings[b] \in Booking
      BY <1>1
    <2> QED
      BY <1>5, <2>1 DEF Tick, BookingsAge, BookingsKept, Booking
  <1>6. ASSUME NEW h \in Handler, Step(h), ~ UNCHANGED bookings
        PROVE  BookingsKept
    <2>1. CASE BookingStep(h)
      BY <1>3, <1>4, <1>6, <2>1
      DEF BookingStep, LockAcquire, LockCreate, LockSeat, ConfirmLock, ConfirmStatus, ConfirmSeat,
          CancelStatus, CancelSeat, CancelRelease, store
    <2>2. CASE CleanupStep(h)
      BY <1>3, <1>6, <2>2 DEF CleanupStep, CleanupStatus, CleanupSeat
    <2>3. CASE AssignStep(h)
      BY <1>4, <1>6, <2>3
      DEF AssignStep, AssignTop, AssignEntry, AssignConfirmed, AssignAcquire, AssignCreate,
          AssignSeat, AssignRow, AssignMember, store
    <2>4. CASE WaitlistStep(h)
      BY <1>6, <2>4
      DEF WaitlistStep, JoinConfirmed, JoinCreate, JoinMember, LeaveRow, LeaveMember, store
    <2> QED
      BY <1>6, <2>1, <2>2, <2>3, <2>4 DEF Step
  <1>7. ASSUME NEW h \in Handler, BookingRequest(h) \/ WaitlistRequest(h) \/ CleanupFind(h)
        PROVE  UNCHANGED bookings
    BY <1>7
    DEF BookingRequest, LockCheck, ConfirmCheck, CancelCheck, AdminCancelCheck, WaitlistRequest,
        JoinCheck, LeaveCheck, CleanupFind, store
  <1>8. ASSUME NEW s, NEW v, SetSeat(s, v) PROVE UNCHANGED bookings
    BY <1>8 DEF SetSeat
  <1> QED
    BY <1>2, <1>5, <1>6, <1>7, <1>8 DEF Next, Handler, vars

(* What a handler worked on, it still works on, or has done with. *)
Stays(h) ==
    /\ job'[h].kind \in {job[h].kind, Nil}
    /\ job'[h].kind \in {"join", "leave"} => job'[h].flight = job[h].flight
    /\ \A s \in Seat : WorksOn(h, s)' => WorksOn(h, s)

(* So are the seats of the bookings on the cleanup's list. *)
ListsKept == \A g \in Handler : \A b \in todo[g] : bookings'[b].seat = bookings[b].seat

LEMMA ListKept ==
  ASSUME IInv, BookingsKept
  PROVE  CoreInv /\ ListsKept
  BY Intact DEF BookingsKept, ExpiredLocked, ListsKept

LEMMA ApartKept ==
  ASSUME JoinApart, ListsKept, NEW h \in Handler, Others(h), Stays(h)
  PROVE  JoinApart'
  <1>1. \A g \in Handler \ {h}, s \in Seat :
           /\ job'[g].kind = job[g].kind /\ job'[g].flight = job[g].flight
           /\ Concerns(g, s)' => Concerns(g, s)
    BY DEF Others, Concerns, WorksOn, ListsKept
  <1>2. \A g \in Handler, s \in Seat :
           /\ job'[g].kind = "join" => job[g].kind = "join" /\ job'[g].flight = job[g].flight
           /\ job'[g].kind \in WaitKinds /\ Concerns(g, s)' =>
                  job[g].kind = job'[g].kind /\ Concerns(g, s)
    BY <1>1, HandlersAssumption DEF Stays, Kind, WaitKinds, Concerns
  <1> QED
    BY <1>2 DEF JoinApart

LEMMA ApartStart ==
  ASSUME WaitlistPremises, JoinApart, NEW h \in Handler, NEW k \in Kind, NEW S,
         Starts(h, k, S), Others(h), UNCHANGED bookings, job'[h].kind = k,
         \A s \in Seat : Concerns(h, s)' => s \in S
  PROVE  JoinApart'
  <1>1. \A g \in Handler \ {h}, s \in Seat :
           /\ job'[g].kind = job[g].kind /\ job'[g].flight = job[g].flight
           /\ Concerns(g, s)' <=> Concerns(g, s)
    BY DEF Others, Concerns, WorksOn
  <1> SUFFICES ASSUME NEW g \in Handler, NEW j \in Handler, NEW s \in Seat,
                      job'[j].kind = "join", job'[j].flight = FlightOf[s], Concerns(g, s)',
                      job'[g].kind \in WaitKinds
               PROVE  FALSE
    BY DEF JoinApart
  <1>2. g # j
    BY DEF WaitKinds
  <1>3. Concerns(j, s)'
    BY DEF Concerns
  <1>4. CASE j = h
    <2>1. s \in S /\ Concerns(g, s) /\ k = "join" /\ job[g].kind \in WaitKinds
      BY <1>1, <1>2, <1>3, <1>4
    <2>2. {"join", job[g].kind} \notin Exclusive
      BY <2>1 DEF Starts, Admits
    <2> QED
      BY <2>1, <2>2 DEF WaitlistPremises
  <1>5. CASE g = h
    <2>1. s \in S /\ Concerns(j, s) /\ k \in WaitKinds /\ job[j].kind = "join"
      BY <1>1, <1>2, <1>3, <1>5
    <2>2. {k, "join"} \notin Exclusive
      BY <2>1 DEF Starts, Admits
    <2>3. {k, "join"} = {"join", k}
      OBVIOUS
    <2> QED
      BY <2>1, <2>2, <2>3 DEF WaitlistPremises
  <1>6. CASE j # h /\ g # h
    BY <1>1, <1>6 DEF JoinApart
  <1> QED
    BY <1>4, <1>5, <1>6

(* While somebody joins nobody leaves or is promoted. *)
LEMMA Apart ==
  ASSUME WaitlistPremises, IInv, QInv, NEW h \in Handler, NEW g \in Handler,
         job[h].pc \in JoinPc, job[g].pc \in LeavePc \cup AssignPc, job[g].flight = job[h].flight
  PROVE  FALSE
  <1>1. job[h].kind = "join" /\ job[h].flight \in Flight
    BY DEF QInv, Memories, Memory
  <1>2. CASE job[g].pc \in LeavePc
    <2>1. job[g].kind = "leave"
      BY <1>2 DEF QInv, Memories, Memory
    <2>2. PICK s \in SeatsOf(job[h].flight) : TRUE
      BY <1>1 DEF WaitlistPremises
    <2>3. s \in Seat /\ FlightOf[s] = job[h].flight
      BY <2>2 DEF SeatsOf
    <2> QED
      BY <1>1, <2>1, <2>3 DEF QInv, JoinApart, Concerns, WaitKinds
  <1>3. CASE job[g].pc \in AssignPc
    <2>1. /\ job[g].kind \in {"cancel", "cleanup"}
          /\ job[g].seat \in Seat /\ job[g].flight = FlightOf[job[g].seat]
      BY <1>3 DEF IInv, CoreInv, JobShape, Shape, SeatPc
    <2> QED
      BY <1>1, <2>1 DEF QInv, JoinApart, Concerns, WorksOn, WaitKinds
  <1> QED
    BY <1>2, <1>3

-------------------------------------------------------------------------------
(* Steps that leave the waitlist alone. *)
LEMMA MemoryOfOthers ==
  ASSUME QInv, BookingsKept, UNCHANGED <<rows, issued>>, NEW g \in Handler, job'[g] = job[g]
  PROVE  Memory(g)'
  <1>1. Memory(g)
    BY DEF QInv, Memories
  <1> QED
    BY <1>1 DEF Memory, Listed, IsRowOf, BookingsKept

LEMMA PlacesKept ==
  ASSUME QInv, UNCHANGED waitlist, NEW h \in Handler, \A g \in Handler \ {h} : job'[g] = job[g],
         job[h].pc \notin MemberPc \cup {"join_member"}
  PROVE  RowsIssued' /\ OneRowEach' /\ MemberMissing' /\ MemberLeft'
  <1>1. UNCHANGED <<rows, issued, zset>>
    BY DEF waitlist
  <1>2. RowsIssued' /\ OneRowEach'
    BY <1>1 DEF QInv, RowsIssued, OneRowEach
  <1>3. MemberMissing'
    BY <1>1 DEF QInv, MemberMissing, Listed, IsRowOf, Place
  <1>4. MemberLeft'
    BY <1>1 DEF QInv, MemberLeft, Listed, IsRowOf, Place
  <1> QED
    BY <1>2, <1>3, <1>4

LEMMA Move ==
  ASSUME IInv, QInv, BookingsKept, UNCHANGED waitlist, NEW h \in Handler, Others(h),
         job[h].pc \notin MemberPc \cup {"join_member"}, Memory(h)', Stays(h)
  PROVE  QInv'
  <1>1. \A g \in Handler \ {h} : job'[g] = job[g]
    BY DEF Others
  <1>2. Memories'
    BY <1>1, MemoryOfOthers DEF Memories, waitlist
  <1>3. JoinApart'
    BY ListKept, ApartKept DEF QInv
  <1> QED
    BY <1>1, <1>2, <1>3, PlacesKept DEF QInv

(* Where a handler has nothing of the waitlist to remember. *)
MindPc == JoinPc \cup LeavePc \cup (AssignPc \ {"assign_top"})

LEMMA Mindless ==
  ASSUME NEW h, job'[h].pc \notin MindPc
  PROVE  Memory(h)'
  BY DEF Memory, MindPc, JoinPc, LeavePc, AssignPc, RowPc, ChosenPc, MemberPc

LEMMA FinishStays ==
  ASSUME CoreInv, ListsKept, NEW h \in Handler, Finish(h), UNCHANGED todo
  PROVE  Others(h) /\ Stays(h) /\ Memory(h)'
  <1>1. /\ Others(h) /\ job'[h].pc \in {"idle", "clean_next"} /\ job'[h].seat = Nil
        /\ todo[h] # {} => job'[h].kind = job[h].kind
    BY FinishFacts
  <1>2. Memory(h)'
    BY <1>1, Mindless DEF MindPc, JoinPc, LeavePc, AssignPc
  <1>3. todo[h] = {} => job'[h].kind = Nil
    BY JobFunction DEF Finish, NoJob
  <1>4. todo[h] # {} => job[h].kind = "cleanup"
    BY DEF CoreInv, JobShape, Shape
  <1>5. \A s \in Seat : WorksOn(h, s)' => WorksOn(h, s)
    BY <1>1, DomainAssumption DEF WorksOn, ListsKept
  <1>6. job'[h].kind \in {"join", "leave"} => job'[h].flight = job[h].flight
    BY <1>1, <1>3, <1>4, HandlersAssumption DEF Kind
  <1> QED
    BY <1>1, <1>2, <1>3, <1>5, <1>6 DEF Stays

LEMMA GotoStays ==
  ASSUME CoreInv, ListsKept, NEW h \in Handler, NEW p, Goto(h, p), UNCHANGED todo
  PROVE  Others(h) /\ Stays(h)
  <1>1. \A s \in Seat : WorksOn(h, s)' => WorksOn(h, s)
    BY GotoFacts DEF WorksOn, ListsKept
  <1> QED
    BY <1>1, GotoFacts DEF Stays

LEMMA MoveOn ==
  ASSUME IInv, QInv, BookingsKept, UNCHANGED <<waitlist, todo>>, NEW h \in Handler, NEW p,
         Goto(h, p), job[h].pc \notin MemberPc \cup {"join_member"}, Memory(h)'
  PROVE  QInv'
  BY ListKept, GotoStays, Move

LEMMA MoveOut ==
  ASSUME IInv, QInv, BookingsKept, UNCHANGED <<waitlist, todo>>, NEW h \in Handler, Finish(h),
         job[h].pc \notin MemberPc \cup {"join_member"}
  PROVE  QInv'
  BY ListKept, FinishStays, Move

(* Bookings and the cleanup come to the waitlist only at assign_top. *)
LEMMA BookingStepQ ==
  ASSUME IInv, QInv, BookingsKept, NEW h \in Handler, BookingStep(h)
  PROVE  QInv'
  <1>1. /\ job[h].pc \in LockPc \cup ConfirmPc \cup CancelPc
        /\ UNCHANGED <<waitlist, todo>>
        /\ \/ Finish(h)
           \/ \E p \in LockPc \cup ConfirmPc \cup CancelPc \cup {"assign_top"} : Goto(h, p)
           \/ \E b \in BookingId : job' = [job EXCEPT ![h].pc = "lock_seat", ![h].booking = b]
    BY DEF BookingStep, LockAcquire, LockCreate, LockSeat, ConfirmLock, ConfirmStatus, ConfirmSeat,
        CancelStatus, CancelSeat, CancelRelease, At, LockPc, ConfirmPc, CancelPc
  <1>2. job[h].pc \notin MemberPc \cup {"join_member"}
    BY <1>1 DEF LockPc, ConfirmPc, CancelPc, MemberPc
  <1>3. CASE Finish(h)
    BY <1>1, <1>2, <1>3, MoveOut
  <1>4. ASSUME NEW p \in LockPc \cup ConfirmPc \cup CancelPc \cup {"assign_top"}, Goto(h, p)
        PROVE  QInv'
    <2>1. p \notin MindPc
      BY DEF MindPc, JoinPc, LeavePc, AssignPc, LockPc, ConfirmPc, CancelPc
    <2> QED
      BY <1>1, <1>2, <1>4, <2>1, Intact, GotoFacts, Mindless, MoveOn
  <1>5. ASSUME NEW b \in BookingId, job' = [job EXCEPT ![h].pc = "lock_seat", ![h].booking = b]
        PROVE  QInv'
    <2>1. /\ Others(h) /\ job'[h].pc = "lock_seat" /\ job'[h].seat = job[h].seat
          /\ job'[h].kind = job[h].kind /\ job'[h].flight = job[h].flight
      <3>1. UNCHANGED todo
        BY <1>1
      <3> QED
        BY <1>5, <3>1, Intact, JobFunction DEF Job, Others
    <2>2. \A s \in Seat : WorksOn(h, s)' => WorksOn(h, s)
      BY <1>1, <2>1, ListKept DEF WorksOn, ListsKept
    <2>3. Memory(h)'
      BY <2>1, Mindless DEF MindPc, JoinPc, LeavePc, AssignPc
    <2> QED
      BY <1>1, <1>2, <2>1, <2>2, <2>3, Move DEF Stays
  <1> QED
    BY <1>1, <1>3, <1>4, <1>5

LEMMA CleanupStepQ ==
  ASSUME IInv, QInv, BookingsKept, NEW h \in Handler, CleanupStep(h)
  PROVE  QInv'
  <1>1. CASE CleanupSeat(h)
    <2>1. /\ job[h].pc = "clean_seat" /\ Goto(h, "assign_top") /\ UNCHANGED <<waitlist, todo>>
      BY <1>1 DEF CleanupSeat, At
    <2>2. Memory(h)'
      BY <2>1, Intact, GotoFacts, Mindless DEF MindPc, JoinPc, LeavePc, AssignPc
    <2> QED
      BY <2>1, <2>2, MoveOn DEF MemberPc
  <1>2. CASE CleanupStatus(h)
    <2>1. PICK c \in todo[h] :
             /\ todo' = [todo EXCEPT ![h] = @ \ {c}]
             /\ job' = [job EXCEPT ![h].pc = "clean_seat", ![h].booking = c,
                                   ![h].flight = bookings[c].flight, ![h].seat = bookings[c].seat]
      BY <1>2 DEF CleanupStatus
    <2>2. job[h].pc = "clean_next" /\ UNCHANGED waitlist
      BY <1>2 DEF CleanupStatus, At
    <2>3. /\ Others(h) /\ job'[h].pc = "clean_seat" /\ job'[h].seat = bookings[c].seat
          /\ job'[h].kind = job[h].kind /\ todo'[h] = todo[h] \ {c}
      BY <2>1, Intact, JobFunction DEF Job, Others, IInv, CoreInv, TypeOK, HandlersType
    <2>4. job[h].kind = "cleanup"
      BY <2>2 DEF IInv, CoreInv, JobShape, Shape, CleanPc
    <2>5. \A s \in Seat : WorksOn(h, s)' => WorksOn(h, s)
      BY <2>1, <2>3, ListKept DEF WorksOn, ListsKept
    <2>6. Memory(h)'
      BY <2>3, Mindless DEF MindPc, JoinPc, LeavePc, AssignPc
    <2> QED
      BY <2>2, <2>3, <2>4, <2>5, <2>6, Move DEF Stays, MemberPc
  <1> QED
    BY <1>1, <1>2 DEF CleanupStep

-------------------------------------------------------------------------------
(* Requests start where admission lets them. *)
LEMMA BookingRequestApart ==
  ASSUME WaitlistPremises, CoreInv, JoinApart, NEW h \in Handler, BookingRequest(h)
  PROVE  Others(h) /\ job[h].pc = "idle" /\ job'[h].pc \notin MindPc /\ JoinApart'
  <1>1. UNCHANGED <<bookings, todo>> /\ job[h].pc = "idle"
    BY DEF BookingRequest, LockCheck, ConfirmCheck, CancelCheck, AdminCancelCheck, store, Starts, At
  <1>2. todo[h] = {}
    BY <1>1 DEF CoreInv, JobShape, Shape
  <1>3. ASSUME NEW k \in {"lock", "confirm", "cancel"}, NEW t, Starts(h, k, {t}), NEW r,
               job' = [job EXCEPT ![h] = r], r.kind = k, r.seat = t, r.pc \notin MindPc
        PROVE  Others(h) /\ job'[h].pc \notin MindPc /\ JoinApart'
    <2>1. Others(h) /\ job'[h] = r
      BY <1>1, <1>3, JobFunction DEF Others
    <2>2. \A s \in Seat : Concerns(h, s)' => s \in {t}
      BY <1>1, <1>2, <1>3, <2>1 DEF Concerns, WorksOn
    <2> QED
      BY <1>1, <1>3, <2>1, <2>2, ApartStart DEF Kind
  <1>4. {"lock_acquire", "confirm_lock", "cancel_status"} \cap MindPc = {}
    BY DEF MindPc, JoinPc, LeavePc, AssignPc
  <1>5. ASSUME NEW u \in User, NEW f \in Flight, NEW s \in Seat, LockCheck(h, u, f, s)
        PROVE  Others(h) /\ job'[h].pc \notin MindPc /\ JoinApart'
    <2> DEFINE r == [NoJob EXCEPT !.pc = "lock_acquire", !.kind = "lock",
                                  !.user = u, !.flight = f, !.seat = s]
    <2>1. r.pc = "lock_acquire" /\ r.kind = "lock" /\ r.seat = s
      BY DEF NoJob
    <2>2. job' = [job EXCEPT ![h] = r] /\ Starts(h, "lock", {s})
      BY <1>5 DEF LockCheck
    <2> HIDE DEF r
    <2> QED
      BY <1>3, <1>4, <2>1, <2>2
  <1>6. ASSUME NEW b \in BookingId, NEW k \in {"confirm", "cancel"},
               NEW p \in {"confirm_lock", "cancel_status"},
               OnBooking(h, b, k, p), Starts(h, k, {bookings[b].seat})
        PROVE  Others(h) /\ job'[h].pc \notin MindPc /\ JoinApart'
    <2> DEFINE r == [NoJob EXCEPT !.pc = p, !.kind = k, !.booking = b,
                                  !.flight = bookings[b].flight, !.seat = bookings[b].seat]
    <2>1. r.pc = p /\ r.kind = k /\ r.seat = bookings[b].seat
      BY DEF NoJob
    <2>2. job' = [job EXCEPT ![h] = r]
      BY <1>6 DEF OnBooking
    <2> HIDE DEF r
    <2> QED
      BY <1>3, <1>4, <1>6, <2>1, <2>2
  <1> QED
    BY <1>1, <1>5, <1>6 DEF BookingRequest, ConfirmCheck, CancelCheck, AdminCancelCheck

LEMMA CleanupFindApart ==
  ASSUME WaitlistPremises, CoreInv, JoinApart, NEW h \in Handler, CleanupFind(h)
  PROVE  Others(h) /\ job[h].pc = "idle" /\ job'[h].pc \notin MindPc /\ JoinApart'
  <1> DEFINE r == [NoJob EXCEPT !.pc = "clean_next", !.kind = "cleanup"]
  <1>1. /\ job' = [job EXCEPT ![h] = r] /\ UNCHANGED bookings
        /\ todo' = [todo EXCEPT ![h] = ExpiredLocked]
        /\ Starts(h, "cleanup", {bookings[b].seat : b \in ExpiredLocked})
    BY DEF CleanupFind, store
  <1>2. r.pc = "clean_next" /\ r.kind = "cleanup" /\ r.seat = Nil
    BY DEF NoJob
  <1> HIDE DEF r
  <1>3. Others(h) /\ job'[h] = r /\ todo'[h] = ExpiredLocked
    BY <1>1, JobFunction DEF Others, CoreInv, TypeOK, HandlersType
  <1>4. \A s \in Seat : Concerns(h, s)' => s \in {bookings[b].seat : b \in ExpiredLocked}
    BY <1>1, <1>2, <1>3, DomainAssumption DEF Concerns, WorksOn
  <1>5. JoinApart'
    BY <1>1, <1>2, <1>3, <1>4, ApartStart DEF Kind
  <1> QED
    BY <1>1, <1>2, <1>3, <1>5 DEF Starts, At, MindPc, JoinPc, LeavePc, AssignPc

LEMMA WaitlistRequestApart ==
  ASSUME WaitlistPremises, CoreInv, JoinApart, NEW h \in Proc, WaitlistRequest(h)
  PROVE  /\ Others(h) /\ job[h].pc = "idle" /\ JoinApart'
         /\ \/ /\ job'[h].pc = "join_confirmed" /\ job'[h].kind = "join"
               /\ job'[h].user \in User /\ job'[h].flight \in Flight
            \/ /\ job'[h].pc = "leave_row" /\ job'[h].kind = "leave"
               /\ job'[h].entry \in EntryId /\ rows[job'[h].entry] # NoRow
               /\ IsRowOf(job'[h].entry, job'[h].user, job'[h].flight)
  <1>1. UNCHANGED <<bookings, todo>> /\ job[h].pc = "idle" /\ h \in Handler
    BY DEF WaitlistRequest, JoinCheck, LeaveCheck, store, Starts, At, Handler
  <1>2. todo[h] = {}
    BY <1>1 DEF CoreInv, JobShape, Shape
  <1>3. ASSUME NEW k \in {"join", "leave"}, NEW f, Starts(h, k, SeatsOf(f)), NEW r,
               job' = [job EXCEPT ![h] = r], r.kind = k, r.seat = Nil, r.flight = f
        PROVE  Others(h) /\ job'[h] = r /\ JoinApart'
    <2>1. Others(h) /\ job'[h] = r
      BY <1>1, <1>3, JobFunction DEF Others
    <2>2. \A s \in Seat : Concerns(h, s)' => s \in SeatsOf(f)
      BY <1>1, <1>2, <1>3, <2>1, DomainAssumption DEF Concerns, WorksOn, SeatsOf
    <2> QED
      BY <1>1, <1>3, <2>1, <2>2, ApartStart DEF Kind
  <1>4. ASSUME NEW u \in User, NEW f \in Flight, JoinCheck(h, u, f)
        PROVE  /\ Others(h) /\ JoinApart'
               /\ job'[h].pc = "join_confirmed" /\ job'[h].kind = "join"
               /\ job'[h].user \in User /\ job'[h].flight \in Flight
    <2> DEFINE r == [NoJob EXCEPT !.pc = "join_confirmed", !.kind = "join",
                                  !.user = u, !.flight = f]
    <2>1. /\ r.pc = "join_confirmed" /\ r.kind = "join" /\ r.user = u /\ r.flight = f
          /\ r.seat = Nil
      BY DEF NoJob
    <2>2. job' = [job EXCEPT ![h] = r] /\ Starts(h, "join", SeatsOf(f))
      BY <1>4 DEF JoinCheck
    <2> HIDE DEF r
    <2> QED
      BY <1>3, <2>1, <2>2
  <1>5. ASSUME NEW e \in EntryId, LeaveCheck(h, e)
        PROVE  /\ Others(h) /\ JoinApart'
               /\ job'[h].pc = "leave_row" /\ job'[h].kind = "leave"
               /\ job'[h].entry = e /\ rows[e] # NoRow
               /\ IsRowOf(e, job'[h].user, job'[h].flight)
    <2> DEFINE r == [NoJob EXCEPT !.pc = "leave_row", !.kind = "leave", !.user = rows[e].user,
                                  !.flight = rows[e].flight, !.entry = e]
    <2>1. /\ r.pc = "leave_row" /\ r.kind = "leave" /\ r.user = rows[e].user
          /\ r.flight = rows[e].flight /\ r.entry = e /\ r.seat = Nil
      BY DEF NoJob
    <2>2. /\ job' = [job EXCEPT ![h] = r] /\ Starts(h, "leave", SeatsOf(rows[e].flight))
          /\ rows[e] # NoRow
      BY <1>5 DEF LeaveCheck
    <2> HIDE DEF r
    <2>3. IsRowOf(e, rows[e].user, rows[e].flight)
      BY DEF IsRowOf, Row, CoreInv, TypeOK, WaitlistType
    <2> QED
      BY <1>3, <2>1, <2>2, <2>3
  <1> QED
    BY <1>1, <1>4, <1>5 DEF WaitlistRequest

LEMMA Begin ==
  ASSUME QInv, BookingsKept, UNCHANGED waitlist, NEW h \in Handler, Others(h),
         job[h].pc = "idle", JoinApart', Memory(h)'
  PROVE  QInv'
  <1>1. \A g \in Handler \ {h} : job'[g] = job[g]
    BY DEF Others
  <1>2. Memories'
    BY <1>1, MemoryOfOthers DEF Memories, waitlist
  <1> QED
    BY <1>1, <1>2, PlacesKept DEF QInv, MemberPc

LEMMA BeginQ ==
  ASSUME WaitlistPremises, IInv, QInv, BookingsKept, NEW h \in Handler,
         BookingRequest(h) \/ CleanupFind(h)
  PROVE  QInv'
  <1>1. UNCHANGED waitlist
    BY DEF BookingRequest, LockCheck, ConfirmCheck, CancelCheck, AdminCancelCheck, CleanupFind
  <1>2. Others(h) /\ job[h].pc = "idle" /\ job'[h].pc \notin MindPc /\ JoinApart'
    BY Intact, BookingRequestApart, CleanupFindApart DEF QInv
  <1> QED
    BY <1>1, <1>2, Mindless, Begin

LEMMA WaitlistRequestQ ==
  ASSUME WaitlistPremises, IInv, QInv, BookingsKept, NEW h \in Proc, WaitlistRequest(h)
  PROVE  QInv'
  <1>1. UNCHANGED waitlist /\ h \in Handler
    BY DEF WaitlistRequest, JoinCheck, LeaveCheck, Handler
  <1>2. /\ Others(h) /\ job[h].pc = "idle" /\ JoinApart'
        /\ \/ /\ job'[h].pc = "join_confirmed" /\ job'[h].kind = "join"
              /\ job'[h].user \in User /\ job'[h].flight \in Flight
           \/ /\ job'[h].pc = "leave_row" /\ job'[h].kind = "leave"
              /\ job'[h].entry \in EntryId /\ rows[job'[h].entry] # NoRow
              /\ IsRowOf(job'[h].entry, job'[h].user, job'[h].flight)
    BY Intact, WaitlistRequestApart DEF QInv
  <1>3. CASE job'[h].pc = "join_confirmed"
    <2>1. Memory(h)'
      BY <1>2, <1>3 DEF Memory, LeavePc, AssignPc, RowPc, ChosenPc, MemberPc
    <2> QED
      BY <1>1, <1>2, <2>1, Begin
  <1>4. CASE job'[h].pc = "leave_row"
    <2>1. PICK e \in EntryId : e = job'[h].entry /\ rows[e] # NoRow
                               /\ rows[e] = [user |-> job'[h].user, flight |-> job'[h].flight]
      BY <1>2, <1>4 DEF IsRowOf
    <2>2. e <= issued /\ job'[h].user \in User /\ job'[h].flight \in Flight
      BY <2>1 DEF QInv, RowsIssued
    <2>3. UNCHANGED <<rows, issued>>
      BY <1>1 DEF waitlist
    <2>4. Memory(h)'
      BY <1>2, <1>4, <2>1, <2>2, <2>3
      DEF Memory, IsRowOf, JoinPc, AssignPc, ChosenPc, MemberPc
    <2> QED
      BY <1>1, <1>2, <2>4, Begin
  <1> QED
    BY <1>2, <1>3, <1>4

-------------------------------------------------------------------------------
(* The steps of the waitlist's own handlers and of a reassignment that only *)
(* look: what they remember of it is true when they read it.                *)
LEMMA JoinConfirmedQ ==
  ASSUME IInv, QInv, BookingsKept, NEW h \in Handler, JoinConfirmed(h)
  PROVE  QInv'
  <1>1. job[h].pc = "join_confirmed" /\ UNCHANGED <<waitlist, todo>>
    BY DEF JoinConfirmed, At
  <1>2. CASE Finish(h)
    BY <1>1, <1>2, MoveOut DEF MemberPc
  <1>3. CASE Goto(h, "join_create")
    <2>1. job[h].kind = "join" /\ job[h].user \in User /\ job[h].flight \in Flight
      BY <1>1 DEF QInv, Memories, Memory, JoinPc
    <2>2. Memory(h)'
      BY <1>3, <2>1, Intact, GotoFacts DEF Memory, LeavePc, AssignPc, RowPc, ChosenPc, MemberPc
    <2> QED
      BY <1>1, <1>3, <2>2, MoveOn DEF MemberPc
  <1> QED
    BY <1>2, <1>3 DEF JoinConfirmed

(* The top of the sorted set outranks everybody who has a row. *)
LEMMA TopOutranks ==
  ASSUME WaitlistPremises, IInv, QInv, NEW h \in Handler, At(h, "assign_top"),
         NEW u \in User, Top(job[h].flight, u), NEW v \in User, Listed(v, job[h].flight)
  PROVE  Clv[u] >= Clv[v]
  <1>1. job[h].flight \in Flight /\ job[h].pc \in AssignPc
    BY Intact, SeatKnown, DomainAssumption DEF At, SeatPc, AssignPc
  <1>2. v \in zset[job[h].flight]
    <2> SUFFICES ASSUME v \notin zset[job[h].flight] PROVE FALSE
      OBVIOUS
    <2>1. PICK g \in Handler : job[g].pc = "join_member" /\ Place(g, v, job[h].flight)
      BY <1>1 DEF QInv, MemberMissing
    <2> QED
      BY <1>1, <2>1, Apart DEF Place, JoinPc
  <1>3. Clv[u] \in Nat /\ Clv[v] \in Nat
    BY WaitlistAssumption
  <1>4. v # u => Clv[u] > Clv[v] \/ Clv[u] = Clv[v]
    BY <1>2 DEF Top, Ahead
  <1> QED
    BY <1>3, <1>4

LEMMA AssignTopQ ==
  ASSUME WaitlistPremises, IInv, QInv, BookingsKept, NEW h \in Handler, AssignTop(h)
  PROVE  QInv'
  <1>1. job[h].pc = "assign_top" /\ UNCHANGED <<waitlist, todo>>
    BY DEF AssignTop, At
  <1>2. CASE Finish(h)
    BY <1>1, <1>2, MoveOut DEF MemberPc
  <1>3. ASSUME NEW u \in User, Top(job[h].flight, u),
               job' = [job EXCEPT ![h].pc = "assign_entry", ![h].user = u]
        PROVE  QInv'
    <2>1. /\ Others(h) /\ job'[h].pc = "assign_entry" /\ job'[h].seat = job[h].seat
          /\ job'[h].kind = job[h].kind /\ job'[h].flight = job[h].flight /\ job'[h].user = u
      BY <1>1, <1>3, Intact, JobFunction DEF Job, Others
    <2>2. \A s \in Seat : WorksOn(h, s)' => WorksOn(h, s)
      BY <1>1, <2>1, ListKept DEF WorksOn, ListsKept
    <2>3. \A v \in User : Listed(v, job[h].flight) => Clv[u] >= Clv[v]
      BY <1>1, <1>3, TopOutranks DEF At
    <2>4. UNCHANGED rows
      BY <1>1 DEF waitlist
    <2>5. \A v \in User : Listed(v, job[h].flight)' => Listed(v, job[h].flight)
      BY <2>1, <2>4 DEF Listed, IsRowOf
    <2>6. (\A v \in User : Listed(v, job[h].flight) => Clv[job[h].user] >= Clv[v])'
      BY <2>1, <2>3, <2>5
    <2>7. Memory(h)'
      BY <2>1, <2>6 DEF Memory, JoinPc, LeavePc, RowPc, MemberPc
    <2> QED
      BY <1>1, <2>1, <2>2, <2>7, Move DEF Stays, MemberPc
  <1> QED
    BY <1>2, <1>3 DEF AssignTop

LEMMA AssignEntryQ ==
  ASSUME IInv, QInv, BookingsKept, NEW h \in Handler, AssignEntry(h)
  PROVE  QInv'
  <1>1. job[h].pc = "assign_entry" /\ UNCHANGED <<waitlist, todo>>
    BY DEF AssignEntry, At
  <1>2. /\ job[h].user \in User
        /\ \A v \in User : Listed(v, job[h].flight) => Clv[job[h].user] >= Clv[v]
    BY <1>1 DEF QInv, Memories, Memory, AssignPc, ChosenPc
  <1>3. UNCHANGED <<rows, issued>>
    BY <1>1 DEF waitlist
  <1>4. ASSUME NEW e \in EntryId, IsRowOf(e, job[h].user, job[h].flight),
               job' = [job EXCEPT ![h].pc = "assign_confirmed", ![h].entry = e]
        PROVE  QInv'
    <2>1. /\ Others(h) /\ job'[h].pc = "assign_confirmed" /\ job'[h].seat = job[h].seat
          /\ job'[h].kind = job[h].kind /\ job'[h].flight = job[h].flight
          /\ job'[h].user = job[h].user /\ job'[h].entry = e
      BY <1>1, <1>4, Intact, JobFunction DEF Job, Others
    <2>2. \A s \in Seat : WorksOn(h, s)' => WorksOn(h, s)
      BY <1>1, <2>1, ListKept DEF WorksOn, ListsKept
    <2>3. rows[e] # NoRow
      BY <1>2, <1>4, DomainAssumption DEF IsRowOf, NoRow
    <2>4. e <= issued
      BY <2>3 DEF QInv, RowsIssued
    <2>5. Memory(h)'
      BY <1>2, <1>3, <1>4, <2>1, <2>4
      DEF Memory, JoinPc, LeavePc, MemberPc, Listed, IsRowOf
    <2> QED
      BY <1>1, <2>1, <2>2, <2>5, Move DEF Stays, MemberPc
  <1>5. CASE ~ Listed(job[h].user, job[h].flight) /\ Goto(h, "assign_member")
    <2>1. Memory(h)'
      BY <1>2, <1>3, <1>5, Intact, GotoFacts
      DEF Memory, JoinPc, LeavePc, RowPc, ChosenPc, Listed, IsRowOf
    <2> QED
      BY <1>1, <1>5, <2>1, MoveOn DEF MemberPc
  <1> QED
    BY <1>4, <1>5 DEF AssignEntry

(* From the lookup of the row to its removal what is remembered stays true. *)
LEMMA GoWithRow ==
  ASSUME IInv, QInv, BookingsKept, UNCHANGED <<waitlist, todo>>, NEW h \in Handler, NEW p,
         Goto(h, p),
         \/ job[h].pc = "assign_confirmed" /\ p = "assign_acquire"
         \/ job[h].pc = "assign_acquire" /\ p = "assign_create"
         \/ job[h].pc = "assign_seat" /\ p = "assign_row"
         \/ job[h].pc = "assign_confirmed" /\ p = "assign_row"
  PROVE  QInv'
  <1>1. UNCHANGED <<rows, issued>>
    BY DEF waitlist
  <1>2. /\ job[h].user \in User
        /\ job[h].entry \in EntryId /\ job[h].entry <= issued
        /\ rows[job[h].entry] = NoRow \/ IsRowOf(job[h].entry, job[h].user, job[h].flight)
    BY DEF QInv, Memories, Memory, AssignPc, RowPc
  <1>3. job[h].pc # "assign_seat" =>
            \A v \in User : Listed(v, job[h].flight) => Clv[job[h].user] >= Clv[v]
    BY DEF QInv, Memories, Memory, ChosenPc
  <1>4. /\ job'[h].pc = p /\ job'[h].user = job[h].user /\ job'[h].flight = job[h].flight
        /\ job'[h].entry = job[h].entry
    BY Intact, JobFunction DEF Goto, Job
  <1>5. Memory(h)'
    BY <1>1, <1>2, <1>3, <1>4
    DEF Memory, JoinPc, LeavePc, AssignPc, RowPc, ChosenPc, MemberPc, Listed, IsRowOf
  <1> QED
    BY <1>5, MoveOn DEF MemberPc

LEMMA AssignCreateQ ==
  ASSUME IInv, QInv, BookingsKept, NEW h \in Handler, AssignCreate(h)
  PROVE  QInv'
  <1>1. job[h].pc = "assign_create" /\ UNCHANGED <<waitlist, todo>>
    BY DEF AssignCreate, At
  <1>2. CASE Finish(h)
    BY <1>1, <1>2, MoveOut DEF MemberPc
  <1>3. ASSUME NEW b \in BookingId, NextBookingId(b),
               InsertBooking(b, job[h].user, job[h].flight, job[h].seat),
               job' = [job EXCEPT ![h].pc = "assign_seat", ![h].booking = b]
        PROVE  QInv'
    <2>1. /\ Others(h) /\ job'[h].pc = "assign_seat" /\ job'[h].booking = b
          /\ job'[h].seat = job[h].seat
          /\ job'[h].kind = job[h].kind /\ job'[h].flight = job[h].flight
          /\ job'[h].user = job[h].user /\ job'[h].entry = job[h].entry
      BY <1>1, <1>3, Intact, JobFunction DEF Job, Others
    <2>2. \A s \in Seat : WorksOn(h, s)' => WorksOn(h, s)
      BY <1>1, <2>1, ListKept DEF WorksOn, ListsKept
    <2>3. bookings'[b].status # "NONE" /\ bookings'[b].user = job[h].user
      BY <1>3 DEF InsertBooking, IInv, CoreInv, TypeOK, StoreType
    <2>4. /\ job[h].user \in User
          /\ job[h].entry \in EntryId /\ job[h].entry <= issued
          /\ rows[job[h].entry] = NoRow \/ IsRowOf(job[h].entry, job[h].user, job[h].flight)
      BY <1>1 DEF QInv, Memories, Memory, AssignPc, RowPc
    <2>5. UNCHANGED <<rows, issued>>
      BY <1>1 DEF waitlist
    <2>6. Memory(h)'
      BY <2>1, <2>3, <2>4, <2>5
      DEF Memory, JoinPc, LeavePc, ChosenPc, MemberPc, IsRowOf
    <2> QED
      BY <1>1, <2>1, <2>2, <2>6, Move DEF Stays, MemberPc
  <1> QED
    BY <1>2, <1>3 DEF AssignCreate

LEMMA AssignLooks ==
  ASSUME IInv, QInv, BookingsKept, NEW h \in Handler,
         AssignConfirmed(h) \/ AssignAcquire(h) \/ AssignSeat(h)
  PROVE  QInv'
  <1>1. UNCHANGED <<waitlist, todo>>
    BY DEF AssignConfirmed, AssignAcquire, AssignSeat
  <1>2. CASE AssignConfirmed(h)
    BY <1>1, <1>2, GoWithRow DEF AssignConfirmed, At
  <1>3. CASE AssignAcquire(h)
    <2>1. job[h].pc = "assign_acquire"
      BY <1>3 DEF AssignAcquire, At
    <2>2. CASE Finish(h)
      BY <1>1, <2>1, <2>2, MoveOut DEF MemberPc
    <2>3. CASE Goto(h, "assign_create")
      BY <1>1, <2>1, <2>3, GoWithRow
    <2> QED
      BY <1>3, <2>2, <2>3 DEF AssignAcquire
  <1>4. CASE AssignSeat(h)
    BY <1>1, <1>4, GoWithRow DEF AssignSeat, At
  <1> QED
    BY <1>2, <1>3, <1>4

-------------------------------------------------------------------------------
(* A place is taken off the table by the handler that will take it off the *)
(* sorted set: whoever else had read the row finds it gone.                *)
LEMMA RowGone ==
  ASSUME WaitlistPremises, IInv, QInv, BookingsKept, UNCHANGED <<issued, zset, todo>>,
         NEW h \in Handler, NEW p, Goto(h, p), DeleteRow(job[h].entry),
         rows[job[h].entry] # NoRow,
         \/ job[h].pc = "leave_row" /\ p = "leave_member"
         \/ job[h].pc = "assign_row" /\ p = "assign_member"
  PROVE  QInv'
  <1> DEFINE e == job[h].entry
             u == job[h].user
             f == job[h].flight
  <1>1. /\ e \in EntryId /\ IsRowOf(e, u, f) /\ u \in User
        /\ job[h].pc = "leave_row" => job[h].kind = "leave" /\ f \in Flight /\ h \in Proc
    BY DEF QInv, Memories, Memory, RowPc, AssignPc, LeavePc
  <1>2. /\ job'[h].pc = p /\ job'[h].user = u /\ job'[h].flight = f /\ job'[h].kind = job[h].kind
        /\ \A g \in Handler \ {h} : job'[g] = job[g]
    BY Intact, GotoFacts
  <1>3. \A d \in EntryId : rows'[d] = IF d = e THEN NoRow ELSE rows[d]
    BY DEF DeleteRow, IInv, CoreInv, TypeOK, WaitlistType
  <1>4. \A v \in User, g \in Flight : Listed(v, g)' => Listed(v, g)
    BY <1>3, DomainAssumption DEF Listed, IsRowOf, NoRow
  <1>5. ~ Listed(u, f)'
    BY <1>1, <1>2, <1>3, DomainAssumption DEF QInv, OneRowEach, Listed, IsRowOf, NoRow
  <1>6. \A v, g : Listed(v, g) => Listed(v, g)' \/ (v = u /\ g = f)
    BY <1>1, <1>3 DEF Listed, IsRowOf
  <1>7. f \in Flight
    BY <1>1, Intact, SeatKnown, DomainAssumption DEF SeatPc, AssignPc
  <1>8. ASSUME NEW g \in Handler \ {h}
        PROVE  Memory(g)'
    <2>1. job'[g] = job[g] /\ Memory(g)
      BY <1>2, <1>8 DEF QInv, Memories
    <2>2. job[g].pc = "join_member" => job[g].flight # f
      BY <1>8, Apart DEF JoinPc, LeavePc, AssignPc
    <2>3. job[g].pc = "join_member" => Listed(job[g].user, job[g].flight)'
      BY <1>6, <2>1, <2>2 DEF Memory
    <2>4. job[g].pc \in JoinPc \cup LeavePc \cup AssignPc =>
              job[g].flight \in Flight
      BY <2>1, Intact, SeatKnown, DomainAssumption DEF Memory, SeatPc
    <2>5. job[g].pc \in ChosenPc \cup MemberPc => job[g].flight \in Flight /\ job[g].user \in User
      BY <2>1, <2>4 DEF Memory, ChosenPc, MemberPc, LeavePc, AssignPc
    <2>6. job[g].pc \in ChosenPc =>
              \A v \in User : Listed(v, job[g].flight)' => Clv[job[g].user] >= Clv[v]
      BY <1>4, <2>1, <2>5 DEF Memory
    <2>7. job[g].pc \in MemberPc => ~ Listed(job[g].user, job[g].flight)'
      BY <1>4, <2>1, <2>5 DEF Memory
    <2>8. job[g].pc \in RowPc =>
              /\ job[g].entry \in EntryId /\ job[g].entry <= issued
              /\ \/ rows'[job[g].entry] = NoRow
                 \/ IsRowOf(job[g].entry, job[g].user, job[g].flight)'
      BY <1>3, <2>1 DEF Memory, IsRowOf
    <2>9. (/\ job[g].pc \in JoinPc =>
                  job[g].kind = "join" /\ job[g].user \in User /\ job[g].flight \in Flight
           /\ job[g].pc \in LeavePc =>
                  job[g].kind = "leave" /\ job[g].user \in User /\ job[g].flight \in Flight /\ g \in Proc
           /\ job[g].pc \in AssignPc \ {"assign_top"} => job[g].user \in User
           /\ job[g].pc = "assign_seat" =>
                  /\ job[g].booking \in BookingId
                  /\ bookings[job[g].booking].status # "NONE"
                  /\ bookings[job[g].booking].user = job[g].user)'
      BY <2>1 DEF Memory, BookingsKept
    <2> QED
      BY <2>1, <2>3, <2>6, <2>7, <2>8, <2>9 DEF Memory
  <1>9. Memory(h)'
    BY <1>1, <1>2, <1>5 DEF Memory, JoinPc, LeavePc, AssignPc, RowPc, ChosenPc, MemberPc
  <1>10. RowsIssued' /\ OneRowEach'
    BY <1>3, RowDeleted DEF QInv, RowsIssued, IInv, CoreInv
  <1>11. MemberMissing'
    <2> SUFFICES ASSUME NEW v \in User, NEW g \in Flight, Listed(v, g)', v \notin zset[g]
                 PROVE  \E k \in Handler : (job[k].pc = "join_member" /\ Place(k, v, g))'
      BY DEF MemberMissing
    <2>1. PICK k \in Handler : job[k].pc = "join_member" /\ Place(k, v, g)
      BY <1>4 DEF QInv, MemberMissing
    <2> QED
      BY <1>2, <2>1 DEF Place
  <1>12. MemberLeft'
    <2> SUFFICES ASSUME NEW v \in User, NEW g \in Flight, v \in zset[g], ~ Listed(v, g)'
                 PROVE  \E k \in Handler : (job[k].pc \in MemberPc /\ Place(k, v, g))'
      BY DEF MemberLeft
    <2>1. CASE v = u /\ g = f
      BY <1>2, <2>1 DEF Place, MemberPc
    <2>2. CASE ~ Listed(v, g)
      <3>1. PICK k \in Handler : job[k].pc \in MemberPc /\ Place(k, v, g)
        BY <2>2 DEF QInv, MemberLeft
      <3>2. k # h
        BY <3>1 DEF MemberPc
      <3> QED
        BY <1>2, <3>1, <3>2 DEF Place
    <2> QED
      BY <1>6, <2>1, <2>2
  <1>13. JoinApart'
    BY GotoStays, ListKept, ApartKept DEF QInv
  <1> QED
    BY <1>8, <1>9, <1>10, <1>11, <1>12, <1>13 DEF QInv, Memories

(* A new row disturbs nobody: no reassignment is under way on its flight. *)
LEMMA JoinCreateQ ==
  ASSUME WaitlistPremises, IInv, QInv, BookingsKept, NEW h \in Handler, JoinCreate(h)
  PROVE  QInv'
  <1> DEFINE u == job[h].user
             f == job[h].flight
  <1>1. job[h].pc = "join_create" /\ UNCHANGED <<zset, todo>>
    BY DEF JoinCreate, At
  <1>2. job[h].kind = "join" /\ u \in User /\ f \in Flight
    BY <1>1 DEF QInv, Memories, Memory, JoinPc
  <1>3. CASE Finish(h) /\ UNCHANGED <<rows, issued>>
    BY <1>1, <1>3, MoveOut DEF MemberPc, waitlist
  <1>4. CASE RowAllowed(u, f) /\ InsertRow(u, f) /\ Goto(h, "join_member")
    <2> DEFINE r == [user |-> u, flight |-> f]
    <2>1. /\ issued \in Nat /\ issued + 1 \in EntryId /\ issued' = issued + 1
          /\ \A d \in EntryId : rows'[d] = IF d = issued + 1 THEN r ELSE rows[d]
          /\ \A d \in EntryId : d \in Nat
      BY <1>4, WaitlistAssumption
      DEF RowAllowed, InsertRow, IInv, CoreInv, TypeOK, WaitlistType, EntryId
    <2>2. rows[issued + 1] = NoRow
      BY <2>1 DEF QInv, RowsIssued
    <2>3. /\ job'[h].pc = "join_member" /\ job'[h].user = u /\ job'[h].flight = f
          /\ job'[h].kind = "join" /\ \A g \in Handler \ {h} : job'[g] = job[g]
      BY <1>2, <1>4, Intact, GotoFacts
    <2>4. \A v \in User, g \in Flight : Listed(v, g) => Listed(v, g)'
      BY <2>1, <2>2, DomainAssumption DEF Listed, IsRowOf, NoRow
    <2>5. \A v \in User, g \in Flight : Listed(v, g)' => Listed(v, g) \/ (v = u /\ g = f)
      BY <2>1 DEF Listed, IsRowOf
    <2>6. Listed(u, f)'
      BY <2>1, <2>3 DEF Listed, IsRowOf
    <2>7. ASSUME NEW g \in Handler \ {h}
          PROVE  Memory(g)'
      <3>1. job'[g] = job[g] /\ Memory(g)
        BY <2>3, <2>7 DEF QInv, Memories
      <3>2. job[g].pc \in JoinPc \cup LeavePc \cup AssignPc => job[g].flight \in Flight
        BY <3>1, Intact, SeatKnown, DomainAssumption DEF Memory, SeatPc
      <3>3. job[g].pc \in LeavePc \cup AssignPc => job[g].flight # f
        BY <1>1, <2>7, Apart DEF JoinPc
      <3>4. job[g].pc = "join_member" => job[g].flight \in Flight /\ job[g].user \in User
        BY <3>1 DEF Memory, JoinPc
      <3>5. job[g].pc = "join_member" => Listed(job[g].user, job[g].flight)'
        BY <2>4, <3>1, <3>4 DEF Memory
      <3>6. job[g].pc \in ChosenPc \cup MemberPc =>
                job[g].flight \in Flight \ {f} /\ job[g].user \in User
        BY <3>1, <3>2, <3>3 DEF Memory, ChosenPc, MemberPc, LeavePc, AssignPc
      <3>7. job[g].pc \in ChosenPc =>
                \A v \in User : Listed(v, job[g].flight)' => Clv[job[g].user] >= Clv[v]
        BY <2>5, <3>1, <3>6 DEF Memory
      <3>8. job[g].pc \in MemberPc => ~ Listed(job[g].user, job[g].flight)'
        BY <2>5, <3>1, <3>6 DEF Memory
      <3>9. job[g].pc \in RowPc =>
                /\ job[g].entry \in EntryId /\ job[g].entry <= issued
                /\ rows[job[g].entry] = NoRow \/ IsRowOf(job[g].entry, job[g].user, job[g].flight)
        BY <3>1 DEF Memory
      <3>10. job[g].pc \in RowPc =>
                rows'[job[g].entry] = rows[job[g].entry] /\ job[g].entry <= issued'
        BY <2>1, <3>9
      <3>11. job[g].pc \in RowPc =>
                /\ job[g].entry \in EntryId /\ job[g].entry <= issued'
                /\ \/ rows'[job[g].entry] = NoRow
                   \/ IsRowOf(job[g].entry, job[g].user, job[g].flight)'
        BY <3>1, <3>9, <3>10 DEF IsRowOf
      <3>12. (/\ job[g].pc \in JoinPc =>
                    job[g].kind = "join" /\ job[g].user \in User /\ job[g].flight \in Flight
              /\ job[g].pc \in LeavePc =>
                    job[g].kind = "leave" /\ job[g].user \in User /\ job[g].flight \in Flight
                    /\ g \in Proc
              /\ job[g].pc \in AssignPc \ {"assign_top"} => job[g].user \in User
              /\ job[g].pc = "assign_seat" =>
                    /\ job[g].booking \in BookingId
                    /\ bookings[job[g].booking].status # "NONE"
                    /\ bookings[job[g].booking].user = job[g].user)'
        BY <3>1 DEF Memory, BookingsKept
      <3> QED
        BY <3>1, <3>5, <3>7, <3>8, <3>11, <3>12 DEF Memory
    <2>8. Memory(h)'
      BY <1>2, <2>3, <2>6 DEF Memory, LeavePc, AssignPc, RowPc, ChosenPc, MemberPc
    <2>9. RowsIssued' /\ OneRowEach'
      BY <1>2, <1>4, <2>1, RowInserted DEF QInv, RowsIssued, IInv, CoreInv
    <2>10. MemberMissing'
      <3> SUFFICES ASSUME NEW v \in User, NEW g \in Flight, Listed(v, g)', v \notin zset[g]
                   PROVE  \E k \in Handler : (job[k].pc = "join_member" /\ Place(k, v, g))'
        BY <1>1 DEF MemberMissing
      <3>1. CASE v = u /\ g = f
        BY <2>3, <3>1 DEF Place
      <3>2. CASE Listed(v, g)
        <4>1. PICK k \in Handler : job[k].pc = "join_member" /\ Place(k, v, g)
          BY <3>2 DEF QInv, MemberMissing
        <4> QED
          BY <1>1, <2>3, <4>1 DEF Place
      <3> QED
        BY <2>5, <3>1, <3>2
    <2>11. MemberLeft'
      <3> SUFFICES ASSUME NEW v \in User, NEW g \in Flight, v \in zset[g], ~ Listed(v, g)'
                   PROVE  \E k \in Handler : (job[k].pc \in MemberPc /\ Place(k, v, g))'
        BY <1>1 DEF MemberLeft
      <3>1. PICK k \in Handler : job[k].pc \in MemberPc /\ Place(k, v, g)
        BY <2>4 DEF QInv, MemberLeft
      <3>2. k # h
        BY <1>1, <3>1 DEF MemberPc
      <3> QED
        BY <2>3, <3>1, <3>2 DEF Place
    <2>12. JoinApart'
      BY <1>1, <1>4, GotoStays, ListKept, ApartKept DEF QInv
    <2> QED
      BY <2>7, <2>8, <2>9, <2>10, <2>11, <2>12 DEF QInv, Memories
  <1> QED
    BY <1>1, <1>3, <1>4 DEF JoinCreate

(* The last step of a handler brings the sorted set up to the table. *)
LEMMA MemberWritten ==
  ASSUME IInv, QInv, BookingsKept, UNCHANGED <<rows, issued, todo>>, NEW h \in Handler, Finish(h),
         \/ job[h].pc = "join_member" /\ AddMember(job[h].flight, job[h].user)
         \/ job[h].pc \in MemberPc /\ RemoveMember(job[h].flight, job[h].user)
  PROVE  QInv'
  <1> DEFINE u == job[h].user
             f == job[h].flight
  <1>1. /\ \A g \in Handler \ {h} : job'[g] = job[g]
        /\ Others(h) /\ Stays(h) /\ Memory(h)'
    BY ListKept, FinishStays DEF Others
  <1>2. \A v \in User, g \in Flight : Listed(v, g)' <=> Listed(v, g)
    BY DEF Listed, IsRowOf
  <1>3. Memories'
    BY <1>1, MemoryOfOthers DEF Memories
  <1>4. RowsIssued' /\ OneRowEach'
    BY DEF QInv, RowsIssued, OneRowEach
  <1>5. JoinApart'
    BY <1>1, ListKept, ApartKept DEF QInv
  <1>6. f \in Flight /\ u \in User
    BY Intact, SeatKnown, DomainAssumption
    DEF QInv, Memories, Memory, MemberPc, JoinPc, LeavePc, AssignPc, SeatPc
  <1>7. zset \in [Flight -> SUBSET User]
    BY DEF IInv, CoreInv, TypeOK, WaitlistType
  <1>8. CASE job[h].pc = "join_member" /\ AddMember(f, u)
    <2>1. \A g \in Flight : zset'[g] = IF g = f THEN zset[g] \cup {u} ELSE zset[g]
      BY <1>6, <1>7, <1>8 DEF AddMember
    <2>2. Listed(u, f)
      BY <1>8 DEF QInv, Memories, Memory
    <2>3. MemberMissing'
      <3> SUFFICES ASSUME NEW v \in User, NEW g \in Flight, Listed(v, g)', v \notin zset'[g]
                   PROVE  \E k \in Handler : (job[k].pc = "join_member" /\ Place(k, v, g))'
        BY DEF MemberMissing
      <3>1. PICK k \in Handler : job[k].pc = "join_member" /\ Place(k, v, g)
        BY <1>2, <2>1 DEF QInv, MemberMissing
      <3>2. k # h
        BY <1>6, <2>1, <3>1 DEF Place
      <3> QED
        BY <1>1, <3>1, <3>2 DEF Place
    <2>4. MemberLeft'
      <3> SUFFICES ASSUME NEW v \in User, NEW g \in Flight, v \in zset'[g], ~ Listed(v, g)'
                   PROVE  \E k \in Handler : (job[k].pc \in MemberPc /\ Place(k, v, g))'
        BY DEF MemberLeft
      <3>0. ~ Listed(v, g)
        BY <1>2
      <3>1. v \in zset[g]
        BY <2>1, <2>2, <3>0
      <3>2. PICK k \in Handler : job[k].pc \in MemberPc /\ Place(k, v, g)
        BY <1>2, <3>1 DEF QInv, MemberLeft
      <3>3. k # h
        BY <1>8, <3>2 DEF MemberPc
      <3> QED
        BY <1>1, <3>2, <3>3 DEF Place
    <2> QED
      BY <1>3, <1>4, <1>5, <2>3, <2>4 DEF QInv
  <1>9. CASE job[h].pc \in MemberPc /\ RemoveMember(f, u)
    <2>1. \A g \in Flight : zset'[g] = IF g = f THEN zset[g] \ {u} ELSE zset[g]
      BY <1>6, <1>7, <1>9 DEF RemoveMember
    <2>2. ~ Listed(u, f)
      BY <1>9 DEF QInv, Memories, Memory
    <2>3. MemberMissing'
      <3> SUFFICES ASSUME NEW v \in User, NEW g \in Flight, Listed(v, g)', v \notin zset'[g]
                   PROVE  \E k \in Handler : (job[k].pc = "join_member" /\ Place(k, v, g))'
        BY DEF MemberMissing
      <3>1. v \notin zset[g]
        BY <1>2, <2>1, <2>2
      <3>2. PICK k \in Handler : job[k].pc = "join_member" /\ Place(k, v, g)
        BY <1>2, <3>1 DEF QInv, MemberMissing
      <3>3. k # h
        BY <1>9, <3>2 DEF MemberPc
      <3> QED
        BY <1>1, <3>2, <3>3 DEF Place
    <2>4. MemberLeft'
      <3> SUFFICES ASSUME NEW v \in User, NEW g \in Flight, v \in zset'[g], ~ Listed(v, g)'
                   PROVE  \E k \in Handler : (job[k].pc \in MemberPc /\ Place(k, v, g))'
        BY DEF MemberLeft
      <3>1. PICK k \in Handler : job[k].pc \in MemberPc /\ Place(k, v, g)
        BY <1>2, <2>1 DEF QInv, MemberLeft
      <3>2. k # h
        BY <1>6, <2>1, <3>1 DEF Place
      <3> QED
        BY <1>1, <3>1, <3>2 DEF Place
    <2> QED
      BY <1>3, <1>4, <1>5, <2>3, <2>4 DEF QInv
  <1> QED
    BY <1>8, <1>9

(* Time, and nothing at all. *)
LEMMA Still ==
  ASSUME IInv, QInv, BookingsKept, UNCHANGED <<waitlist, job, todo>>
  PROVE  QInv'
  <1>1. UNCHANGED <<rows, issued, zset>>
    BY DEF waitlist
  <1>2. Memories'
    BY <1>1, MemoryOfOthers DEF Memories
  <1>3. RowsIssued' /\ OneRowEach'
    BY <1>1 DEF QInv, RowsIssued, OneRowEach
  <1>4. MemberMissing'
    BY <1>1 DEF QInv, MemberMissing, Listed, IsRowOf, Place
  <1>5. MemberLeft'
    BY <1>1 DEF QInv, MemberLeft, Listed, IsRowOf, Place
  <1>6. \A g \in Handler, s \in Seat : Concerns(g, s)' => Concerns(g, s)
    BY ListKept DEF Concerns, WorksOn, ListsKept
  <1>7. JoinApart'
    BY <1>6 DEF QInv, JoinApart
  <1> QED
    BY <1>2, <1>3, <1>4, <1>5, <1>7 DEF QInv

LEMMA AssignStepQ ==
  ASSUME WaitlistPremises, IInv, QInv, BookingsKept, NEW h \in Handler, AssignStep(h)
  PROVE  QInv'
  <1>1. CASE AssignRow(h)
    <2>1. job[h].pc = "assign_row" /\ UNCHANGED <<issued, zset, todo>>
      BY <1>1 DEF AssignRow, At
    <2>2. CASE Finish(h) /\ UNCHANGED rows
      BY <2>1, <2>2, MoveOut DEF MemberPc, waitlist
    <2>3. CASE /\ rows[job[h].entry] # NoRow
               /\ DeleteRow(job[h].entry)
               /\ Goto(h, "assign_member")
      BY <2>1, <2>3, RowGone
    <2> QED
      BY <1>1, <2>2, <2>3 DEF AssignRow
  <1>2. CASE AssignMember(h)
    BY <1>2, MemberWritten DEF AssignMember, At, MemberPc
  <1> QED
    BY <1>1, <1>2, AssignTopQ, AssignEntryQ, AssignLooks, AssignCreateQ DEF AssignStep

LEMMA WaitlistStepQ ==
  ASSUME WaitlistPremises, IInv, QInv, BookingsKept, NEW h \in Handler, WaitlistStep(h)
  PROVE  QInv'
  <1>1. CASE LeaveRow(h)
    <2>1. job[h].pc = "leave_row" /\ UNCHANGED <<issued, zset, todo>>
      BY <1>1 DEF LeaveRow, At
    <2>2. CASE Finish(h) /\ UNCHANGED rows
      BY <2>1, <2>2, MoveOut DEF MemberPc, waitlist
    <2>3. CASE /\ rows[job[h].entry] # NoRow
               /\ DeleteRow(job[h].entry)
               /\ Goto(h, "leave_member")
      BY <2>1, <2>3, RowGone
    <2> QED
      BY <1>1, <2>2, <2>3 DEF LeaveRow
  <1>2. CASE JoinMember(h) \/ LeaveMember(h)
    BY <1>2, MemberWritten DEF JoinMember, LeaveMember, At, MemberPc
  <1> QED
    BY <1>1, <1>2, JoinConfirmedQ, JoinCreateQ DEF WaitlistStep

LEMMA NextQ == WaitlistPremises /\ IInv /\ QInv /\ [Next]_vars => QInv'
  <1> SUFFICES ASSUME WaitlistPremises, IInv, QInv, [Next]_vars PROVE QInv'
    OBVIOUS
  <1>1. BookingsKept
    BY KeptAlways
  <1>2. CASE Tick \/ UNCHANGED vars
    BY <1>1, <1>2, Still DEF Tick, vars, waitlist
  <1>3. CASE \E h \in Proc : BookingRequest(h) \/ WaitlistRequest(h)
    BY <1>1, <1>3, BeginQ, WaitlistRequestQ DEF Handler
  <1>4. CASE \E h \in Cron : CleanupFind(h)
    BY <1>1, <1>4, BeginQ DEF Handler
  <1>5. CASE \E h \in Handler : Step(h)
    BY <1>1, <1>5, BookingStepQ, CleanupStepQ, AssignStepQ, WaitlistStepQ DEF Step
  <1>6. CASE \E s \in Seat, status \in SeatStatus : SetSeat(s, status)
    BY <1>6 DEF SetSeat, WaitlistPremises, Premises
  <1> QED
    BY <1>2, <1>3, <1>4, <1>5, <1>6 DEF Next

LEMMA InitQ == Init => QInv
  <1> SUFFICES ASSUME Init PROVE QInv
    OBVIOUS
  <1>1. /\ \A h \in Handler : job[h].pc = "idle" /\ job[h].kind = Nil
        /\ \A e \in EntryId : rows[e] = NoRow
        /\ \A f \in Flight : zset[f] = {}
    BY DEF Init, HandlersInit, WaitlistInit, NoJob
  <1>2. Memories
    BY <1>1 DEF Memories, Memory, JoinPc, LeavePc, AssignPc, RowPc, ChosenPc, MemberPc
  <1>3. OneRowEach /\ RowsIssued
    BY <1>1 DEF OneRowEach, RowsIssued
  <1>4. JoinApart
    BY <1>1, HandlersAssumption DEF JoinApart, Kind
  <1>5. \A u \in User, f \in Flight : ~ Listed(u, f)
    BY <1>1, DomainAssumption DEF Listed, IsRowOf, NoRow
  <1> QED
    BY <1>1, <1>2, <1>3, <1>4, <1>5 DEF QInv, MemberMissing, MemberLeft

(* Whatever a handler remembers of the waitlist is true or has been        *)
(* overtaken by a removal it will notice, and where the two copies differ   *)
(* the handler that will mend them is under way: no step disturbs either.   *)
THEOREM WaitlistInvariantHolds ==
  ASSUME WaitlistPremises
  PROVE  Spec => [](IInv /\ QInv)
  <1>1. Init => IInv /\ QInv
    BY InitInv, InitQ
  <1>2. IInv /\ QInv /\ [Next]_vars => (IInv /\ QInv)'
    BY NextInv, NextQ DEF WaitlistPremises
  <1> QED
    BY <1>1, <1>2, PTL DEF Spec

-------------------------------------------------------------------------------
(* Once nobody works on a flight, its sorted set and its rows name the same  *)
(* passengers, although joins, leaves and promotions write them one by one. *)
THEOREM CopiesAgree ==
  ASSUME WaitlistPremises
  PROVE  Spec => []WaitlistInSync
  <1>1. ASSUME IInv, QInv PROVE WaitlistInSync
    <2> SUFFICES ASSUME NEW f \in Flight, \A s \in SeatsOf(f) : Quiet(s)
                 PROVE  zset[f] = {u \in User : Listed(u, f)}
      BY DEF WaitlistInSync
    <2>1. PICK s \in Seat : FlightOf[s] = f /\ Quiet(s)
      BY DEF WaitlistPremises, SeatsOf
    <2>2. \A h \in Handler : job[h].pc = "join_member" => job[h].flight # f
      BY <1>1, <2>1 DEF Quiet, Concerns, QInv, Memories, Memory, JoinPc
    <2>3. \A h \in Handler : job[h].pc = "leave_member" => job[h].flight # f
      BY <1>1, <2>1 DEF Quiet, Concerns, QInv, Memories, Memory, LeavePc
    <2>4. ASSUME NEW h \in Handler, job[h].pc = "assign_member"
          PROVE  job[h].flight # f
      <3>1. job[h].seat \in Seat /\ job[h].flight = FlightOf[job[h].seat]
        BY <1>1, <2>4, Intact, SeatKnown DEF SeatPc, AssignPc
      <3> QED
        BY <3>1 DEF SeatsOf, Quiet, Concerns, WorksOn
    <2>5. ASSUME NEW u \in User PROVE Listed(u, f) <=> u \in zset[f]
      <3>1. MemberMissing /\ MemberLeft
        BY <1>1 DEF QInv
      <3>2. Listed(u, f) => u \in zset[f]
        BY <2>2, <3>1 DEF MemberMissing, Place
      <3>3. u \in zset[f] => Listed(u, f)
        BY <2>3, <2>4, <3>1 DEF MemberLeft, MemberPc, Place
      <3> QED
        BY <3>2, <3>3
    <2>6. zset[f] \subseteq User
      BY <1>1 DEF IInv, CoreInv, TypeOK, WaitlistType
    <2> QED
      BY <2>5, <2>6
  <1> QED
    BY <1>1, WaitlistInvariantHolds, PTL

(* Nobody who has a place is passed over for a passenger of less value,    *)
(* although the choice is made several statements before the promotion and *)
(* on the other copy of the list.                                          *)
THEOREM NobodyPassedOver ==
  ASSUME WaitlistPremises
  PROVE  Spec => PromotedOutranks
  <1> DEFINE Kept ==
         \A h \in Handler : Promotes(h) =>
            \A v \in User : Listed(v, job[h].flight) => Clv[job[h].user] >= Clv[v]
  <1>1. ASSUME IInv, QInv PROVE Kept
    BY <1>1 DEF Promotes, QInv, Memories, Memory, ChosenPc
  <1>2. IInv /\ QInv /\ [Next]_vars => [Kept]_vars
    BY <1>1
  <1> QED
    BY <1>2, WaitlistInvariantHolds, PTL DEF Spec, PromotedOutranks

LEMMA RowsTaken ==
  ASSUME TypeOK, [Next]_vars, NEW e \in EntryId, rows[e] # NoRow, rows'[e] = NoRow
  PROVE  \E h \in Handler : /\ job[h].pc \in {"leave_row", "assign_row"} /\ job[h].entry = e
                            /\ job'[h] # job[h]
  <1>1. rows \in [EntryId -> Row]
    BY DEF TypeOK, WaitlistType
  <1>2. ~ UNCHANGED rows
    OBVIOUS
  <1>3. ASSUME NEW h \in Handler, LeaveRow(h) \/ AssignRow(h)
        PROVE  /\ job[h].pc \in {"leave_row", "assign_row"} /\ job[h].entry = e
               /\ job'[h] # job[h]
    <2>1. /\ job[h].pc \in {"leave_row", "assign_row"} /\ DeleteRow(job[h].entry)
          /\ \E p \in {"leave_member", "assign_member"} : Goto(h, p)
      BY <1>2, <1>3 DEF LeaveRow, AssignRow, At
    <2>2. job'[h].pc \in {"leave_member", "assign_member"}
      BY <2>1 DEF Goto, TypeOK, HandlersType, JobsType, Job
    <2>3. job[h].entry = e
      BY <1>1, <2>1 DEF DeleteRow
    <2> QED
      BY <2>1, <2>2, <2>3
  <1>4. ASSUME NEW h \in Handler, JoinCreate(h)
        PROVE  FALSE
    <2>1. InsertRow(job[h].user, job[h].flight) /\ job[h].user \in User
      BY <1>2, <1>4 DEF JoinCreate, At, TypeOK, HandlersType, JobsType, JoinPc
    <2> QED
      BY <1>1, <2>1, DomainAssumption DEF InsertRow, NoRow
  <1>5. ASSUME NEW h \in Handler, Step(h)
        PROVE  LeaveRow(h) \/ AssignRow(h) \/ JoinCreate(h)
    <2>1. ~ BookingStep(h)
      BY <1>2
      DEF BookingStep, LockAcquire, LockCreate, LockSeat, ConfirmLock, ConfirmStatus, ConfirmSeat,
          CancelStatus, CancelSeat, CancelRelease, waitlist
    <2>2. ~ CleanupStep(h)
      BY <1>2 DEF CleanupStep, CleanupStatus, CleanupSeat, waitlist
    <2>3. AssignStep(h) => AssignRow(h)
      BY <1>2
      DEF AssignStep, AssignTop, AssignEntry, AssignConfirmed, AssignAcquire, AssignCreate,
          AssignSeat, AssignMember, waitlist
    <2>4. WaitlistStep(h) => LeaveRow(h) \/ JoinCreate(h)
      BY <1>2 DEF WaitlistStep, JoinConfirmed, JoinMember, LeaveMember, waitlist
    <2> QED
      BY <1>5, <2>1, <2>2, <2>3, <2>4 DEF Step
  <1>6. \E h \in Handler : Step(h)
    <2>1. ~ Tick /\ ~ UNCHANGED vars
      BY <1>2 DEF Tick, waitlist, vars
    <2>2. \A s \in Seat, status \in SeatStatus : ~ SetSeat(s, status)
      BY <1>2 DEF SetSeat, waitlist
    <2>3. \A h \in Handler : ~ BookingRequest(h) /\ ~ WaitlistRequest(h) /\ ~ CleanupFind(h)
      BY <1>2
      DEF BookingRequest, LockCheck, ConfirmCheck, CancelCheck, AdminCancelCheck,
          WaitlistRequest, JoinCheck, LeaveCheck, CleanupFind, waitlist
    <2> QED
      BY <2>1, <2>2, <2>3 DEF Next, Handler
  <1> QED
    BY <1>3, <1>4, <1>5, <1>6

(* A place is given up by a promotion that found its passenger confirmed, or *)
(* that has just marked the seat of its hold.                                *)
LEMMA GivenUp ==
  ASSUME IInv, [Next]_vars, NEW h \in Handler, GivesUp(h)
  PROVE  \/ At(h, "assign_confirmed") /\ ConfirmedOn(job[h].user, job[h].flight)
         \/ At(h, "assign_seat")
  <1>0. CoreInv /\ job \in [Handler -> Job]
    BY JobFunction DEF IInv
  <1>1. job'[h] # job[h] /\ job'[h].pc = "assign_row"
    BY DEF GivesUp, At
  <1>2. ASSUME NEW p, Goto(h, p)
        PROVE  p = "assign_row"
    BY <1>0, <1>1, <1>2 DEF Goto, Job
  <1>3. ASSUME Finish(h), UNCHANGED todo
        PROVE  FALSE
    BY <1>0, <1>1, <1>3, FinishFacts
  <1>4. ~ (BookingRequest(h) \/ WaitlistRequest(h) \/ CleanupFind(h))
    <2>1. ASSUME NEW u, NEW f, NEW s, LockCheck(h, u, f, s)
          PROVE  FALSE
      BY <1>0, <1>1, <2>1 DEF LockCheck, NoJob
    <2>2. ASSUME NEW k, NEW p \in {"confirm_lock", "cancel_status"}, NEW b, OnBooking(h, b, k, p)
          PROVE  FALSE
      BY <1>0, <1>1, <2>2 DEF OnBooking, NoJob
    <2>3. \A u, b : ~ ConfirmCheck(h, u, b) /\ ~ CancelCheck(h, u, b) /\ ~ AdminCancelCheck(h, b)
      BY <2>2 DEF ConfirmCheck, CancelCheck, AdminCancelCheck
    <2>4. ASSUME NEW u, NEW f, JoinCheck(h, u, f)
          PROVE  FALSE
      BY <1>0, <1>1, <2>4 DEF JoinCheck, NoJob
    <2>5. ASSUME NEW e, LeaveCheck(h, e)
          PROVE  FALSE
      BY <1>0, <1>1, <2>5 DEF LeaveCheck, NoJob
    <2>6. ~ CleanupFind(h)
      BY <1>0, <1>1 DEF CleanupFind, NoJob
    <2> QED
      BY <2>1, <2>3, <2>4, <2>5, <2>6 DEF BookingRequest, WaitlistRequest
  <1>5. ~ BookingStep(h)
    <2>1. ASSUME NEW b, job' = [job EXCEPT ![h].pc = "lock_seat", ![h].booking = b]
          PROVE  FALSE
      BY <1>0, <1>1, <2>1 DEF Job
    <2> QED
      BY <1>2, <1>3, <2>1
      DEF BookingStep, LockAcquire, LockCreate, LockSeat, ConfirmLock, ConfirmStatus, ConfirmSeat,
          CancelStatus, CancelSeat, CancelRelease
  <1>6. ~ CleanupStep(h)
    <2>1. ASSUME NEW b, NEW f, NEW s, job' = [job EXCEPT ![h].pc = "clean_seat", ![h].booking = b,
                                                         ![h].flight = f, ![h].seat = s]
          PROVE  FALSE
      BY <1>0, <1>1, <2>1 DEF Job
    <2>2. ~ CleanupStatus(h)
      <3>1. SUFFICES ASSUME CleanupStatus(h) PROVE FALSE
        OBVIOUS
      <3>2. PICK b \in todo[h] :
               job' = [job EXCEPT ![h].pc = "clean_seat", ![h].booking = b,
                                  ![h].flight = bookings[b].flight, ![h].seat = bookings[b].seat]
        BY <3>1 DEF CleanupStatus
      <3> QED
        BY <2>1, <3>2
    <2> QED
      BY <1>2, <2>2 DEF CleanupStep, CleanupSeat
  <1>7. ~ WaitlistStep(h)
    BY <1>2, <1>3 DEF WaitlistStep, JoinConfirmed, JoinCreate, JoinMember, LeaveRow, LeaveMember
  <1>8. ASSUME AssignStep(h)
        PROVE  AssignConfirmed(h) \/ AssignSeat(h)
    <2>1. ASSUME NEW v, \/ job' = [job EXCEPT ![h].pc = "assign_entry", ![h].user = v]
                       \/ job' = [job EXCEPT ![h].pc = "assign_confirmed", ![h].entry = v]
                       \/ job' = [job EXCEPT ![h].pc = "assign_seat", ![h].booking = v]
          PROVE  FALSE
      BY <1>0, <1>1, <2>1 DEF Job
    <2> QED
      BY <1>2, <1>3, <1>8, <2>1
      DEF AssignStep, AssignTop, AssignEntry, AssignAcquire, AssignCreate, AssignRow, AssignMember
  <1>9. AssignConfirmed(h) \/ AssignSeat(h)
    BY <1>0, <1>1, <1>4, <1>5, <1>6, <1>7, <1>8, OwnStep DEF Step
  <1>10. ASSUME AssignConfirmed(h)
         PROVE  ConfirmedOn(job[h].user, job[h].flight)
    BY <1>2, <1>10 DEF AssignConfirmed
  <1> QED
    BY <1>9, <1>10 DEF AssignConfirmed, AssignSeat, At

(* A promotion gives up a place only for the hold it has just made for the  *)
(* passenger or for a seat the passenger has confirmed, and a row vanishes  *)
(* only by the handler that gave up, or whose passenger leaves, this place, *)
(* also when two freed seats were offered to one passenger.                 *)
THEOREM PlacesHonoured ==
  ASSUME WaitlistPremises
  PROVE  Spec => PlaceKept
  <1> DEFINE Kept ==
         /\ \A h \in Handler : GivesUp(h) =>
                HasSeated(h) \/ ConfirmedOn(job[h].user, job[h].flight)
         /\ \A e \in EntryId : rows[e] # NoRow /\ rows'[e] = NoRow =>
                \E h \in Handler :
                    /\ At(h, "leave_row") \/ At(h, "assign_row")
                    /\ job[h].entry = e /\ IsRowOf(e, job[h].user, job[h].flight)
                    /\ job'[h] # job[h]
  <1>1. ASSUME IInv, QInv, [Next]_vars PROVE Kept
    <2>1. ASSUME NEW h \in Handler, GivesUp(h), At(h, "assign_seat")
          PROVE  HasSeated(h)
      <3>1. PICK s \in Seat : s = job[h].seat
        BY <1>1, <2>1, SeatKnown DEF At, SeatPc, AssignPc, IInv
      <3>2. ActiveOn(job[h].booking, s)
        BY <1>1, <2>1, <3>1, Intact DEF On, MarkPc, At
      <3>3. bookings[job[h].booking].user = job[h].user
        BY <1>1, <2>1 DEF QInv, Memories, Memory, At
      <3> QED
        BY <3>1, <3>2, <3>3 DEF HasSeated
    <2>2. ASSUME NEW h \in Handler, GivesUp(h)
          PROVE  HasSeated(h) \/ ConfirmedOn(job[h].user, job[h].flight)
      BY <1>1, <2>1, <2>2, GivenUp
    <2>3. ASSUME NEW e \in EntryId, rows[e] # NoRow, rows'[e] = NoRow
          PROVE  \E h \in Handler :
                     /\ At(h, "leave_row") \/ At(h, "assign_row")
                     /\ job[h].entry = e /\ IsRowOf(e, job[h].user, job[h].flight)
                     /\ job'[h] # job[h]
      <3>1. PICK h \in Handler : /\ job[h].pc \in {"leave_row", "assign_row"} /\ job[h].entry = e
                                 /\ job'[h] # job[h]
        BY <1>1, <2>3, RowsTaken DEF IInv, CoreInv
      <3>2. Memory(h) /\ job[h].pc \in RowPc
        BY <1>1, <3>1 DEF QInv, Memories, RowPc
      <3>3. IsRowOf(e, job[h].user, job[h].flight)
        BY <2>3, <3>1, <3>2 DEF Memory
      <3> QED
        BY <3>1, <3>3 DEF At
    <2> QED
      BY <2>2, <2>3
  <1>2. IInv /\ QInv /\ [Next]_vars => [Kept]_vars
    BY <1>1
  <1> QED
    BY <1>2, WaitlistInvariantHolds, PTL DEF Spec, PlaceKept
===============================================================================
