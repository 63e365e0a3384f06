----------------------------- MODULE WaitlistProofs -----------------------------
(***************************************************************************)
(* What the waitlist table keeps whatever the traffic does: its unique      *)
(* constraint holds although the service checks and inserts in two steps.   *)
(***************************************************************************)
EXTENDS ReservationTypes

LEMMA RowsFrame ==
  ASSUME OneRowEach, UNCHANGED rows
  PROVE  OneRowEach'
  BY DEF OneRowEach

LEMMA RowDeleted ==
  ASSUME TypeOK, OneRowEach, NEW d, DeleteRow(d)
  PROVE  OneRowEach'
  <1>1. rows \in [EntryId -> Row]
    BY DEF TypeOK, WaitlistType
  <1>2. \A e \in EntryId : rows'[e] = rows[e] \/ rows'[e] = NoRow
    BY <1>1 DEF DeleteRow
  <1> QED
    BY <1>2 DEF OneRowEach

LEMMA RowInserted ==
  ASSUME TypeOK, OneRowEach, NEW u, NEW f, RowAllowed(u, f), InsertRow(u, f)
  PROVE  OneRowEach'
  <1>1. rows \in [EntryId -> Row]
    BY DEF TypeOK, WaitlistType
  <1> DEFINE r == [user |-> u, flight |-> f]
  <1>2. \A e \in EntryId : rows[e] # r
    BY DEF RowAllowed, Listed, IsRowOf
  <1>3. \A e \in EntryId : rows'[e] = IF e = issued + 1 THEN r ELSE rows[e]
    BY <1>1 DEF InsertRow
  <1> HIDE DEF r
  <1> QED
    BY <1>2, <1>3 DEF OneRowEach

(* joinWaitlist reads, and only then inserts; two requests of the same     *)
(* passenger that both found no row still leave one, for the insert of the *)
(* slower one is refused.                                                  *)
THEOREM OneRowPerPassenger == Spec => []OneRowEach
  <1>1. Init => OneRowEach
    BY DEF Init, WaitlistInit, OneRowEach
  <1>2. TypeOK /\ OneRowEach /\ [Next]_vars => OneRowEach'
    <2> SUFFICES ASSUME TypeOK, OneRowEach, [Next]_vars PROVE OneRowEach'
      OBVIOUS
    <2>1. CASE UNCHANGED rows
      BY <2>1, RowsFrame
    <2>2. ASSUME NEW h \in Handler, Step(h), ~ UNCHANGED rows
          PROVE  OneRowEach'
      <3>1. CASE JoinCreate(h)
        BY <2>2, <3>1, RowInserted DEF JoinCreate
      <3>2. CASE LeaveRow(h) \/ AssignRow(h)
        BY <2>2, <3>2, RowDeleted DEF LeaveRow, AssignRow
      <3>3. CASE BookingStep(h)
        BY <2>2, <3>3
        DEF BookingStep, LockAcquire, LockCreate, LockSeat, ConfirmLock, ConfirmStatus, ConfirmSeat,
            CancelStatus, CancelSeat, CancelRelease, waitlist
      <3>4. CASE CleanupStep(h)
        BY <2>2, <3>4 DEF CleanupStep, CleanupStatus, CleanupSeat, waitlist
      <3>5. CASE AssignStep(h) /\ ~ AssignRow(h)
        BY <2>2, <3>5
        DEF AssignStep, AssignTop, AssignEntry, AssignConfirmed, AssignAcquire, AssignCreate,
            AssignSeat, AssignMember, waitlist
      <3>6. CASE WaitlistStep(h) /\ ~ JoinCreate(h) /\ ~ LeaveRow(h)
        BY <2>2, <3>6
        DEF WaitlistStep, JoinConfirmed, JoinMember, LeaveMember, waitlist
      <3> QED
        BY <2>2, <3>1, <3>2, <3>3, <3>4, <3>5, <3>6 DEF Step
    <2>3. CASE Tick \/ \E s \in Seat, status \in SeatStatus : SetSeat(s, status)
      BY <2>1, <2>3 DEF Tick, SetSeat, waitlist
    <2>4. ASSUME NEW h \in Handler, BookingRequest(h) \/ WaitlistRequest(h) \/ CleanupFind(h)
          PROVE  OneRowEach'
      BY <2>1, <2>4
      DEF BookingRequest, LockCheck, ConfirmCheck, CancelCheck, AdminCancelCheck, WaitlistRequest,
          JoinCheck, LeaveCheck, CleanupFind, waitlist
    <2>5. CASE UNCHANGED vars
      BY <2>1, <2>5 DEF vars
    <2> QED
      BY <2>1, <2>2, <2>3, <2>4, <2>5 DEF Next, Handler
  <1> QED
    BY <1>1, <1>2, TypeCorrect, PTL DEF Spec
===============================================================================
