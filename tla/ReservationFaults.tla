--------------------------- MODULE ReservationFaults ---------------------------
(***************************************************************************)
(* Reservations when statements fail and the server dies.  A handler writes *)
(* a booking, a seat, a key and the waitlist one after the other, without a *)
(* transaction and without compensation, so a fault leaves whatever had     *)
(* been written.  Nothing is replayed after a restart: the cleanup job is   *)
(* the only recovery there is.                                              *)
(***************************************************************************)
EXTENDS Reservations

CONSTANT MaxFaults      \* bound on the faults of one behaviour

ASSUME MaxFaultsAssumption == MaxFaults \in Nat

VARIABLE faults         \* faults so far

faultVars == <<vars, faults>>

FaultInit == Init /\ faults = 0

(* The statement a handler awaits is rejected: an HTTP handler answers with *)
(* an error, the cleanup logs it and goes on with the next booking.  Struck *)
(* one statement later it is also the answer that was lost after the write. *)
Throw(h) ==
    \/ ~ At(h, "idle") /\ ~ At(h, "clean_next") /\ Rejected(h)
    \/ \E b \in todo[h] : CleanupSkip(h, b)

(* The connection to Redis breaks after a command took effect and before it *)
(* was answered: ioredis sends it again, so that it takes effect twice.     *)
Resent(h) ==
    /\ \/ /\ job[h].pc \in {"lock_acquire", "assign_acquire"}
          /\ FreeKey(job[h].flight, job[h].seat)
          /\ SetLock(job[h].flight, job[h].seat, job[h].user)
          /\ UNCHANGED zset
       \/ /\ At(h, "cancel_release")
          /\ ReleaseLock(job[h].flight, job[h].seat)
          /\ UNCHANGED zset
       \/ /\ At(h, "join_member")
          /\ AddMember(job[h].flight, job[h].user)
          /\ UNCHANGED lock
       \/ /\ job[h].pc \in {"leave_member", "assign_member"}
          /\ RemoveMember(job[h].flight, job[h].user)
          /\ UNCHANGED lock
    /\ UNCHANGED <<store, rows, issued, job, todo>>

(* The process dies and is started again; PostgreSQL and Redis live on. *)
Restart ==
    /\ \E h \in Handler : ~ At(h, "idle")
    /\ job' = [h \in Handler |-> NoJob]
    /\ todo' = [h \in Handler |-> {}]
    /\ UNCHANGED <<locks, store, waitlist>>

(* Redis comes back empty: it is deployed without a named volume. *)
RedisLost ==
    /\ lock' = [k \in Flight \X Seat |-> NoLock]
    /\ zset' = [f \in Flight |-> {}]
    /\ <<lock, zset>>' # <<lock, zset>>
    /\ UNCHANGED <<store, rows, issued, job, todo>>

Fault ==
    /\ faults < MaxFaults
    /\ faults' = faults + 1
    /\ \/ \E h \in Handler : Throw(h) \/ Resent(h)
       \/ Restart
       \/ RedisLost

FaultNext == (Next /\ UNCHANGED faults) \/ Fault

FaultSpec == FaultInit /\ [][FaultNext]_faultVars

(* The fairness of Reservations; faults are never owed. *)
FaultFairSpec ==
    /\ FaultSpec
    /\ SF_vars(Tick)
    /\ \A h \in Handler : WF_vars(Step(h))
    /\ \A h \in Cron : SF_vars(CleanupFind(h))
    /\ \A s \in Seat : []<>Quiet(s)
===============================================================================
