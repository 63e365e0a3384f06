-------------------------------- MODULE Handlers --------------------------------
(***************************************************************************)
(* What is in flight inside the server.  An HTTP request is an asynchronous *)
(* handler that gives up the event loop at every awaited statement, so the  *)
(* statements of different requests, and of the minutely cron job,          *)
(* interleave freely.  A handler is the point it has reached and what it    *)
(* still remembers from its earlier reads.                                  *)
(*                                                                          *)
(* Nothing in the code orders requests on the same seat.  What the checks   *)
(* and proofs suppose of the traffic is stated by two constants:            *)
(*   Exclusive  pairs of request kinds that never overlap on one seat;      *)
(*   Prompt     no lock lapses under a handler on its way to take the seat. *)
(***************************************************************************)
EXTENDS SeatLocks, BookingStore, WaitlistStore

CONSTANTS
    Proc,       \* request slots: how many requests run at the same time
    Cron,       \* runs of the cron job that may overlap
    Ops,        \* kinds of request the environment issues
    Exclusive,  \* sets {k1, k2}: kinds never in flight together on one seat
    Prompt      \* BOOLEAN, see above

Kind == {"lock", "confirm", "cancel", "cleanup", "setseat", "join", "leave"}

ASSUME HandlersAssumption ==
    /\ Proc \cap Cron = {}
    /\ Ops \subseteq Kind
    /\ Exclusive \subseteq SUBSET Kind
    /\ Prompt \in BOOLEAN
    /\ Nil \notin Kind

VARIABLES
    job,    \* handler -> where it is and what it remembers
    todo    \* cron run -> expired bookings it has found and not yet reached

Handler == Proc \cup Cron

LockPc    == {"lock_acquire", "lock_create", "lock_seat"}
ConfirmPc == {"confirm_lock", "confirm_status", "confirm_seat"}
CancelPc  == {"cancel_status", "cancel_seat", "cancel_release"}
CleanPc   == {"clean_next", "clean_seat"}
AssignPc  == {"assign_top", "assign_entry", "assign_confirmed", "assign_acquire",
              "assign_create", "assign_seat", "assign_row", "assign_member"}
JoinPc    == {"join_confirmed", "join_create", "join_member"}
LeavePc   == {"leave_row", "leave_member"}

TakePc == LockPc \cup {"assign_top", "assign_entry", "assign_confirmed", "assign_acquire",
                       "assign_create", "assign_seat"}

Pc == LockPc \cup ConfirmPc \cup CancelPc \cup CleanPc \cup AssignPc
      \cup JoinPc \cup LeavePc \cup {"idle"}

Job == [pc: Pc, kind: Kind \cup {Nil}, user: User \cup {Nil},
        flight: Flight \cup {Nil}, seat: Seat \cup {Nil},
        booking: BookingId \cup {Nil}, entry: EntryId \cup {Nil}]

NoJob == [pc |-> "idle", kind |-> Nil, user |-> Nil, flight |-> Nil,
          seat |-> Nil, booking |-> Nil, entry |-> Nil]

(* Who joins a waitlist is known; other requests may concern nobody. *)
JobsType ==
    /\ job \in [Handler -> Job]
    /\ \A h \in Handler : job[h].pc \in JoinPc => job[h].user \in User

HandlersType ==
    /\ JobsType
    /\ todo \in [Handler -> SUBSET BookingId]

HandlersInit ==
    /\ job = [h \in Handler |-> NoJob]
    /\ todo = [h \in Handler |-> {}]

locks    == <<lock>>
store    == <<bookings, seats>>
waitlist == <<rows, issued, zset>>
vars     == <<lock, bookings, seats, rows, issued, zset, job, todo>>

-------------------------------------------------------------------------------
At(h, pc) == job[h].pc = pc

(* The seats a handler is working on, or has on its list. *)
WorksOn(h, s) == \/ job[h].seat = s
                 \/ \E b \in todo[h] : bookings[b].seat = s

(* The handler is taking the seat: from its look at the seat, or for a       *)
(* promotion its look at the waitlist, to the write that marks the seat.    *)
Takes(h, s) == job[h].pc \in TakePc /\ job[h].seat = s

(* A waitlist request concerns every seat of its flight. *)
Concerns(h, s) == \/ WorksOn(h, s)
                  \/ job[h].kind \in {"join", "leave"} /\ job[h].flight = FlightOf[s]

(* May a request of this kind start on these seats, given what is in flight? *)
Admits(kind, S) ==
    \A h \in Handler : (\E s \in S : Concerns(h, s)) => {kind, job[h].kind} \notin Exclusive

Starts(h, kind, S) ==
    /\ kind \in Ops
    /\ At(h, "idle")
    /\ Admits(kind, S)

(* The next statement of the same handler. *)
Goto(h, pc) == job' = [job EXCEPT ![h].pc = pc]

(* The handler returns or throws.  The cron job goes on with its list: its *)
(* try block is inside the loop.                                           *)
Finish(h) ==
    job' = [job EXCEPT ![h] =
        IF todo[h] = {} THEN NoJob ELSE [NoJob EXCEPT !.pc = "clean_next", !.kind = "cleanup"]]

(* The statement it awaits is rejected: nothing is written, nothing undone. *)
Rejected(h) == Finish(h) /\ UNCHANGED <<locks, store, waitlist, todo>>

(* No handler is working on the seat. *)
Quiet(s) == \A h \in Handler : ~ Concerns(h, s)
===============================================================================
