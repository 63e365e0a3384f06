---------------------------- MODULE WaitlistService ----------------------------
(***************************************************************************)
(* WaitlistService: join and leave the waitlist of a flight.  Both write    *)
(* PostgreSQL first and Redis afterwards, with no way back in between.      *)
(* joinWaitlist does not look at the seats: a flight need not be full.      *)
(***************************************************************************)
EXTENDS Handlers

SeatsOf(f) == {s \in Seat : FlightOf[s] = f}

JoinCheck(h, u, f) ==
    /\ Starts(h, "join", SeatsOf(f))
    /\ ~ Listed(u, f)
    /\ job' = [job EXCEPT ![h] = [NoJob EXCEPT !.pc = "join_confirmed", !.kind = "join",
                                  !.user = u, !.flight = f]]
    /\ UNCHANGED <<locks, store, waitlist, todo>>

JoinConfirmed(h) ==
    /\ At(h, "join_confirmed")
    /\ \/ ConfirmedOn(job[h].user, job[h].flight) /\ Finish(h)
       \/ ~ ConfirmedOn(job[h].user, job[h].flight) /\ Goto(h, "join_create")
    /\ UNCHANGED <<locks, store, waitlist, todo>>

(* The insert throws when another request of the same passenger was faster. *)
JoinCreate(h) ==
    /\ At(h, "join_create")
    /\ \/ /\ RowAllowed(job[h].user, job[h].flight)
          /\ InsertRow(job[h].user, job[h].flight)
          /\ Goto(h, "join_member")
       \/ /\ ~ RowAllowed(job[h].user, job[h].flight)
          /\ Finish(h)
          /\ UNCHANGED <<rows, issued>>
    /\ UNCHANGED <<locks, store, zset, todo>>

JoinMember(h) ==
    /\ At(h, "join_member")
    /\ AddMember(job[h].flight, job[h].user)
    /\ Finish(h)
    /\ UNCHANGED <<locks, store, rows, issued, todo>>

-------------------------------------------------------------------------------
LeaveCheck(h, e) ==
    /\ rows[e] # NoRow
    /\ Starts(h, "leave", SeatsOf(rows[e].flight))
    /\ job' = [job EXCEPT ![h] = [NoJob EXCEPT !.pc = "leave_row", !.kind = "leave",
                                  !.user = rows[e].user, !.flight = rows[e].flight,
                                  !.entry = e]]
    /\ UNCHANGED <<locks, store, waitlist, todo>>

LeaveRow(h) ==
    /\ At(h, "leave_row")
    /\ \/ /\ rows[job[h].entry] # NoRow
          /\ DeleteRow(job[h].entry)
          /\ Goto(h, "leave_member")
       \/ /\ rows[job[h].entry] = NoRow
          /\ Finish(h)
          /\ UNCHANGED rows
    /\ UNCHANGED <<locks, store, issued, zset, todo>>

(* The leave that forgets the sorted set. *)
MutLeaveMemberKept(h) ==
    /\ At(h, "leave_member")
    /\ Finish(h)
    /\ UNCHANGED <<locks, store, waitlist, todo>>
LeaveMember(h) ==
    /\ At(h, "leave_member")
    /\ RemoveMember(job[h].flight, job[h].user)
    /\ Finish(h)
    /\ UNCHANGED <<locks, store, rows, issued, todo>>

WaitlistRequest(h) ==
    \/ \E u \in User, f \in Flight : JoinCheck(h, u, f)
    \/ \E e \in EntryId : LeaveCheck(h, e)

WaitlistStep(h) ==
    \/ JoinConfirmed(h)
    \/ JoinCreate(h)
    \/ JoinMember(h)
    \/ LeaveRow(h)
    \/ LeaveMember(h)
===============================================================================
