-------------------------- MODULE WaitlistInvariant ---------------------------
(***************************************************************************)
(* The inductive invariant behind the waitlist of Reservations, when joins  *)
(* of a flight overlap neither leaves nor promotions on it: what a handler  *)
(* remembers of the waitlist, and who is about to mend a difference between *)
(* its two copies.  Every flight has a seat: FlightsService creates the two *)
(* together.                                                                *)
(***************************************************************************)
EXTENDS ReservationInvariant

WaitKinds == {"leave", "cancel", "cleanup"}

WaitlistPremises ==
    /\ Premises
    /\ \A k \in WaitKinds : {"join", k} \in Exclusive
    /\ \A f \in Flight : SeatsOf(f) # {}

RowPc    == {"leave_row", "assign_confirmed", "assign_acquire", "assign_create",
             "assign_seat", "assign_row"}
ChosenPc == {"assign_entry", "assign_confirmed", "assign_acquire", "assign_create"}
MemberPc == {"leave_member", "assign_member"}

(* Whose place a handler is working on. *)
Place(h, u, f) == job[h].user = u /\ job[h].flight = f

(* What a handler remembers of the waitlist: who it is about, a row that is *)
(* still this passenger's or gone, a passenger whom nobody listed outranks, *)
(* and the hold it has just made for that passenger.                        *)
Memory(h) ==
    /\ job[h].pc \in JoinPc =>
           job[h].kind = "join" /\ job[h].user \in User /\ job[h].flight \in Flight
    /\ job[h].pc \in LeavePc =>
           job[h].kind = "leave" /\ job[h].user \in User /\ job[h].flight \in Flight /\ h \in Proc
    /\ job[h].pc \in AssignPc \ {"assign_top"} => job[h].user \in User
    /\ job[h].pc \in RowPc =>
           /\ job[h].entry \in EntryId /\ job[h].entry <= issued
           /\ rows[job[h].entry] = NoRow \/ IsRowOf(job[h].entry, job[h].user, job[h].flight)
    /\ job[h].pc \in ChosenPc =>
           \A v \in User : Listed(v, job[h].flight) => Clv[job[h].user] >= Clv[v]
    /\ job[h].pc = "assign_seat" =>
           /\ job[h].booking \in BookingId
           /\ bookings[job[h].booking].status # "NONE"
           /\ bookings[job[h].booking].user = job[h].user
    /\ job[h].pc = "join_member" => Listed(job[h].user, job[h].flight)
    /\ job[h].pc \in MemberPc => ~ Listed(job[h].user, job[h].flight)

Memories == \A h \in Handler : Memory(h)

(* Rows come with an id that has been issued. *)
RowsIssued ==
    \A e \in EntryId : rows[e] # NoRow =>
        e <= issued /\ rows[e].user \in User /\ rows[e].flight \in Flight

(* Admission keeps joins apart from whatever removes a place. *)
JoinApart ==
    \A g, h \in Handler, s \in Seat :
        job[h].kind = "join" /\ job[h].flight = FlightOf[s] /\ Concerns(g, s) =>
            job[g].kind \notin WaitKinds

(* Where the copies differ a handler is about to make them agree. *)
MemberMissing ==
    \A u \in User, f \in Flight : Listed(u, f) /\ u \notin zset[f] =>
        \E h \in Handler : job[h].pc = "join_member" /\ Place(h, u, f)

MemberLeft ==
    \A u \in User, f \in Flight : u \in zset[f] /\ ~ Listed(u, f) =>
        \E h \in Handler : job[h].pc \in MemberPc /\ Place(h, u, f)

QInv == OneRowEach /\ Memories /\ RowsIssued /\ JoinApart /\ MemberMissing /\ MemberLeft
===============================================================================
