--------------------------- MODULE RemovalInvariant ---------------------------
(***************************************************************************)
(* What stays true of the reservations while accounts and flights are       *)
(* deleted under the handlers: RInv of the tables, with no premise on the   *)
(* traffic, and GInv of the waitlist, under the premises of                 *)
(* WaitlistInvariant.  CoreInv is the part of IInv that survives.           *)
(***************************************************************************)
EXTENDS Removals, WaitlistInvariant

(* A handler at work on a seat remembers the flight the seat is of. *)
Placed ==
    \A h \in Handler : job[h].pc \in SeatPc =>
        job[h].seat \in Seat /\ job[h].flight = FlightOf[job[h].seat]

RInv == RemovalType /\ NoOrphans /\ BookingShape /\ Placed

-------------------------------------------------------------------------------
(* The account or the flight of a place has been deleted. *)
Gone(u, f) == u \notin accounts \/ f \notin flights

(* What a handler remembers of the waitlist: a row that is still this *)
(* passenger's or gone, and a row of its own that only a deletion can *)
(* have taken before the member is added.                             *)
Trail(h) ==
    /\ job[h].pc \in JoinPc => job[h].kind = "join"
    /\ job[h].pc \in LeavePc => job[h].kind = "leave"
    /\ job[h].pc \in JoinPc \cup LeavePc => job[h].flight \in Flight
    /\ job[h].pc \in RowPc =>
           /\ job[h].entry \in EntryId /\ job[h].entry <= issued
           /\ rows[job[h].entry] = NoRow \/ IsRowOf(job[h].entry, job[h].user, job[h].flight)
    /\ job[h].pc = "join_member" =>
           Listed(job[h].user, job[h].flight) \/ Gone(job[h].user, job[h].flight)

Trails == \A h \in Handler : Trail(h)

EntriesIssued == \A e \in EntryId : rows[e] # NoRow => e <= issued

(* A member without a row is about to be removed, or belongs to a deletion. *)
MemberOwed ==
    \A u \in User, f \in Flight : u \in zset[f] /\ ~ Listed(u, f) =>
        \/ Gone(u, f)
        \/ \E h \in Handler : job[h].pc \in MemberPc /\ Place(h, u, f)

GInv == Trails /\ EntriesIssued /\ JoinApart /\ MemberOwed
===============================================================================
