-------------------------------- MODULE Catalogue -------------------------------
(***************************************************************************)
(* The flights table and the seats that are made with it (FlightsService).  *)
(* A flight and all of its seats are one nested insert; a deletion cascades *)
(* over the seats.  All three writes are for administrators.                *)
(***************************************************************************)
EXTENDS Sessions

CONSTANT Rows   \* rows of a cabin (20 in the code)

ASSUME CatalogueAssumption == Rows \in Nat

VARIABLES
    schedule,   \* flight id -> its number, Nil where there is no such flight
    launched,   \* the last flight id handed out
    cabin       \* flight id -> rows of the seats table

flightTable == <<schedule, launched, cabin>>

Letters == {"A", "B", "C", "D", "E", "F"}

(* calculateSeatPrice: window, aisle, and whatever is left. *)
SeatPrice(letter) == IF letter \in {"A", "F"} THEN 5000
                     ELSE IF letter \in {"C", "D"} THEN 4000 ELSE 3000

SeatPlan == {[row |-> r, letter |-> l, price |-> SeatPrice(l)] :
                 r \in 1 .. Rows, l \in Letters}

CatalogueType ==
    /\ schedule \in [FlightId -> Number \cup {Nil}]
    /\ launched \in 0 .. MaxFlights
    /\ cabin \in [FlightId -> SUBSET SeatPlan]

CatalogueInit ==
    /\ schedule = [f \in FlightId |-> Nil]
    /\ launched = 0
    /\ cabin = [f \in FlightId |-> {}]

-------------------------------------------------------------------------------
(* findById, findByFlightNumber *)
Scheduled(f) == schedule[f] # Nil
InUse(n) == \E f \in FlightId : schedule[f] = n

(* One nested insert: the flight comes with all of its seats or not at all. *)
InsertFlight(n) ==
    /\ launched' = launched + 1
    /\ schedule' = [schedule EXCEPT ![launched + 1] = n]
    /\ cabin' = [cabin EXCEPT ![launched + 1] = SeatPlan]

CreateFlightCheck(h, n) ==
    /\ AsAdmin
    /\ ~ InUse(n)
    /\ Enter(h, "create_flight", 0, n)
    /\ UNCHANGED flightTable

CreateFlight(h) ==
    LET n == call[h].name
        allowed == ~ InUse(n) /\ launched < MaxFlights
    IN  /\ At(h, "create_flight")
        /\ \/ allowed /\ InsertFlight(n)
           \/ ~ allowed /\ UNCHANGED flightTable
        /\ Answer(h)

(* Nobody looks whether the new number is free. *)
UpdateFlightCheck(h, f, n) ==
    /\ AsAdmin
    /\ Scheduled(f)
    /\ Enter(h, "update_flight", f, n)
    /\ UNCHANGED flightTable

(* The unique column left out of the schema. *)
MutUpdateFlight(h) ==
    /\ At(h, "update_flight")
    /\ Scheduled(call[h].id)
    /\ schedule' = [schedule EXCEPT ![call[h].id] = call[h].name]
    /\ UNCHANGED <<launched, cabin>>
    /\ Answer(h)
UpdateFlight(h) ==
    LET f == call[h].id
        n == call[h].name
        allowed == Scheduled(f) /\ \A g \in FlightId : schedule[g] = n => g = f
    IN  /\ At(h, "update_flight")
        /\ \/ allowed /\ schedule' = [schedule EXCEPT ![f] = n]
           \/ ~ allowed /\ UNCHANGED schedule
        /\ UNCHANGED <<launched, cabin>>
        /\ Answer(h)

DeleteFlightCheck(h, f) ==
    /\ AsAdmin
    /\ Scheduled(f)
    /\ Enter(h, "delete_flight", f, Nil)
    /\ UNCHANGED flightTable

(* The seats left without onDelete: Cascade. *)
MutDeleteFlight(h) ==
    /\ At(h, "delete_flight")
    /\ schedule' = [schedule EXCEPT ![call[h].id] = Nil]
    /\ UNCHANGED <<launched, cabin>>
    /\ Answer(h)
DeleteFlight(h) ==
    /\ At(h, "delete_flight")
    /\ schedule' = [schedule EXCEPT ![call[h].id] = Nil]
    /\ cabin' = [cabin EXCEPT ![call[h].id] = {}]
    /\ UNCHANGED launched
    /\ Answer(h)

CatalogueRequest(h) ==
    \/ \E n \in Number : CreateFlightCheck(h, n)
    \/ \E f \in FlightId, n \in Number : UpdateFlightCheck(h, f, n)
    \/ \E f \in FlightId : DeleteFlightCheck(h, f)

CatalogueStep(h) == CreateFlight(h) \/ UpdateFlight(h) \/ DeleteFlight(h)
===============================================================================
