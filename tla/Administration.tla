----------------------------- MODULE Administration -----------------------------
(***************************************************************************)
(* The back office of AeroLock: accounts and the flight catalogue behind    *)
(* one server, one set of tokens and one set of requests in flight.         *)
(***************************************************************************)
EXTENDS Accounts, Catalogue, FiniteSets

adminVars == <<session, accountTable, flightTable>>

Init == SessionInit /\ AccountsInit /\ CatalogueInit

Next ==
    \/ \E h \in Client : AccountRequest(h) /\ UNCHANGED flightTable
    \/ \E h \in Client : AccountStep(h) /\ UNCHANGED flightTable
    \/ \E h \in Client : CatalogueRequest(h) /\ UNCHANGED accountTable
    \/ \E h \in Client : CatalogueStep(h) /\ UNCHANGED accountTable
    \/ (BootCheck \/ BootCreate) /\ UNCHANGED flightTable
    \/ (TokensAge \/ Restart) /\ UNCHANGED <<accountTable, flightTable>>

Clock == TokensAge /\ UNCHANGED <<accountTable, flightTable>>

(* Time passes; nothing else is owed. *)
Spec == Init /\ [][Next]_adminVars /\ WF_adminVars(Clock)

-------------------------------------------------------------------------------
TypeOK == SessionType /\ AccountsType /\ CatalogueType

(* Two requests that both found an address free never both get it, whether *)
(* they register or move there: register and updateUser only look.         *)
EmailUnique ==
    \A i, j \in AccountId : Known(i) /\ users[j].email = users[i].email => i = j

(* The same of flight numbers; updateFlight does not even look. *)
NumberUnique ==
    \A f, g \in FlightId : Scheduled(f) /\ schedule[g] = schedule[f] => f = g

(* A token is believed without a look at the account, and yet it never names *)
(* another role than the account has, nor another account's role.            *)
TokenRoleTrue ==
    \A t \in tokens : Known(t.sub) => t.role = users[t.sub].role

(* A flight is never seen without its cabin, nor a cabin without its flight: *)
(* two seats at each price in every row.                                     *)
CabinComplete ==
    \A f \in FlightId, price \in {3000, 4000, 5000} :
        Cardinality({s \in cabin[f] : s.price = price}) =
            IF Scheduled(f) THEN 2 * Rows ELSE 0

(* Refinement: ids of accounts and of flights live once. *)
Life(issued, present) == IF ~ issued THEN "unborn" ELSE IF present THEN "live" ELSE "gone"

AccountLife == [i \in AccountId |-> Life(i <= registered, Known(i))]
FlightLife == [f \in FlightId |-> Life(f <= launched, Scheduled(f))]

AccountIds == INSTANCE Registry WITH Id <- AccountId, life <- AccountLife
FlightIds == INSTANCE Registry WITH Id <- FlightId, life <- FlightLife

IdsLiveOnce == AccountIds!Spec /\ FlightIds!Spec

(* Once its account is deleted a token can only run out, also if a login was *)
(* under way: in the end nobody acts for an account that is gone.            *)
GhostTokensEnd ==
    \A i \in AccountId :
        [](i <= registered /\ ~ Known(i) => <>[](\A t \in tokens : t.sub # i))
===============================================================================
