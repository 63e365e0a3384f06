-------------------------------- MODULE Sessions --------------------------------
(***************************************************************************)
(* The server process as the back office sees it: whether it is starting or *)
(* serving, the requests in flight, and the signed tokens in circulation.   *)
(* A token carries the account and the role it was issued for; the strategy *)
(* and the guard believe it until it expires and never look at the account. *)
(***************************************************************************)
EXTENDS Integers

CONSTANTS
    Client,         \* request slots
    MaxAccounts,    \* ids of the users table; an insert beyond them throws
    MaxFlights,     \* ids of the flights table, likewise
    Email,          \* e-mail addresses
    Number,         \* flight numbers
    TokenLife,      \* life of a token in ticks (3600 s in the code)
    Nil             \* null

ASSUME SessionsAssumption ==
    /\ MaxAccounts \in Nat
    /\ MaxFlights \in Nat
    /\ TokenLife \in Nat \ {0}
    /\ Nil \notin Email \cup Number

Role == {"ADMIN", "CUSTOMER"}

AccountId == 1 .. MaxAccounts
FlightId == 1 .. MaxFlights

VARIABLES
    server,     \* "check" and "create" are the admin bootstrap at start-up
    call,       \* request slot -> where it is and what it remembers
    tokens      \* the tokens that have not expired

session == <<server, call, tokens>>

ServerState == {"check", "create", "up", "down"}

Pc == {"idle", "register", "sign", "update_user", "delete_user",
       "create_flight", "update_flight", "delete_flight"}

Call == [pc: Pc, id: Nat, name: Email \cup Number \cup {Nil}, role: Role \cup {Nil}]

Idle == [pc |-> "idle", id |-> 0, name |-> Nil, role |-> Nil]

Token == [sub: AccountId, role: Role, left: 1 .. TokenLife]

SessionType ==
    /\ server \in ServerState
    /\ call \in [Client -> Call]
    /\ tokens \in SUBSET Token

(* A process that has just been started, with BOOTSTRAP_ADMIN set or not. *)
Started(state) == state \in {"check", "up"}

SessionInit ==
    /\ Started(server)
    /\ call = [h \in Client |-> Idle]
    /\ tokens = {}

-------------------------------------------------------------------------------
At(h, pc) == call[h].pc = pc

(* A request that has passed the checks and now awaits its write. *)
Enter(h, pc, id, name) ==
    /\ server = "up"
    /\ At(h, "idle")
    /\ call' = [call EXCEPT ![h] = [pc |-> pc, id |-> id, name |-> name, role |-> Nil]]
    /\ UNCHANGED <<server, tokens>>

(* The request is answered, with a result or with an error. *)
Answer(h) ==
    /\ call' = [call EXCEPT ![h] = Idle]
    /\ UNCHANGED <<server, tokens>>

(* JwtAuthGuard asks for a token that has not expired, RolesGuard for the *)
(* role that the token names.                                             *)
SignedIn == tokens # {}
AsAdmin == \E t \in tokens : t.role = "ADMIN"

(* What goes into a token is the row as it was read or written. *)
Signing(h, id, role) ==
    /\ call' = [call EXCEPT ![h] = [pc |-> "sign", id |-> id, name |-> Nil, role |-> role]]
    /\ UNCHANGED <<server, tokens>>

Sign(h) ==
    /\ At(h, "sign")
    /\ tokens' = tokens \cup {[sub |-> call[h].id, role |-> call[h].role, left |-> TokenLife]}
    /\ call' = [call EXCEPT ![h] = Idle]
    /\ UNCHANGED server

(* Tokens that do not expire. *)
MutTokensAge == UNCHANGED session
(* Tokens that are still accepted in the tick after their last. *)
MutTokensLinger ==
    /\ tokens' = {[t EXCEPT !.left = @ - 1] : t \in {t \in tokens : t.left > 0}}
    /\ UNCHANGED <<server, call>>
(* Time passes for the tokens. *)
TokensAge ==
    /\ tokens' = {[t EXCEPT !.left = @ - 1] : t \in {t \in tokens : t.left > 1}}
    /\ UNCHANGED <<server, call>>

(* The process dies and is started again; its tokens stay valid. *)
Restart ==
    /\ Started(server')
    /\ call' = [h \in Client |-> Idle]
    /\ UNCHANGED tokens
===============================================================================
