----------------------------- MODULE WaitlistStore -----------------------------
(***************************************************************************)
(* The waitlist, kept twice: rows of the PostgreSQL waitlist table          *)
(* (WaitlistRepository) and, per flight, the members of a Redis sorted set  *)
(* (WaitlistRedisService).  Each operator is one statement or one Redis     *)
(* command; nothing ties the two stores together.                           *)
(***************************************************************************)
EXTENDS Domain

CONSTANTS
    Clv,        \* the clvScore of each account, also its score in the sorted set
    Lex,        \* rank of the account's decimal id among all of them, as a string
    MaxEntries  \* waitlist ids that may be issued; an insert beyond it throws

ASSUME WaitlistAssumption ==
    /\ Clv \in [User -> Nat]
    /\ Lex \in [User -> Nat]
    /\ \A u, v \in User : Lex[u] = Lex[v] => u = v
    /\ MaxEntries \in Nat

VARIABLES
    rows,       \* entry id -> row of the table
    issued,     \* how many entry ids autoincrement has handed out
    zset        \* flight -> members of waitlist:{flight}

EntryId == 1 .. MaxEntries

Row == [user: User \cup {Nil}, flight: Flight \cup {Nil}]
NoRow == [user |-> Nil, flight |-> Nil]

WaitlistType ==
    /\ rows \in [EntryId -> Row]
    /\ issued \in 0 .. MaxEntries
    /\ zset \in [Flight -> SUBSET User]

WaitlistInit ==
    /\ rows = [e \in EntryId |-> NoRow]
    /\ issued = 0
    /\ zset = [f \in Flight |-> {}]

-------------------------------------------------------------------------------
(* exists: the row of u on flight f, if there is one. *)
IsRowOf(e, u, f) == rows[e] = [user |-> u, flight |-> f]
Listed(u, f) == \E e \in EntryId : IsRowOf(e, u, f)

(* The unique constraint on (flightId, userId) left out of the schema. *)
MutRowAllowedTwice(u, f) == issued < MaxEntries
(* create succeeds unless @@unique([flightId, userId]) forbids it. *)
RowAllowed(u, f) == issued < MaxEntries /\ ~ Listed(u, f)

(* create *)
InsertRow(u, f) ==
    /\ issued' = issued + 1
    /\ rows' = [rows EXCEPT ![issued + 1] = [user |-> u, flight |-> f]]

(* remove *)
DeleteRow(e) == rows' = [rows EXCEPT ![e] = NoRow]

(* A deletion that cascades over the rows E. *)
DeleteRows(E) == rows' = [e \in EntryId |-> IF e \in E THEN NoRow ELSE rows[e]]

(* zadd of a member with its score: a second one changes nothing. *)
AddMember(f, u) == zset' = [zset EXCEPT ![f] = @ \cup {u}]

(* zrem *)
RemoveMember(f, u) == zset' = [zset EXCEPT ![f] = @ \ {u}]

(* Order of ZREVRANGE: score, then member string, both descending. *)
Ahead(u, v) == \/ Clv[u] > Clv[v]
               \/ Clv[u] = Clv[v] /\ Lex[u] > Lex[v]

(* zrange in place of zrevrange: the least valued passenger first. *)
MutTopIsLast(f, u) == u \in zset[f] /\ \A v \in zset[f] \ {u} : Ahead(v, u)
(* getHighestPriorityUser: ZREVRANGE key 0 0. *)
Top(f, u) == u \in zset[f] /\ \A v \in zset[f] \ {u} : Ahead(u, v)
===============================================================================
