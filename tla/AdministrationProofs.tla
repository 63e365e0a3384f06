-------------------------- MODULE AdministrationProofs --------------------------
(***************************************************************************)
(* The back office for any number of requests, accounts and flights.        *)
(***************************************************************************)
EXTENDS Administration, FiniteSetTheorems, TLAPS

(* A request remembers what it has looked at: an account or a flight that    *)
(* has existed, an address or a number that was asked for.                   *)
CallShape ==
    \A h \in Client :
        /\ call[h].pc \in {"sign", "update_user", "delete_user"} => call[h].id \in 1 .. registered
        /\ call[h].pc = "sign" => call[h].role \in Role
        /\ call[h].pc \in {"register", "update_user"} => call[h].name \in Email
        /\ call[h].pc \in {"create_flight", "update_flight"} => call[h].name \in Number
        /\ call[h].pc \in {"update_flight", "delete_flight"} => call[h].id \in 1 .. launched

(* A row has an id that has been handed out, and all of its columns. *)
RowShape ==
    /\ \A i \in AccountId : Known(i) =>
           i <= registered /\ users[i].email \in Email /\ users[i].role \in Role
    /\ \A f \in FlightId : Scheduled(f) => f <= launched /\ schedule[f] \in Number

(* A token about to be signed tells the truth, and no token names an account *)
(* that has not been created.                                                *)
SignTrue ==
    \A h \in Client : At(h, "sign") /\ Known(call[h].id) => call[h].role = users[call[h].id].role

TokensOld == \A t \in tokens : t.sub \in 1 .. registered

Inv == /\ TypeOK
       /\ CallShape
       /\ RowShape
       /\ SignTrue
       /\ TokensOld
       /\ EmailUnique
       /\ NumberUnique
       /\ TokenRoleTrue

-------------------------------------------------------------------------------
(* Every part of the invariant is about the requests, the tokens and the tables. *)
LEMMA Frame ==
  ASSUME Inv, UNCHANGED <<call, tokens, accountTable, flightTable>>, server' \in ServerState
  PROVE  Inv'
  BY DEF Inv, TypeOK, SessionType, AccountsType, CatalogueType, CallShape, RowShape, SignTrue,
         TokensOld, EmailUnique, NumberUnique, TokenRoleTrue, Known, Scheduled, At,
         accountTable, flightTable

(* A request that has passed its checks: it remembers what CallShape says. *)
LEMMA Entered ==
  ASSUME Inv, NEW h \in Client, NEW pc \in Pc \ {"idle", "sign"}, NEW id \in Nat,
         NEW name \in Email \cup Number \cup {Nil},
         Enter(h, pc, id, name), UNCHANGED <<accountTable, flightTable>>,
         pc \in {"update_user", "delete_user"} => id \in 1 .. registered,
         pc \in {"register", "update_user"} => name \in Email,
         pc \in {"create_flight", "update_flight"} => name \in Number,
         pc \in {"update_flight", "delete_flight"} => id \in 1 .. launched
  PROVE  Inv'
<1>1. call' = [call EXCEPT ![h] = [pc |-> pc, id |-> id, name |-> name, role |-> Nil]]
  BY DEF Enter
<1>2. call \in [Client -> Call]
  BY DEF Inv, TypeOK, SessionType
<1>3. call'[h] = [pc |-> pc, id |-> id, name |-> name, role |-> Nil]
  BY <1>1, <1>2
<1>4. \A k \in Client : k # h => call'[k] = call[k]
  BY <1>1, <1>2
<1>5. call' \in [Client -> Call]
  BY <1>1, <1>2 DEF Call
<1>6. UNCHANGED <<server, tokens, users, registered, schedule, launched, cabin>>
  BY DEF Enter, accountTable, flightTable
<1>7. TypeOK'
  BY <1>5, <1>6 DEF Inv, TypeOK, SessionType, AccountsType, CatalogueType
<1>8. CallShape'
  BY <1>3, <1>4, <1>6 DEF Inv, CallShape
<1>9. SignTrue'
  BY <1>3, <1>4, <1>6 DEF Inv, SignTrue, At, Known
<1>10. RowShape' /\ TokensOld' /\ EmailUnique' /\ NumberUnique' /\ TokenRoleTrue'
  BY <1>6 DEF Inv, RowShape, TokensOld, EmailUnique, NumberUnique, TokenRoleTrue, Known, Scheduled
<1> QED
  BY <1>7, <1>8, <1>9, <1>10 DEF Inv

(* A request that is answered leaves the others and the tokens as they were. *)
LEMMA Answered ==
  ASSUME Inv, NEW h \in Client, Answer(h),
         registered' \in Nat, registered <= registered', launched' \in Nat, launched <= launched'
  PROVE  /\ SessionType' /\ CallShape' /\ TokensOld'
         /\ tokens' = tokens
         /\ \A k \in Client : At(k, "sign")' => call'[k] = call[k] /\ At(k, "sign")
<1>1. call \in [Client -> Call]
  BY DEF Inv, TypeOK, SessionType
<1>2. call'[h] = Idle /\ \A k \in Client : k # h => call'[k] = call[k]
  BY <1>1 DEF Answer
<1>3. call' \in [Client -> Call]
  BY <1>1 DEF Answer, Idle, Call, Pc
<1>4. registered \in Nat /\ launched \in Nat
  BY SessionsAssumption DEF Inv, TypeOK, AccountsType, CatalogueType
<1>5. CallShape'
  BY <1>2, <1>4 DEF Inv, CallShape, Idle
<1>6. SessionType' /\ TokensOld' /\ tokens' = tokens
  BY <1>3, <1>4 DEF Answer, Inv, TypeOK, SessionType, TokensOld
<1>7. \A k \in Client : At(k, "sign")' => call'[k] = call[k] /\ At(k, "sign")
  BY <1>2 DEF At, Idle
<1> QED
  BY <1>5, <1>6, <1>7

(* A request that is answered with an error, or that wrote nothing. *)
LEMMA AnsweredSame ==
  ASSUME Inv, NEW h \in Client, Answer(h), UNCHANGED <<accountTable, flightTable>>
  PROVE  Inv'
<1>1. UNCHANGED <<users, registered, schedule, launched, cabin>>
  BY DEF accountTable, flightTable
<1>2. registered \in Nat /\ launched \in Nat
  BY SessionsAssumption DEF Inv, TypeOK, AccountsType, CatalogueType
<1>3. /\ SessionType' /\ CallShape' /\ TokensOld'
      /\ tokens' = tokens
      /\ \A k \in Client : At(k, "sign")' => call'[k] = call[k] /\ At(k, "sign")
  BY <1>1, <1>2, Answered
<1>4. TypeOK'
  BY <1>1, <1>3 DEF Inv, TypeOK, AccountsType, CatalogueType
<1>5. SignTrue'
  BY <1>1, <1>3 DEF Inv, SignTrue, At, Known
<1>6. RowShape' /\ EmailUnique' /\ NumberUnique' /\ TokenRoleTrue'
  BY <1>1, <1>3 DEF Inv, RowShape, EmailUnique, NumberUnique, TokenRoleTrue, Known, Scheduled
<1> QED
  BY <1>3, <1>4, <1>5, <1>6 DEF Inv

-------------------------------------------------------------------------------
(* Accounts *)
LEMMA KnownIsOld ==
  ASSUME Inv, NEW i \in AccountId, Known(i)
  PROVE  i \in 1 .. registered /\ i \in Nat /\ users[i].role \in Role
  BY DEF Inv, RowShape, AccountId

LEMMA TakenMeans ==
  ASSUME Inv, NEW i \in AccountId, NEW e \in Email, HasEmail(i, e)
  PROVE  Known(i)
  BY SessionsAssumption DEF HasEmail, Known, NoAccount

(* An insert with a free address, by a registration or by the bootstrap. *)
LEMMA Inserted ==
  ASSUME Inv, NEW e \in Email, NEW r \in Role, Insertable(e), InsertAccount(e, r),
         UNCHANGED flightTable
  PROVE  /\ AccountsType' /\ CatalogueType' /\ RowShape' /\ EmailUnique' /\ NumberUnique'
         /\ registered + 1 \in AccountId /\ registered \in Nat /\ registered' = registered + 1
         /\ users'[registered + 1] = [email |-> e, role |-> r]
         /\ \A i \in AccountId : i # registered + 1 => users'[i] = users[i]
<1>1. /\ registered \in Nat /\ registered + 1 \in AccountId /\ registered' = registered + 1
      /\ users \in [AccountId -> Account]
  BY SessionsAssumption DEF Inv, TypeOK, AccountsType, Insertable, InsertAccount, AccountId
<1>2. users' = [users EXCEPT ![registered + 1] = [email |-> e, role |-> r]]
  BY DEF InsertAccount
<1>3. /\ users'[registered + 1] = [email |-> e, role |-> r]
      /\ \A i \in AccountId : i # registered + 1 => users'[i] = users[i]
  BY <1>1, <1>2
<1>4. AccountsType'
  BY <1>1, <1>2, SessionsAssumption DEF AccountsType, Account, AccountId
<1>5. UNCHANGED <<schedule, launched, cabin>>
  BY DEF flightTable
<1>6. CatalogueType' /\ NumberUnique'
  BY <1>5 DEF Inv, TypeOK, CatalogueType, NumberUnique, Scheduled
<1>7. RowShape'
  <2>1. ASSUME NEW i \in AccountId, Known(i)'
        PROVE  i <= registered' /\ users'[i].email \in Email /\ users'[i].role \in Role
    <3>1. CASE i = registered + 1
      BY <3>1, <1>1, <1>3
    <3>2. CASE i # registered + 1
      BY <3>2, <2>1, <1>1, <1>3 DEF Inv, RowShape, Known, AccountId
    <3> QED
      BY <3>1, <3>2
  <2>2. \A f \in FlightId : Scheduled(f)' => f <= launched' /\ schedule'[f] \in Number
    BY <1>5 DEF Inv, RowShape, Scheduled
  <2> QED
    BY <2>1, <2>2 DEF RowShape
<1>8. EmailUnique'
  <2> SUFFICES ASSUME NEW i \in AccountId, NEW j \in AccountId, Known(i)',
                      users'[j].email = users'[i].email
               PROVE  i = j
    BY DEF EmailUnique
  <2>1. \A k \in AccountId : users[k].email # e
    BY DEF Insertable, Taken, HasEmail
  <2>2. CASE i = registered + 1 \/ j = registered + 1
    BY <2>1, <2>2, <1>1, <1>3
  <2>3. CASE i # registered + 1 /\ j # registered + 1
    BY <2>3, <1>3 DEF Inv, EmailUnique, Known
  <2> QED
    BY <2>2, <2>3
<1> QED
  BY <1>1, <1>3, <1>4, <1>6, <1>7, <1>8

LEMMA CreatePreserves ==
  ASSUME Inv, NEW h \in Client, RegisterCreate(h), UNCHANGED flightTable
  PROVE  Inv'
<1>1. CASE /\ Insertable(call[h].name)
           /\ InsertAccount(call[h].name, "CUSTOMER")
           /\ Signing(h, registered + 1, "CUSTOMER")
  <2> DEFINE e == call[h].name
  <2>1. e \in Email
    BY DEF RegisterCreate, At, Inv, CallShape
  <2>2. /\ AccountsType' /\ CatalogueType' /\ RowShape' /\ EmailUnique' /\ NumberUnique'
        /\ registered + 1 \in AccountId /\ registered \in Nat /\ registered' = registered + 1
        /\ users'[registered + 1] = [email |-> e, role |-> "CUSTOMER"]
        /\ \A i \in AccountId : i # registered + 1 => users'[i] = users[i]
    BY <1>1, <2>1, Inserted DEF Role
  <2>3. call \in [Client -> Call]
    BY DEF Inv, TypeOK, SessionType
  <2>4. call' = [call EXCEPT ![h] = [pc |-> "sign", id |-> registered + 1, name |-> Nil, role |-> "CUSTOMER"]]
    BY <1>1 DEF Signing
  <2>5. call'[h] = [pc |-> "sign", id |-> registered + 1, name |-> Nil, role |-> "CUSTOMER"]
    BY <2>3, <2>4
  <2>6. \A k \in Client : k # h => call'[k] = call[k]
    BY <2>3, <2>4
  <2>7. call' \in [Client -> Call]
    BY <2>2, <2>3, <2>4 DEF Call, Pc, Role
  <2>8. TypeOK'
    BY <2>2, <2>7, <1>1 DEF Signing, Inv, TypeOK, SessionType
  <2>9. launched' = launched
    BY DEF flightTable
  <2>10. CallShape'
    BY <2>2, <2>5, <2>6, <2>9 DEF Inv, CallShape, Role
  <2>11. \A i \in 1 .. registered : i \in AccountId /\ users'[i] = users[i]
    BY <2>2, SessionsAssumption DEF AccountId
  <2>12. SignTrue'
    <3> SUFFICES ASSUME NEW k \in Client, At(k, "sign")', Known(call[k].id)'
                 PROVE  call'[k].role = users'[call'[k].id].role
      BY DEF SignTrue
    <3>1. CASE k = h
      BY <3>1, <2>2, <2>5
    <3>2. CASE k # h
      BY <3>2, <2>6, <2>11 DEF Inv, SignTrue, CallShape, At, Known
    <3> QED
      BY <3>1, <3>2
  <2>13. tokens' = tokens
    BY <1>1 DEF Signing
  <2>14. TokensOld' /\ TokenRoleTrue'
    BY <2>2, <2>11, <2>13 DEF Inv, TokensOld, TokenRoleTrue, Known
  <2> QED
    BY <2>2, <2>8, <2>10, <2>12, <2>14 DEF Inv
<1>2. CASE Answer(h) /\ UNCHANGED accountTable
  BY <1>2, AnsweredSame
<1> QED
  BY <1>1, <1>2 DEF RegisterCreate

LEMMA LoginPreserves ==
  ASSUME Inv, NEW h \in Client, NEW i \in AccountId, Login(h, i), UNCHANGED flightTable
  PROVE  Inv'
<1>1. /\ call' = [call EXCEPT ![h] = [pc |-> "sign", id |-> i, name |-> Nil, role |-> users[i].role]]
      /\ call \in [Client -> Call]
      /\ UNCHANGED <<server, tokens, users, registered, schedule, launched, cabin>>
  BY DEF Login, Signing, Inv, TypeOK, SessionType, accountTable, flightTable
<1>2. i \in 1 .. registered /\ i \in Nat /\ users[i].role \in Role
  BY KnownIsOld DEF Login
<1>3. call' \in [Client -> Call]
  BY <1>1, <1>2 DEF Call, Pc
<1>4. /\ call'[h] = [pc |-> "sign", id |-> i, name |-> Nil, role |-> users[i].role]
      /\ \A k \in Client : k # h => call'[k] = call[k]
  BY <1>1
<1>5. TypeOK'
  BY <1>1, <1>3 DEF Inv, TypeOK, SessionType, AccountsType, CatalogueType
<1>6. CallShape'
  BY <1>1, <1>2, <1>4 DEF Inv, CallShape
<1>7. SignTrue'
  BY <1>1, <1>4 DEF Inv, SignTrue, At, Known
<1>8. RowShape' /\ TokensOld' /\ EmailUnique' /\ NumberUnique' /\ TokenRoleTrue'
  BY <1>1 DEF Inv, RowShape, TokensOld, EmailUnique, NumberUnique, TokenRoleTrue, Known, Scheduled
<1> QED
  BY <1>5, <1>6, <1>7, <1>8 DEF Inv

LEMMA SignPreserves ==
  ASSUME Inv, NEW h \in Client, SignToken(h), UNCHANGED flightTable
  PROVE  Inv'
<1> DEFINE t == [sub |-> call[h].id, role |-> call[h].role, left |-> TokenLife]
<1>1. /\ call' = [call EXCEPT ![h] = Idle] /\ call \in [Client -> Call]
      /\ tokens' = tokens \cup {t}
      /\ UNCHANGED <<server, users, registered, schedule, launched, cabin>>
  BY DEF SignToken, Sign, Inv, TypeOK, SessionType, accountTable, flightTable
<1>2. call'[h] = Idle /\ \A k \in Client : k # h => call'[k] = call[k]
  BY <1>1
<1>3. registered \in 0 .. MaxAccounts
  BY DEF Inv, TypeOK, AccountsType
<1>4. t.sub \in 1 .. registered /\ t.role \in Role
  BY DEF SignToken, Sign, At, Inv, CallShape
<1>5. t \in Token
  BY <1>3, <1>4, SessionsAssumption DEF Token, AccountId
<1>6. call' \in [Client -> Call]
  BY <1>1 DEF Idle, Call, Pc
<1>7. TypeOK'
  BY <1>1, <1>5, <1>6 DEF Inv, TypeOK, SessionType, AccountsType, CatalogueType
<1>8. CallShape' /\ SignTrue'
  BY <1>1, <1>2 DEF Inv, CallShape, SignTrue, Idle, At, Known
<1>9. TokensOld'
  BY <1>1, <1>4 DEF Inv, TokensOld
<1>10. TokenRoleTrue'
  BY <1>1 DEF SignToken, Sign, Inv, SignTrue, TokenRoleTrue, Known
<1>11. RowShape' /\ EmailUnique' /\ NumberUnique'
  BY <1>1 DEF Inv, RowShape, EmailUnique, NumberUnique, Known, Scheduled
<1> QED
  BY <1>7, <1>8, <1>9, <1>10, <1>11 DEF Inv

(* A row that is rewritten or deleted keeps its role or is gone. *)
LEMMA Rewritten ==
  ASSUME Inv, NEW h \in Client, Answer(h), NEW i \in 1 .. registered, NEW row \in Account,
         users' = [users EXCEPT ![i] = row], UNCHANGED registered, UNCHANGED flightTable,
         \/ row = NoAccount
         \/ /\ Known(i) /\ row.role = users[i].role /\ row.email \in Email
            /\ \A j \in AccountId : HasEmail(j, row.email) => j = i
  PROVE  Inv'
<1>1. /\ users \in [AccountId -> Account] /\ registered \in Nat /\ launched \in Nat
      /\ i \in AccountId
      /\ UNCHANGED <<schedule, launched, cabin>>
  BY SessionsAssumption DEF Inv, TypeOK, AccountsType, CatalogueType, flightTable, AccountId
<1>2. users'[i] = row /\ \A j \in AccountId : j # i => users'[j] = users[j]
  BY <1>1
<1>3. /\ SessionType' /\ CallShape' /\ TokensOld'
      /\ tokens' = tokens
      /\ \A k \in Client : At(k, "sign")' => call'[k] = call[k] /\ At(k, "sign")
  BY <1>1, Answered
<1>4. AccountsType' /\ CatalogueType'
  BY <1>1 DEF Inv, TypeOK, AccountsType, CatalogueType
<1>5. RowShape'
  BY <1>1, <1>2 DEF Inv, RowShape, Known, Scheduled
<1>6. \A j \in AccountId : Known(j)' => Known(j) /\ users'[j].role = users[j].role
  BY <1>2 DEF Known
<1>7. SignTrue' /\ TokenRoleTrue'
  <2>1. \A k \in Client : call[k].pc = "sign" => call[k].id \in AccountId
    BY SessionsAssumption DEF Inv, TypeOK, AccountsType, CallShape, AccountId
  <2>2. SignTrue'
    BY <1>3, <1>6, <2>1 DEF Inv, SignTrue, At
  <2>3. \A t \in tokens : t.sub \in AccountId
    BY DEF Inv, TypeOK, SessionType, Token
  <2> QED
    BY <1>3, <1>6, <2>2, <2>3 DEF Inv, TokenRoleTrue
<1>8. EmailUnique'
  <2> SUFFICES ASSUME NEW j \in AccountId, NEW k \in AccountId, Known(j)',
                      users'[k].email = users'[j].email
               PROVE  j = k
    BY DEF EmailUnique
  <2>1. CASE j = i /\ k # i
    BY <2>1, <1>2 DEF Known, HasEmail
  <2>2. CASE k = i /\ j # i
    <3>1. Known(j) /\ users[j].email \in Email
      BY <2>2, <1>2 DEF Inv, RowShape, Known
    <3>2. row # NoAccount
      BY <2>2, <3>1, <1>2, SessionsAssumption DEF NoAccount
    <3> QED
      BY <2>2, <3>2, <1>2 DEF HasEmail
  <2>3. CASE j # i /\ k # i
    BY <2>3, <1>2 DEF Inv, EmailUnique, Known
  <2> QED
    BY <2>1, <2>2, <2>3
<1>9. NumberUnique'
  BY <1>1 DEF Inv, NumberUnique, Scheduled
<1> QED
  BY <1>3, <1>4, <1>5, <1>7, <1>8, <1>9 DEF Inv, TypeOK

LEMMA UpdatePreserves ==
  ASSUME Inv, NEW h \in Client, UpdateUser(h), UNCHANGED flightTable
  PROVE  Inv'
<1> DEFINE i == call[h].id
           e == call[h].name
<1>1. i \in 1 .. registered /\ e \in Email /\ i \in AccountId /\ users \in [AccountId -> Account]
  BY SessionsAssumption DEF UpdateUser, At, Inv, CallShape, TypeOK, AccountsType, AccountId
<1>2. CASE UNCHANGED users
  BY <1>2, AnsweredSame DEF UpdateUser, accountTable
<1>3. CASE /\ Known(i) /\ \A j \in AccountId : HasEmail(j, e) => j = i
           /\ users' = [users EXCEPT ![i].email = e]
  <2> DEFINE row == [email |-> e, role |-> users[i].role]
  <2>1. users[i] = [email |-> users[i].email, role |-> users[i].role] /\ row \in Account
    BY <1>1 DEF Account
  <2>2. users' = [users EXCEPT ![i] = row]
    <3>1. users[i] \in Account
      BY <1>1
    <3>2. [users[i] EXCEPT !.email = e] = row
      BY <3>1 DEF Account
    <3>3. users' = [users EXCEPT ![i] = [users[i] EXCEPT !.email = e]]
      BY <1>1, <1>3
    <3> QED
      BY <3>2, <3>3
  <2>3. row.role = users[i].role /\ row.email = e
    OBVIOUS
  <2>4. Answer(h) /\ UNCHANGED registered
    BY DEF UpdateUser
  <2>5. \A j \in AccountId : HasEmail(j, row.email) => j = i
    BY <1>3, <2>3
  <2>6. Known(i) /\ row.role = users[i].role /\ row.email \in Email /\ row \in Account
    BY <1>1, <1>3, <2>1, <2>3
  <2> HIDE DEF row, i
  <2> QED
    BY <1>1, <2>2, <2>4, <2>5, <2>6, Rewritten
<1> QED
  BY <1>2, <1>3 DEF UpdateUser

LEMMA DeletePreserves ==
  ASSUME Inv, NEW h \in Client, DeleteUser(h), UNCHANGED flightTable
  PROVE  Inv'
<1>1. call[h].id \in 1 .. registered
  BY DEF DeleteUser, At, Inv, CallShape
<1>2. NoAccount \in Account
  BY DEF NoAccount, Account
<1> QED
  BY <1>1, <1>2, Rewritten DEF DeleteUser

LEMMA BootPreserves ==
  ASSUME Inv, BootCheck \/ BootCreate, UNCHANGED flightTable
  PROVE  Inv'
<1>1. CASE BootCheck
  BY <1>1, Frame DEF BootCheck, ServerState
<1>2. CASE BootCreate /\ UNCHANGED accountTable
  BY <1>2, Frame DEF BootCreate, ServerState
<1>3. CASE /\ Insertable(AdminEmail) /\ InsertAccount(AdminEmail, "ADMIN")
           /\ server' = "up" /\ UNCHANGED <<call, tokens>>
  <2>1. /\ AccountsType' /\ CatalogueType' /\ RowShape' /\ EmailUnique' /\ NumberUnique'
        /\ registered + 1 \in AccountId /\ registered \in Nat /\ registered' = registered + 1
        /\ \A i \in AccountId : i # registered + 1 => users'[i] = users[i]
    BY <1>3, Inserted, AccountsAssumption DEF Role
  <2>2. SessionType'
    BY <1>3 DEF Inv, TypeOK, SessionType, ServerState
  <2>3. launched' = launched
    BY DEF flightTable
  <2>4. CallShape' /\ TokensOld'
    BY <1>3, <2>1, <2>3 DEF Inv, CallShape, TokensOld
  <2>5. \A i \in 1 .. registered : i \in AccountId /\ users'[i] = users[i]
    BY <2>1, SessionsAssumption DEF AccountId
  <2>6. SignTrue'
    BY <1>3, <2>5 DEF Inv, SignTrue, CallShape, At, Known
  <2>7. TokenRoleTrue'
    BY <1>3, <2>5 DEF Inv, TokensOld, TokenRoleTrue, Known
  <2> QED
    BY <2>1, <2>2, <2>4, <2>6, <2>7 DEF Inv, TypeOK
<1> QED
  BY <1>1, <1>2, <1>3 DEF BootCreate

-------------------------------------------------------------------------------
(* The catalogue *)
LEMMA ScheduleIsOld ==
  ASSUME Inv, NEW f \in FlightId, Scheduled(f)
  PROVE  f \in 1 .. launched /\ f \in Nat
  BY DEF Inv, RowShape, FlightId

(* A write of the catalogue: the accounts and the tokens are not concerned. *)
LEMMA CatalogueWritten ==
  ASSUME Inv, NEW h \in Client, Answer(h), UNCHANGED accountTable, CatalogueType',
         launched <= launched',
         \A f \in FlightId : Scheduled(f)' => f <= launched' /\ schedule'[f] \in Number,
         NumberUnique'
  PROVE  Inv'
<1>1. registered \in Nat /\ launched \in Nat /\ launched' \in Nat /\ UNCHANGED <<users, registered>>
  BY SessionsAssumption DEF Inv, TypeOK, AccountsType, CatalogueType, accountTable
<1>2. /\ SessionType' /\ CallShape' /\ TokensOld'
      /\ tokens' = tokens
      /\ \A k \in Client : At(k, "sign")' => call'[k] = call[k] /\ At(k, "sign")
  BY <1>1, Answered
<1>3. TypeOK'
  BY <1>1, <1>2 DEF Inv, TypeOK, AccountsType
<1>4. SignTrue' /\ TokenRoleTrue' /\ EmailUnique'
  BY <1>1, <1>2 DEF Inv, SignTrue, TokenRoleTrue, EmailUnique, At, Known
<1>5. RowShape'
  BY <1>1 DEF Inv, RowShape, Known
<1> QED
  BY <1>2, <1>3, <1>4, <1>5 DEF Inv

LEMMA CreateFlightPreserves ==
  ASSUME Inv, NEW h \in Client, CreateFlight(h), UNCHANGED accountTable
  PROVE  Inv'
<1> DEFINE n == call[h].name
<1>1. n \in Number
  BY DEF CreateFlight, At, Inv, CallShape
<1>2. CASE UNCHANGED flightTable
  BY <1>2, AnsweredSame DEF CreateFlight
<1>3. CASE ~ InUse(n) /\ launched < MaxFlights /\ InsertFlight(n)
  <2>1. /\ launched \in Nat /\ launched + 1 \in FlightId /\ launched' = launched + 1
        /\ schedule \in [FlightId -> Number \cup {Nil}]
        /\ schedule' = [schedule EXCEPT ![launched + 1] = n]
        /\ cabin' = [cabin EXCEPT ![launched + 1] = SeatPlan]
    BY <1>3, SessionsAssumption DEF Inv, TypeOK, CatalogueType, InsertFlight, FlightId
  <2>2. schedule'[launched + 1] = n /\ \A f \in FlightId : f # launched + 1 => schedule'[f] = schedule[f]
    BY <2>1
  <2>3. CatalogueType'
    BY <1>1, <2>1, <1>3, SessionsAssumption DEF Inv, TypeOK, CatalogueType
  <2>4. \A f \in FlightId : Scheduled(f)' => f <= launched' /\ schedule'[f] \in Number
    BY <1>1, <2>1, <2>2 DEF Inv, RowShape, Scheduled, FlightId
  <2>5. NumberUnique'
    BY <1>3, <2>1, <2>2 DEF Inv, NumberUnique, Scheduled, InUse
  <2>6. launched <= launched'
    BY <2>1
  <2> QED
    BY <2>3, <2>4, <2>5, <2>6, CatalogueWritten DEF CreateFlight
<1> QED
  BY <1>2, <1>3 DEF CreateFlight

LEMMA UpdateFlightPreserves ==
  ASSUME Inv, NEW h \in Client, UpdateFlight(h), UNCHANGED accountTable
  PROVE  Inv'
<1> DEFINE f == call[h].id
           n == call[h].name
<1>1. n \in Number /\ f \in 1 .. launched
  BY DEF UpdateFlight, At, Inv, CallShape
<1>2. CASE UNCHANGED schedule
  BY <1>2, AnsweredSame DEF UpdateFlight, flightTable
<1>3. CASE /\ Scheduled(f) /\ \A g \in FlightId : schedule[g] = n => g = f
           /\ schedule' = [schedule EXCEPT ![f] = n]
  <2>1. /\ launched \in Nat /\ UNCHANGED <<launched, cabin>> /\ f \in FlightId
        /\ schedule \in [FlightId -> Number \cup {Nil}]
    BY <1>1, SessionsAssumption DEF UpdateFlight, Inv, TypeOK, CatalogueType, FlightId
  <2>2. schedule'[f] = n /\ \A g \in FlightId : g # f => schedule'[g] = schedule[g]
    BY <1>3, <2>1
  <2>3. CatalogueType'
    BY <1>1, <1>3, <2>1 DEF Inv, TypeOK, CatalogueType
  <2>4. \A g \in FlightId : Scheduled(g)' => g <= launched' /\ schedule'[g] \in Number
    BY <1>1, <1>3, <2>1, <2>2 DEF Inv, RowShape, Scheduled
  <2>5. NumberUnique'
    BY <1>3, <2>1, <2>2 DEF Inv, NumberUnique, Scheduled
  <2> QED
    BY <2>1, <2>3, <2>4, <2>5, CatalogueWritten DEF UpdateFlight
<1> QED
  BY <1>2, <1>3 DEF UpdateFlight

LEMMA DeleteFlightPreserves ==
  ASSUME Inv, NEW h \in Client, DeleteFlight(h), UNCHANGED accountTable
  PROVE  Inv'
<1> DEFINE f == call[h].id
<1>1. f \in 1 .. launched
  BY DEF DeleteFlight, At, Inv, CallShape
<1>2. /\ launched \in Nat /\ UNCHANGED launched /\ f \in FlightId
      /\ schedule \in [FlightId -> Number \cup {Nil}]
      /\ schedule' = [schedule EXCEPT ![f] = Nil]
      /\ cabin' = [cabin EXCEPT ![f] = {}]
  BY <1>1, SessionsAssumption DEF DeleteFlight, Inv, TypeOK, CatalogueType, FlightId
<1>3. schedule'[f] = Nil /\ \A g \in FlightId : g # f => schedule'[g] = schedule[g]
  BY <1>2
<1>4. CatalogueType'
  BY <1>2 DEF Inv, TypeOK, CatalogueType
<1>5. \A g \in FlightId : Scheduled(g)' => g <= launched' /\ schedule'[g] \in Number
  BY <1>2, <1>3 DEF Inv, RowShape, Scheduled
<1>6. NumberUnique'
  BY <1>3 DEF Inv, NumberUnique, Scheduled
<1> QED
  BY <1>2, <1>4, <1>5, <1>6, CatalogueWritten DEF DeleteFlight

-------------------------------------------------------------------------------
LEMMA AgePreserves ==
  ASSUME Inv, TokensAge, UNCHANGED <<accountTable, flightTable>>
  PROVE  Inv'
<1>1. UNCHANGED <<server, call, users, registered, schedule, launched, cabin>>
  BY DEF TokensAge, accountTable, flightTable
<1>2. ASSUME NEW t \in tokens'
      PROVE  t \in Token /\ \E s \in tokens : t.sub = s.sub /\ t.role = s.role
  <2>1. PICK s \in tokens : s.left > 1 /\ t = [s EXCEPT !.left = @ - 1]
    BY <1>2 DEF TokensAge
  <2>2. s \in Token
    BY <2>1 DEF Inv, TypeOK, SessionType
  <2>3. t = [sub |-> s.sub, role |-> s.role, left |-> s.left - 1]
    BY <2>1, <2>2 DEF Token
  <2>4. s.left - 1 \in 1 .. TokenLife
    BY <2>1, <2>2, SessionsAssumption DEF Token
  <2> QED
    BY <2>1, <2>2, <2>3, <2>4 DEF Token
<1>3. TypeOK'
  BY <1>1, <1>2 DEF Inv, TypeOK, SessionType, AccountsType, CatalogueType
<1>4. TokensOld' /\ TokenRoleTrue'
  BY <1>1, <1>2 DEF Inv, TokensOld, TokenRoleTrue, Known
<1>5. CallShape' /\ RowShape' /\ SignTrue' /\ EmailUnique' /\ NumberUnique'
  BY <1>1 DEF Inv, CallShape, RowShape, SignTrue, EmailUnique, NumberUnique, Known, Scheduled, At
<1> QED
  BY <1>3, <1>4, <1>5 DEF Inv

LEMMA RestartPreserves ==
  ASSUME Inv, Restart, UNCHANGED <<accountTable, flightTable>>
  PROVE  Inv'
<1>1. /\ UNCHANGED <<tokens, users, registered, schedule, launched, cabin>>
      /\ call' = [h \in Client |-> Idle] /\ server' \in ServerState
  BY DEF Restart, Started, ServerState, accountTable, flightTable
<1>2. TypeOK'
  BY <1>1 DEF Inv, TypeOK, SessionType, AccountsType, CatalogueType, Idle, Call, Pc
<1>3. CallShape' /\ SignTrue'
  BY <1>1 DEF CallShape, SignTrue, At, Idle
<1>4. RowShape' /\ TokensOld' /\ EmailUnique' /\ NumberUnique' /\ TokenRoleTrue'
  BY <1>1 DEF Inv, RowShape, TokensOld, EmailUnique, NumberUnique, TokenRoleTrue, Known, Scheduled
<1> QED
  BY <1>2, <1>3, <1>4 DEF Inv

LEMMA RequestPreserves ==
  ASSUME Inv, NEW h \in Client,
         \/ AccountRequest(h) /\ UNCHANGED flightTable
         \/ CatalogueRequest(h) /\ UNCHANGED accountTable
  PROVE  Inv'
<1>1. ASSUME NEW e \in Email, RegisterCheck(h, e), UNCHANGED flightTable
      PROVE  Inv'
  BY <1>1, Entered DEF RegisterCheck, Pc
<1>2. ASSUME NEW i \in AccountId, NEW e \in Email, UpdateUserCheck(h, i, e), UNCHANGED flightTable
      PROVE  Inv'
  <2>1. Known(i) /\ Enter(h, "update_user", i, e) /\ UNCHANGED accountTable
    BY <1>2 DEF UpdateUserCheck
  <2> QED
    BY <1>2, <2>1, KnownIsOld, Entered DEF Pc
<1>3. ASSUME NEW i \in AccountId, DeleteUserCheck(h, i), UNCHANGED flightTable
      PROVE  Inv'
  <2>1. Known(i) /\ Enter(h, "delete_user", i, Nil) /\ UNCHANGED accountTable
    BY <1>3 DEF DeleteUserCheck
  <2> QED
    BY <1>3, <2>1, KnownIsOld, Entered DEF Pc
<1>4. ASSUME NEW n \in Number, CreateFlightCheck(h, n), UNCHANGED accountTable
      PROVE  Inv'
  BY <1>4, Entered DEF CreateFlightCheck, Pc
<1>5. ASSUME NEW f \in FlightId, NEW n \in Number, UpdateFlightCheck(h, f, n), UNCHANGED accountTable
      PROVE  Inv'
  <2>1. Scheduled(f) /\ Enter(h, "update_flight", f, n) /\ UNCHANGED flightTable
    BY <1>5 DEF UpdateFlightCheck
  <2> QED
    BY <1>5, <2>1, ScheduleIsOld, Entered DEF Pc
<1>6. ASSUME NEW f \in FlightId, DeleteFlightCheck(h, f), UNCHANGED accountTable
      PROVE  Inv'
  <2>1. Scheduled(f) /\ Enter(h, "delete_flight", f, Nil) /\ UNCHANGED flightTable
    BY <1>6 DEF DeleteFlightCheck
  <2> QED
    BY <1>6, <2>1, ScheduleIsOld, Entered DEF Pc
<1> QED
  BY <1>1, <1>2, <1>3, <1>4, <1>5, <1>6, LoginPreserves DEF AccountRequest, CatalogueRequest

LEMMA StepPreserves ==
  ASSUME Inv, [Next]_adminVars
  PROVE  Inv'
<1>1. ASSUME NEW h \in Client, AccountStep(h), UNCHANGED flightTable
      PROVE  Inv'
  BY <1>1, CreatePreserves, SignPreserves, UpdatePreserves, DeletePreserves DEF AccountStep
<1>2. ASSUME NEW h \in Client, CatalogueStep(h), UNCHANGED accountTable
      PROVE  Inv'
  BY <1>2, CreateFlightPreserves, UpdateFlightPreserves, DeleteFlightPreserves DEF CatalogueStep
<1>3. CASE UNCHANGED adminVars
  BY <1>3, Frame DEF adminVars, session, Inv, TypeOK, SessionType
<1> QED
  BY <1>1, <1>2, <1>3, RequestPreserves, BootPreserves, AgePreserves, RestartPreserves DEF Next

LEMMA InitHolds == Init => Inv
<1> SUFFICES ASSUME Init PROVE Inv
  OBVIOUS
<1>1. TypeOK
  BY SessionsAssumption DEF Init, SessionInit, AccountsInit, CatalogueInit, TypeOK, SessionType,
     AccountsType, CatalogueType, Started, ServerState, Idle, Call, Pc, NoAccount, Account
<1>2. CallShape /\ SignTrue
  BY DEF Init, SessionInit, CallShape, SignTrue, At, Idle
<1>3. RowShape /\ EmailUnique /\ NumberUnique
  BY DEF Init, AccountsInit, CatalogueInit, RowShape, EmailUnique, NumberUnique, Known, Scheduled
<1>4. TokensOld /\ TokenRoleTrue
  BY DEF Init, SessionInit, TokensOld, TokenRoleTrue
<1> QED
  BY <1>1, <1>2, <1>3, <1>4 DEF Inv

-------------------------------------------------------------------------------
(* The strengthened invariant of the back office. *)
THEOREM Invariance == Spec => []Inv
<1>1. Init => Inv
  BY InitHolds
<1>2. Inv /\ [Next]_adminVars => Inv'
  BY StepPreserves
<1> QED
  BY <1>1, <1>2, PTL DEF Spec

(* Every table, token and request keeps its shape through all requests. *)
THEOREM AdministrationTypes == Spec => []TypeOK
<1>1. Inv => TypeOK
  BY DEF Inv
<1> QED
  BY <1>1, Invariance, PTL

(* No two accounts ever have one address, however many requests have found *)
(* it free: AuthService.register, UsersService.updateUser, the bootstrap.  *)
THEOREM UniqueEmails == Spec => []EmailUnique
<1>1. Inv => EmailUnique
  BY DEF Inv
<1> QED
  BY <1>1, Invariance, PTL

(* No two flights ever have one number, though updateFlight does not look. *)
THEOREM UniqueNumbers == Spec => []NumberUnique
<1>1. Inv => NumberUnique
  BY DEF Inv
<1> QED
  BY <1>1, Invariance, PTL

(* A token never names another role than its account has, though it may have *)
(* been signed long after the row was read and the guards never look again.  *)
THEOREM TruthfulTokens == Spec => []TokenRoleTrue
<1>1. Inv => TokenRoleTrue
  BY DEF Inv
<1> QED
  BY <1>1, Invariance, PTL

-------------------------------------------------------------------------------
(* Refinement: every step is at most one birth or one death of an id. *)
LEMMA AccountBorn ==
  ASSUME Inv, NEW e \in Email, NEW r \in Role, Insertable(e), InsertAccount(e, r),
         UNCHANGED flightTable
  PROVE  AccountIds!Next
<1>1. /\ registered + 1 \in AccountId /\ registered \in Nat /\ registered' = registered + 1
      /\ users'[registered + 1] = [email |-> e, role |-> r]
      /\ \A i \in AccountId : i # registered + 1 => users'[i] = users[i]
  BY Inserted
<1> DEFINE n == registered + 1
<1>2. AccountLife[n] = "unborn"
  BY <1>1 DEF AccountLife, Life
<1>3. users'[n] # NoAccount
  BY <1>1, SessionsAssumption DEF NoAccount
<1>4. ASSUME NEW i \in AccountId
      PROVE  Life(i <= registered', Known(i)')
               = IF i = n THEN "live" ELSE Life(i <= registered, Known(i))
  <2>1. CASE i = n
    BY <2>1, <1>1, <1>3 DEF Life, Known
  <2>2. CASE i # n
    <3>1. Known(i)' <=> Known(i)
      BY <2>2, <1>1 DEF Known
    <3>2. i <= registered' <=> i <= registered
      BY <2>2, <1>1 DEF AccountId
    <3> QED
      BY <2>2, <3>1, <3>2 DEF Life
  <2> QED
    BY <2>1, <2>2
<1>5. AccountLife' = [AccountLife EXCEPT ![n] = "live"]
  BY <1>4 DEF AccountLife
<1> QED
  BY <1>1, <1>2, <1>5 DEF AccountIds!Next, AccountIds!Create

LEMMA AccountDied ==
  ASSUME Inv, NEW h \in Client, DeleteUser(h)
  PROVE  AccountIds!Next \/ UNCHANGED AccountLife
<1> DEFINE n == call[h].id
<1>1. /\ n \in 1 .. registered /\ n \in AccountId /\ users \in [AccountId -> Account]
      /\ registered' = registered
      /\ users' = [users EXCEPT ![n] = NoAccount]
  BY SessionsAssumption DEF DeleteUser, At, Inv, CallShape, TypeOK, AccountsType, AccountId
<1>2. users'[n] = NoAccount /\ \A i \in AccountId : i # n => users'[i] = users[i]
  BY <1>1
<1>3. ASSUME NEW i \in AccountId
      PROVE  Life(i <= registered', Known(i)')
               = IF i = n THEN "gone" ELSE Life(i <= registered, Known(i))
  BY <1>1, <1>2 DEF Life, Known
<1>4. AccountLife' = [AccountLife EXCEPT ![n] = "gone"]
  BY <1>3 DEF AccountLife
<1>5. CASE Known(n)
  <2>1. AccountLife[n] = "live"
    BY <1>1, <1>5 DEF AccountLife, Life
  <2> QED
    BY <1>1, <1>4, <2>1 DEF AccountIds!Next, AccountIds!Delete
<1>6. CASE ~ Known(n)
  <2>1. AccountLife[n] = "gone"
    BY <1>1, <1>6 DEF AccountLife, Life
  <2>2. AccountLife' = AccountLife
    BY <1>4, <2>1 DEF AccountLife
  <2> QED
    BY <2>2
<1> QED
  BY <1>5, <1>6

LEMMA AccountKept ==
  ASSUME registered' = registered, \A i \in AccountId : Known(i)' <=> Known(i)
  PROVE  UNCHANGED AccountLife
<1>1. \A i \in AccountId : Life(i <= registered', Known(i)') = Life(i <= registered, Known(i))
  BY DEF Life
<1> QED
  BY <1>1 DEF AccountLife

LEMMA AccountMoved ==
  ASSUME Inv, NEW h \in Client, UpdateUser(h)
  PROVE  UNCHANGED AccountLife
<1> DEFINE n == call[h].id
           e == call[h].name
<1>1. /\ n \in AccountId /\ e \in Email /\ users \in [AccountId -> Account]
      /\ registered' = registered
  BY SessionsAssumption DEF UpdateUser, At, Inv, CallShape, TypeOK, AccountsType, AccountId
<1>2. CASE UNCHANGED users
  BY <1>1, <1>2, AccountKept DEF Known
<1>3. CASE Known(n) /\ users' = [users EXCEPT ![n].email = e]
  <2>1. users[n] \in Account
    BY <1>1
  <2>2. [users[n] EXCEPT !.email = e].email = e
    BY <2>1 DEF Account
  <2>3. users' = [users EXCEPT ![n] = [users[n] EXCEPT !.email = e]]
    BY <1>1, <1>3
  <2>4. users'[n].email = e /\ \A i \in AccountId : i # n => users'[i] = users[i]
    BY <1>1, <2>2, <2>3
  <2>5. \A i \in AccountId : Known(i)' <=> Known(i)
    BY <1>1, <1>3, <2>4, SessionsAssumption DEF Known, NoAccount
  <2> QED
    BY <1>1, <2>5, AccountKept
<1> QED
  BY <1>2, <1>3 DEF UpdateUser

LEMMA AccountStepMaps ==
  ASSUME Inv, [Next]_adminVars
  PROVE  [AccountIds!Next]_AccountLife
<1>1. CASE UNCHANGED accountTable
  BY <1>1, AccountKept DEF accountTable, Known
<1>2. ASSUME NEW h \in Client, AccountRequest(h)
      PROVE  UNCHANGED accountTable
  BY <1>2 DEF AccountRequest, RegisterCheck, Login, UpdateUserCheck, DeleteUserCheck
<1>3. ASSUME NEW h \in Client, RegisterCreate(h), UNCHANGED flightTable
      PROVE  AccountIds!Next \/ UNCHANGED accountTable
  <2>1. call[h].name \in Email
    BY <1>3 DEF RegisterCreate, At, Inv, CallShape
  <2> QED
    BY <1>3, <2>1, AccountBorn DEF RegisterCreate, Role
<1>4. ASSUME NEW h \in Client, AccountStep(h), UNCHANGED flightTable
      PROVE  [AccountIds!Next]_AccountLife
  BY <1>1, <1>3, <1>4, AccountDied, AccountMoved DEF AccountStep, SignToken
<1>5. ASSUME BootCheck \/ BootCreate, UNCHANGED flightTable
      PROVE  AccountIds!Next \/ UNCHANGED accountTable
  BY <1>5, AccountBorn, AccountsAssumption DEF BootCheck, BootCreate, Role
<1> QED
  BY <1>1, <1>2, <1>4, <1>5 DEF Next, adminVars

LEMMA FlightKept ==
  ASSUME launched' = launched, \A f \in FlightId : Scheduled(f)' <=> Scheduled(f)
  PROVE  UNCHANGED FlightLife
<1>1. \A f \in FlightId : Life(f <= launched', Scheduled(f)') = Life(f <= launched, Scheduled(f))
  BY DEF Life
<1> QED
  BY <1>1 DEF FlightLife

LEMMA FlightBorn ==
  ASSUME Inv, NEW h \in Client, CreateFlight(h)
  PROVE  FlightIds!Next \/ UNCHANGED flightTable
<1> DEFINE m == call[h].name
           n == launched + 1
<1>1. m \in Number
  BY DEF CreateFlight, At, Inv, CallShape
<1>2. CASE launched < MaxFlights /\ InsertFlight(m)
  <2>1. /\ launched \in Nat /\ n \in FlightId /\ launched' = n
        /\ schedule \in [FlightId -> Number \cup {Nil}]
        /\ schedule' = [schedule EXCEPT ![n] = m]
    BY <1>2, SessionsAssumption DEF Inv, TypeOK, CatalogueType, InsertFlight, FlightId
  <2>2. schedule'[n] = m /\ \A f \in FlightId : f # n => schedule'[f] = schedule[f]
    BY <2>1
  <2>3. FlightLife[n] = "unborn"
    BY <2>1 DEF FlightLife, Life
  <2>4. ASSUME NEW f \in FlightId
        PROVE  Life(f <= launched', Scheduled(f)')
                 = IF f = n THEN "live" ELSE Life(f <= launched, Scheduled(f))
    <3>1. CASE f = n
      BY <3>1, <1>1, <2>1, <2>2, SessionsAssumption DEF Life, Scheduled
    <3>2. CASE f # n
      <4>1. Scheduled(f)' <=> Scheduled(f)
        BY <3>2, <2>2 DEF Scheduled
      <4>2. f <= launched' <=> f <= launched
        BY <3>2, <2>1 DEF FlightId
      <4> QED
        BY <3>2, <4>1, <4>2 DEF Life
    <3> QED
      BY <3>1, <3>2
  <2>5. FlightLife' = [FlightLife EXCEPT ![n] = "live"]
    BY <2>4 DEF FlightLife
  <2> QED
    BY <2>1, <2>3, <2>5 DEF FlightIds!Next, FlightIds!Create
<1> QED
  BY <1>2 DEF CreateFlight

LEMMA FlightRenumbered ==
  ASSUME Inv, NEW h \in Client, UpdateFlight(h)
  PROVE  UNCHANGED FlightLife
<1> DEFINE f == call[h].id
           n == call[h].name
<1>1. /\ f \in FlightId /\ n \in Number /\ schedule \in [FlightId -> Number \cup {Nil}]
      /\ launched' = launched
  BY SessionsAssumption DEF UpdateFlight, At, Inv, CallShape, TypeOK, CatalogueType, FlightId
<1>2. CASE UNCHANGED schedule
  BY <1>1, <1>2, FlightKept DEF Scheduled
<1>3. CASE Scheduled(f) /\ schedule' = [schedule EXCEPT ![f] = n]
  <2>1. \A g \in FlightId : Scheduled(g)' <=> Scheduled(g)
    BY <1>1, <1>3, SessionsAssumption DEF Scheduled
  <2> QED
    BY <1>1, <2>1, FlightKept
<1> QED
  BY <1>2, <1>3 DEF UpdateFlight

LEMMA FlightDied ==
  ASSUME Inv, NEW h \in Client, DeleteFlight(h)
  PROVE  FlightIds!Next \/ UNCHANGED FlightLife
<1> DEFINE n == call[h].id
<1>1. /\ n \in 1 .. launched /\ n \in FlightId /\ launched' = launched
      /\ schedule \in [FlightId -> Number \cup {Nil}]
      /\ schedule' = [schedule EXCEPT ![n] = Nil]
  BY SessionsAssumption DEF DeleteFlight, At, Inv, CallShape, TypeOK, CatalogueType, FlightId
<1>2. ASSUME NEW f \in FlightId
      PROVE  Life(f <= launched', Scheduled(f)')
               = IF f = n THEN "gone" ELSE Life(f <= launched, Scheduled(f))
  BY <1>1 DEF Life, Scheduled
<1>3. FlightLife' = [FlightLife EXCEPT ![n] = "gone"]
  BY <1>2 DEF FlightLife
<1>4. CASE Scheduled(n)
  <2>1. FlightLife[n] = "live"
    BY <1>1, <1>4 DEF FlightLife, Life
  <2> QED
    BY <1>1, <1>3, <2>1 DEF FlightIds!Next, FlightIds!Delete
<1>5. CASE ~ Scheduled(n)
  <2>1. FlightLife[n] = "gone"
    BY <1>1, <1>5 DEF FlightLife, Life
  <2>2. FlightLife' = FlightLife
    BY <1>3, <2>1 DEF FlightLife
  <2> QED
    BY <2>2
<1> QED
  BY <1>4, <1>5

LEMMA FlightStepMaps ==
  ASSUME Inv, [Next]_adminVars
  PROVE  [FlightIds!Next]_FlightLife
<1>1. CASE UNCHANGED flightTable
  BY <1>1, FlightKept DEF flightTable, Scheduled
<1>2. ASSUME NEW h \in Client, CatalogueRequest(h)
      PROVE  UNCHANGED flightTable
  BY <1>2 DEF CatalogueRequest, CreateFlightCheck, UpdateFlightCheck, DeleteFlightCheck
<1>3. ASSUME NEW h \in Client, CatalogueStep(h)
      PROVE  [FlightIds!Next]_FlightLife
  BY <1>1, <1>3, FlightBorn, FlightRenumbered, FlightDied DEF CatalogueStep
<1> QED
  BY <1>1, <1>2, <1>3 DEF Next, adminVars

LEMMA IdsUnborn == Init => AccountIds!Init /\ FlightIds!Init
<1> SUFFICES ASSUME Init PROVE AccountIds!Init /\ FlightIds!Init
  OBVIOUS
<1>1. \A i \in AccountId : Life(i <= registered, Known(i)) = "unborn"
  BY DEF Init, AccountsInit, AccountId, Life
<1>2. \A f \in FlightId : Life(f <= launched, Scheduled(f)) = "unborn"
  BY DEF Init, CatalogueInit, FlightId, Life
<1> QED
  BY <1>1, <1>2 DEF AccountIds!Init, FlightIds!Init, AccountLife, FlightLife

(* Account and flight ids live once, as the reservation core supposes: an id *)
(* of a deleted user or flight never stands for another one.                 *)
THEOREM IdsRefined == Spec => IdsLiveOnce
<1>1. Init => AccountIds!Init /\ FlightIds!Init
  BY IdsUnborn
<1>2. Inv /\ [Next]_adminVars => [AccountIds!Next]_AccountLife /\ [FlightIds!Next]_FlightLife
  BY AccountStepMaps, FlightStepMaps
<1> QED
  BY <1>1, <1>2, Invariance, PTL DEF Spec, IdsLiveOnce, AccountIds!Spec, FlightIds!Spec

-------------------------------------------------------------------------------
(* A cabin is the whole plan or nothing; what is in the plan can be counted. *)
CabinWhole == \A f \in FlightId : cabin[f] = IF Scheduled(f) THEN SeatPlan ELSE {}

Column(letter) == {[row |-> r, letter |-> letter, price |-> SeatPrice(letter)] : r \in 1 .. Rows}

LEMMA ColumnCount ==
  ASSUME NEW letter \in Letters
  PROVE  IsFiniteSet(Column(letter)) /\ Cardinality(Column(letter)) = Rows
<1> DEFINE S == 1 .. Rows
           m == [r \in S |-> [row |-> r, letter |-> letter, price |-> SeatPrice(letter)]]
<1>1. IsFiniteSet(S) /\ Cardinality(S) = Rows
  BY FS_Interval, CatalogueAssumption
<1>2. m \in [S -> Column(letter)]
  BY DEF Column
<1>3. \A a, b \in S : m[a] = m[b] => a = b
  <2> SUFFICES ASSUME NEW a \in S, NEW b \in S, m[a] = m[b] PROVE a = b
    OBVIOUS
  <2>1. m[a].row = a /\ m[b].row = b
    OBVIOUS
  <2> QED
    BY <2>1
<1>4. \A t \in Column(letter) : \E r \in S : m[r] = t
  BY DEF Column
<1>5. m \in Bijection(S, Column(letter))
  <2> HIDE DEF m, S
  <2> QED
    BY <1>2, <1>3, <1>4 DEF Bijection, Injection, Surjection, IsInjective
<1>6. ExistsBijection(S, Column(letter))
  BY <1>5 DEF ExistsBijection
<1> HIDE DEF S
<1> QED
  BY <1>1, <1>6, FS_Bijection

LEMMA TwoColumns ==
  ASSUME NEW a \in Letters, NEW b \in Letters, a # b
  PROVE  Cardinality(Column(a) \cup Column(b)) = 2 * Rows
<1>1. Column(a) \cap Column(b) = {}
  BY DEF Column
<1>2. Cardinality(Column(a) \cap Column(b)) = 0
  BY <1>1, FS_EmptySet
<1>3. /\ IsFiniteSet(Column(a)) /\ Cardinality(Column(a)) = Rows
      /\ IsFiniteSet(Column(b)) /\ Cardinality(Column(b)) = Rows
  BY ColumnCount
<1>4. Cardinality(Column(a) \cup Column(b)) = Rows + Rows - 0
  BY <1>2, <1>3, FS_Union
<1> QED
  BY <1>4, CatalogueAssumption

LEMMA PlanCount ==
  ASSUME NEW price \in {3000, 4000, 5000}
  PROVE  Cardinality({s \in SeatPlan : s.price = price}) = 2 * Rows
<1> DEFINE P == {s \in SeatPlan : s.price = price}
<1>1. /\ SeatPrice("A") = 5000 /\ SeatPrice("F") = 5000
      /\ SeatPrice("C") = 4000 /\ SeatPrice("D") = 4000
      /\ SeatPrice("B") = 3000 /\ SeatPrice("E") = 3000
  BY DEF SeatPrice
<1>2. \A s : s \in P <=> \E l \in Letters : SeatPrice(l) = price /\ s \in Column(l)
  BY DEF SeatPlan, Column
<1> HIDE DEF P
<1>3. CASE price = 5000
  <2>1. \A l \in Letters : SeatPrice(l) = price <=> l \in {"A", "F"}
    BY <1>1, <1>3 DEF Letters
  <2>2. P = Column("A") \cup Column("F")
    <3>1. "A" \in Letters /\ "F" \in Letters
      BY DEF Letters
    <3>2. \A s : s \in P <=> s \in Column("A") \/ s \in Column("F")
      BY <1>2, <2>1, <3>1
    <3> QED
      BY <3>2
  <2>3. Cardinality(P) = 2 * Rows
    BY <2>2, TwoColumns DEF Letters
  <2> QED
    BY <2>3 DEF P
<1>4. CASE price = 4000
  <2>1. \A l \in Letters : SeatPrice(l) = price <=> l \in {"C", "D"}
    BY <1>1, <1>4 DEF Letters
  <2>2. P = Column("C") \cup Column("D")
    <3>1. "C" \in Letters /\ "D" \in Letters
      BY DEF Letters
    <3>2. \A s : s \in P <=> s \in Column("C") \/ s \in Column("D")
      BY <1>2, <2>1, <3>1
    <3> QED
      BY <3>2
  <2>3. Cardinality(P) = 2 * Rows
    BY <2>2, TwoColumns DEF Letters
  <2> QED
    BY <2>3 DEF P
<1>5. CASE price = 3000
  <2>1. \A l \in Letters : SeatPrice(l) = price <=> l \in {"B", "E"}
    BY <1>1, <1>5 DEF Letters
  <2>2. P = Column("B") \cup Column("E")
    <3>1. "B" \in Letters /\ "E" \in Letters
      BY DEF Letters
    <3>2. \A s : s \in P <=> s \in Column("B") \/ s \in Column("E")
      BY <1>2, <2>1, <3>1
    <3> QED
      BY <3>2
  <2>3. Cardinality(P) = 2 * Rows
    BY <2>2, TwoColumns DEF Letters
  <2> QED
    BY <2>3 DEF P
<1> QED
  BY <1>3, <1>4, <1>5

LEMMA WholePreserves ==
  ASSUME Inv, CabinWhole, [Next]_adminVars
  PROVE  CabinWhole'
<1>1. CASE UNCHANGED flightTable
  BY <1>1 DEF CabinWhole, flightTable, Scheduled
<1>2. ASSUME NEW h \in Client, CatalogueRequest(h)
      PROVE  UNCHANGED flightTable
  BY <1>2 DEF CatalogueRequest, CreateFlightCheck, UpdateFlightCheck, DeleteFlightCheck
<1>3. /\ schedule \in [FlightId -> Number \cup {Nil}]
      /\ cabin \in [FlightId -> SUBSET SeatPlan]
      /\ launched \in Nat
  BY SessionsAssumption DEF Inv, TypeOK, CatalogueType
<1>4. ASSUME NEW h \in Client, CreateFlight(h), ~ UNCHANGED flightTable
      PROVE  CabinWhole'
  <2>1. /\ call[h].name \in Number /\ launched + 1 \in FlightId
        /\ schedule' = [schedule EXCEPT ![launched + 1] = call[h].name]
        /\ cabin' = [cabin EXCEPT ![launched + 1] = SeatPlan]
    BY <1>3, <1>4, SessionsAssumption
    DEF CreateFlight, InsertFlight, At, Inv, CallShape, FlightId
  <2> QED
    BY <1>3, <2>1, SessionsAssumption DEF CabinWhole, Scheduled
<1>5. ASSUME NEW h \in Client, UpdateFlight(h)
      PROVE  CabinWhole'
  <2>1. cabin' = cabin /\ call[h].name \in Number
    BY <1>5 DEF UpdateFlight, At, Inv, CallShape
  <2>2. \A f \in FlightId : Scheduled(f)' <=> Scheduled(f)
    BY <1>3, <1>5, <2>1, SessionsAssumption DEF UpdateFlight, Scheduled
  <2> QED
    BY <2>1, <2>2 DEF CabinWhole
<1>6. ASSUME NEW h \in Client, DeleteFlight(h)
      PROVE  CabinWhole'
  BY <1>3, <1>6 DEF DeleteFlight, CabinWhole, Scheduled
<1>7. ASSUME NEW h \in Client, CatalogueStep(h)
      PROVE  CabinWhole'
  BY <1>1, <1>4, <1>5, <1>6, <1>7 DEF CatalogueStep
<1> QED
  BY <1>1, <1>2, <1>7 DEF Next, adminVars

(* However large the cabin, a flight is never seen with a part of its seats, *)
(* nor seats without their flight: createFlightWithSeats and deleteFlight.   *)
THEOREM CompleteCabins == Spec => []CabinComplete
<1>1. Init => CabinWhole
  BY DEF Init, CatalogueInit, CabinWhole, Scheduled
<1>2. Inv /\ CabinWhole /\ [Next]_adminVars => CabinWhole'
  BY WholePreserves
<1>3. CabinWhole => CabinComplete
  <2> SUFFICES ASSUME CabinWhole, NEW f \in FlightId, NEW price \in {3000, 4000, 5000}
               PROVE  Cardinality({s \in cabin[f] : s.price = price}) =
                          IF Scheduled(f) THEN 2 * Rows ELSE 0
    BY DEF CabinComplete
  <2>1. CASE Scheduled(f)
    <3>1. cabin[f] = SeatPlan
      BY <2>1 DEF CabinWhole
    <3>2. Cardinality({s \in SeatPlan : s.price = price}) = 2 * Rows
      BY PlanCount
    <3> QED
      BY <2>1, <3>1, <3>2
  <2>2. CASE ~ Scheduled(f)
    <3>1. {s \in cabin[f] : s.price = price} = {}
      BY <2>2 DEF CabinWhole
    <3> QED
      BY <2>2, <3>1, FS_EmptySet
  <2> QED
    BY <2>1, <2>2
<1> QED
  BY <1>1, <1>2, <1>3, Invariance, PTL DEF Spec

===============================================================================
