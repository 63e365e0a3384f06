-------------------------------- MODULE Accounts --------------------------------
(***************************************************************************)
(* The users table: registration and login (AuthService), changes and       *)
(* deletions (UsersService), and the administrator's account made at        *)
(* start-up (AdminBootstrapService).  Each looks first and writes later, in *)
(* statements of their own; only the unique e-mail column decides between   *)
(* two requests that both found an address free.                            *)
(***************************************************************************)
EXTENDS Sessions

CONSTANT AdminEmail     \* ADMIN_EMAIL

ASSUME AccountsAssumption == AdminEmail \in Email

VARIABLES
    users,      \* account id -> row
    registered  \* the last account id handed out

accountTable == <<users, registered>>

Account == [email: Email \cup {Nil}, role: Role \cup {Nil}]
NoAccount == [email |-> Nil, role |-> Nil]

AccountsType ==
    /\ users \in [AccountId -> Account]
    /\ registered \in 0 .. MaxAccounts

AccountsInit ==
    /\ users = [i \in AccountId |-> NoAccount]
    /\ registered = 0

-------------------------------------------------------------------------------
(* findById *)
Known(i) == users[i] # NoAccount

(* findByEmail: the account that has the address. *)
HasEmail(i, e) == users[i].email = e
Taken(e) == \E i \in AccountId : HasEmail(i, e)

(* The unique column left out of the schema. *)
MutInsertable(e) == registered < MaxAccounts
(* create succeeds unless the unique column forbids it. *)
Insertable(e) == registered < MaxAccounts /\ ~ Taken(e)

(* The id of a deleted account handed out again. *)
MutInsertAccount(e, role) ==
    /\ registered' = registered + 1
    /\ \E i \in AccountId :
          /\ users[i] = NoAccount
          /\ \A j \in 1 .. i - 1 : users[j] # NoAccount
          /\ users' = [users EXCEPT ![i] = [email |-> e, role |-> role]]
(* create: autoincrement hands out the next id. *)
InsertAccount(e, role) ==
    /\ registered' = registered + 1
    /\ users' = [users EXCEPT ![registered + 1] = [email |-> e, role |-> role]]

-------------------------------------------------------------------------------
RegisterCheck(h, e) ==
    /\ ~ Taken(e)
    /\ Enter(h, "register", 0, e)
    /\ UNCHANGED accountTable

(* The password has been hashed meanwhile. *)
RegisterCreate(h) ==
    /\ At(h, "register")
    /\ \/ /\ Insertable(call[h].name)
          /\ InsertAccount(call[h].name, "CUSTOMER")
          /\ Signing(h, registered + 1, "CUSTOMER")
       \/ /\ ~ Insertable(call[h].name)
          /\ Answer(h)
          /\ UNCHANGED accountTable

(* The token is made from the row that was read before the password was *)
(* compared, whatever has become of it.                                 *)
Login(h, i) ==
    /\ server = "up"
    /\ At(h, "idle")
    /\ Known(i)
    /\ Signing(h, i, users[i].role)
    /\ UNCHANGED accountTable

SignToken(h) == Sign(h) /\ UNCHANGED accountTable

-------------------------------------------------------------------------------
(* PATCH /users/:id; a body without an address changes nothing kept here. *)
UpdateUserCheck(h, i, e) ==
    /\ SignedIn
    /\ Known(i)
    /\ \A j \in AccountId : HasEmail(j, e) => j = i
    /\ Enter(h, "update_user", i, e)
    /\ UNCHANGED accountTable

(* The whole body is passed on, a role in it included. *)
MutUpdateUser(h) ==
    LET i == call[h].id
        e == call[h].name
    IN  /\ At(h, "update_user")
        /\ Known(i)
        /\ users' = [users EXCEPT ![i] = [email |-> e, role |-> "ADMIN"]]
        /\ UNCHANGED registered
        /\ Answer(h)
UpdateUser(h) ==
    LET i == call[h].id
        e == call[h].name
        allowed == Known(i) /\ \A j \in AccountId : HasEmail(j, e) => j = i
    IN  /\ At(h, "update_user")
        /\ \/ allowed /\ users' = [users EXCEPT ![i].email = e]
           \/ ~ allowed /\ UNCHANGED users
        /\ UNCHANGED registered
        /\ Answer(h)

DeleteUserCheck(h, i) ==
    /\ AsAdmin
    /\ Known(i)
    /\ Enter(h, "delete_user", i, Nil)
    /\ UNCHANGED accountTable

(* The record may have been deleted by another request: it then throws. *)
DeleteUser(h) ==
    /\ At(h, "delete_user")
    /\ users' = [users EXCEPT ![call[h].id] = NoAccount]
    /\ UNCHANGED registered
    /\ Answer(h)

-------------------------------------------------------------------------------
(* onModuleInit: whoever has the address is taken for the administrator. *)
BootCheck ==
    /\ server = "check"
    /\ server' = IF Taken(AdminEmail) THEN "up" ELSE "create"
    /\ UNCHANGED <<call, tokens, accountTable>>

(* An insert that throws keeps the server from starting. *)
BootCreate ==
    /\ server = "create"
    /\ \/ /\ Insertable(AdminEmail)
          /\ InsertAccount(AdminEmail, "ADMIN")
          /\ server' = "up"
       \/ /\ ~ Insertable(AdminEmail)
          /\ server' = "down"
          /\ UNCHANGED accountTable
    /\ UNCHANGED <<call, tokens>>

AccountRequest(h) ==
    \/ \E e \in Email : RegisterCheck(h, e)
    \/ \E i \in AccountId : Login(h, i)
    \/ \E i \in AccountId, e \in Email : UpdateUserCheck(h, i, e)
    \/ \E i \in AccountId : DeleteUserCheck(h, i)

AccountStep(h) == RegisterCreate(h) \/ SignToken(h) \/ UpdateUser(h) \/ DeleteUser(h)
===============================================================================
