------------------------------- MODULE SeatLocks -------------------------------
(***************************************************************************)
(* The Redis seat locks of SeatLockService.  A key names a flight and a     *)
(* seat; its value records who asked for it, but no caller ever reads that  *)
(* value: hasLock only asks whether the key exists, and releaseLock deletes *)
(* the key whoever set it.  A key dies when its TTL has run out.            *)
(***************************************************************************)
EXTENDS Domain, Integers

VARIABLE lock   \* <<flight, seat>> -> the value of the key and its remaining life

Lock == [holder: User \cup {Nil}, ttl: 0 .. TTL]
NoLock == [holder |-> Nil, ttl |-> 0]

LocksType == lock \in [Flight \X Seat -> Lock]

LocksInit == lock = [k \in Flight \X Seat |-> NoLock]

-------------------------------------------------------------------------------
(* hasLock: does the key exist? *)
HasLock(f, s) == lock[<<f, s>>].ttl > 0

(* SET without NX: the last writer wins. *)
MutFreeKeyIgnored(f, s) == TRUE
(* The NX condition of SET. *)
FreeKey(f, s) == ~ HasLock(f, s)

(* SET key value EX 300, once NX let it through. *)
SetLock(f, s, u) == lock' = [lock EXCEPT ![<<f, s>>] = [holder |-> u, ttl |-> TTL]]

(* A key whose life is counted down and that never goes. *)
MutElapseKeepsKeys ==
    lock' = [k \in Flight \X Seat |-> [lock[k] EXCEPT !.ttl = @ - 1]]
(* The server's clock moves one tick; a key whose life is used up is gone. *)
LocksElapse ==
    lock' = [k \in Flight \X Seat |->
                IF lock[k].ttl <= 1 THEN NoLock
                                    ELSE [lock[k] EXCEPT !.ttl = @ - 1]]

(* DEL key. *)
ReleaseLock(f, s) == lock' = [lock EXCEPT ![<<f, s>>] = NoLock]
===============================================================================
