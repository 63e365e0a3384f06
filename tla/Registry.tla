-------------------------------- MODULE Registry --------------------------------
(***************************************************************************)
(* What the reservation core supposes of accounts and flights: an id is     *)
(* handed out once, is live from then on, and does not come back when what  *)
(* it stood for has been deleted.                                           *)
(***************************************************************************)
CONSTANT Id

VARIABLE life   \* id -> "unborn", "live" or "gone"

Type == life \in [Id -> {"unborn", "live", "gone"}]

Init == life = [i \in Id |-> "unborn"]

Create(i) == life[i] = "unborn" /\ life' = [life EXCEPT ![i] = "live"]

Delete(i) == life[i] = "live" /\ life' = [life EXCEPT ![i] = "gone"]

Next == \E i \in Id : Create(i) \/ Delete(i)

Spec == Init /\ [][Next]_life
===============================================================================
