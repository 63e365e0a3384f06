----------------------------- MODULE SeatInventory -----------------------------
(***************************************************************************)
(* What the reservation system promises about its inventory, without Redis, *)
(* handlers or time: a seat is offered to one passenger at a time, an offer *)
(* becomes a sale, a cancellation or an expiry, and a sale can only be      *)
(* cancelled.                                                               *)
(***************************************************************************)
CONSTANTS Ticket, Seat, Nil

VARIABLE ticket     \* ticket -> its state and its seat

States == {"none", "held", "sold", "cancelled", "expired"}

Type == ticket \in [Ticket -> [state: States, seat: Seat \cup {Nil}]]

Init == ticket = [t \in Ticket |-> [state |-> "none", seat |-> Nil]]

(* Tickets that entitle to seat s. *)
Holders(s) == {t \in Ticket : ticket[t].state \in {"held", "sold"} /\ ticket[t].seat = s}

Free(s) == Holders(s) = {}

-------------------------------------------------------------------------------
Hold(t, s) ==
    /\ ticket[t].state = "none"
    /\ Free(s)
    /\ ticket' = [ticket EXCEPT ![t] = [state |-> "held", seat |-> s]]

Sell(t) ==
    /\ ticket[t].state = "held"
    /\ ticket' = [ticket EXCEPT ![t].state = "sold"]

Cancel(t) ==
    /\ ticket[t].state \in {"held", "sold"}
    /\ ticket' = [ticket EXCEPT ![t].state = "cancelled"]

Expire(t) ==
    /\ ticket[t].state = "held"
    /\ ticket' = [ticket EXCEPT ![t].state = "expired"]

Next == \E t \in Ticket : \/ \E s \in Seat : Hold(t, s)
                          \/ Sell(t)
                          \/ Cancel(t)
                          \/ Expire(t)

Spec == Init /\ [][Next]_ticket
===============================================================================
