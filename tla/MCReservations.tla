----------------------------- MODULE MCReservations -----------------------------
(***************************************************************************)
(* Small instances of Reservations: up to two passengers and two seats of   *)
(* flight f1.  A cfg may add a second flight, so that a seat can be asked   *)
(* for on the wrong one.                                                    *)
(***************************************************************************)
EXTENDS WaitlistInvariant, TLC

CONSTANTS u1, u2, f1, s1, s2

MCFlightOf1 == [s \in {s1} |-> f1]
MCFlightOf2 == (s1 :> f1) @@ (s2 :> f1)

(* u2 is worth more than u1, or all are worth the same, which is how      *)
(* registration leaves them; u1 is the higher member string.             *)
MCClv == [u \in User |-> IF u = u2 THEN 1 ELSE 0]
MCClvTie == [u \in User |-> 0]
MCLex == [u \in User |-> IF u = u1 THEN 1 ELSE 0]

(* What the traffic must not overlap on one seat: a cancellation with        *)
(* anything, and the cleanup with a confirmation or another cleanup.         *)
Needed == {{"cancel", k} : k \in SeatKinds} \cup {{"cleanup", "confirm"}, {"cleanup"}}

(* In addition no new hold starts while the last one is being confirmed. *)
Strict == Needed \cup {{"lock", "confirm"}}

None == {}

(* Joins of a flight overlap neither leaves nor promotions on it. *)
WaitlistPremise == Needed \cup {{"join", k} : k \in {"leave", "cancel", "cleanup"}}

(* Request slots are alike, and so are two seats of one flight. *)
Symmetry == Permutations(Proc)
SeatSymmetry == Permutations(Proc) \cup Permutations(Seat)
===============================================================================
