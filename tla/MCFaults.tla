-------------------------------- MODULE MCFaults --------------------------------
(***************************************************************************)
(* The instances of MCReservations, with faults.                            *)
(***************************************************************************)
EXTENDS MCReservations, ReservationFaults
===============================================================================
