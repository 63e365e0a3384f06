------------------------------- MODULE MCRemovals -------------------------------
(***************************************************************************)
(* The instances of MCReservations, with deletions.                         *)
(***************************************************************************)
EXTENDS MCReservations, RemovalInvariant
===============================================================================
