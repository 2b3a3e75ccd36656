------------------------------ MODULE MC_Relay ------------------------------
(***************************************************************************)
(* A small instance of the relay for TLC.  One order has both its events,  *)
(* and two relays are enough for each to meet a row the other has locked.  *)
(* No symmetry: the run checks liveness.                                   *)
(***************************************************************************)
EXTENDS Relay

CONSTANTS r1, r2, o1

=============================================================================
