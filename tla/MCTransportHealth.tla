-------------------------- MODULE MCTransportHealth --------------------------
(***************************************************************************)
(* TransportHealth for TLC.  Liveness is checked, so there is no symmetry. *)
(***************************************************************************)
EXTENDS TransportHealth
=============================================================================
