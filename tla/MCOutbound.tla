----------------------------- MODULE MCOutbound -----------------------------
(***************************************************************************)
(* Outbound, and the lane pool inside it, for TLC.  Liveness is checked,   *)
(* so there is no symmetry.                                                *)
(***************************************************************************)
EXTENDS Outbound
=============================================================================
