------------------------- MODULE MCSessionGeneration -------------------------
(***************************************************************************)
(* SessionGeneration for TLC.                                              *)
(***************************************************************************)
EXTENDS SessionGeneration
=============================================================================
