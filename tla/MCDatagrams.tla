----------------------------- MODULE MCDatagrams -----------------------------
(***************************************************************************)
(* UDP through the tunnel, for TLC: the router of datagrams and one of the *)
(* associations it routes to, side by side.  The router hands fragments to *)
(* an association and reads nothing of it but whether it is closed; so a   *)
(* behaviour moves one of the two layers, chosen at the start.             *)
(***************************************************************************)
EXTENDS DatagramRouter, DatagramAssociation

VARIABLE layer

MCInit ==
    /\ Init /\ AssociationInit
    /\ layer = "router" \/ (layer = "association" /\ accept)

MCNext ==
    \/ layer = "router" /\ Next /\ UNCHANGED <<associationVars, layer>>
    \/ layer = "association" /\ AssociationNext /\ UNCHANGED <<vars, layer>>

MCSpec == MCInit /\ [][MCNext]_<<vars, associationVars, layer>>
=============================================================================
