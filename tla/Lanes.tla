-------------------------------- MODULE Lanes --------------------------------
(***************************************************************************)
(* What the pool of lanes promises the rest of the client, for which a     *)
(* worker's lane is up, down or given up (WaitForPath, PathCount and       *)
(* InitialPathsPending of quic_relay.go show no more than this):           *)
(*   - a worker has at most one lane, and it comes up under the network    *)
(*     generation that is current at that moment;                          *)
(*   - a worker that was given up has no lane ever again;                  *)
(*   - no lane comes up once the client is being closed.                   *)
(* LanePool implements it.                                                 *)
(***************************************************************************)
EXTENDS Naturals

CONSTANT Workers

VARIABLES
    isOpen,     \* the client was not closed
    current,    \* the network generation
    givenUp,    \* the workers that met a terminal failure
    lanes       \* per worker, the generations of its lanes

laneVars == <<isOpen, current, givenUp, lanes>>

Init ==
    /\ isOpen = TRUE
    /\ current = 0
    /\ givenUp = {}
    /\ lanes = [w \in Workers |-> {}]

ComesUp(w) ==
    /\ isOpen
    /\ w \notin givenUp
    /\ lanes[w] = {}
    /\ lanes' = [lanes EXCEPT ![w] = {current}]
    /\ UNCHANGED <<isOpen, current, givenUp>>

\* Some lanes go down: one that has died, or all when the pool is drained.
GoDown(W) ==
    /\ lanes' = [w \in Workers |-> IF w \in W THEN {} ELSE lanes[w]]
    /\ UNCHANGED <<isOpen, current, givenUp>>

GivesUp(w) ==
    /\ lanes[w] = {}
    /\ givenUp' = givenUp \cup {w}
    /\ UNCHANGED <<isOpen, current, lanes>>

NetworkChanges ==
    /\ current' = current + 1
    /\ UNCHANGED <<isOpen, givenUp, lanes>>

Closes ==
    /\ isOpen' = FALSE
    /\ UNCHANGED <<current, givenUp, lanes>>

Next ==
    \/ \E w \in Workers : ComesUp(w) \/ GivesUp(w)
    \/ \E W \in SUBSET Workers : GoDown(W)
    \/ NetworkChanges
    \/ Closes

Spec == Init /\ [][Next]_laneVars
=============================================================================
