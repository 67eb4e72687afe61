--------------------------- MODULE DatagramRouter ---------------------------
(***************************************************************************)
(* The routing of datagrams to UDP associations at one end of the tunnel   *)
(* (datagramRouter of transport/call/vk-parasite/datagram.go, with the     *)
(* goroutines of quic_relay.go that drive it).                             *)
(*                                                                         *)
(* Every lane has a goroutine that receives datagrams and routes them, and *)
(* one that waits for the end of the connection and then sweeps out the    *)
(* associations of the lane.  Associations are also closed by their users, *)
(* and all of them by the Close of the relay.  A step is one critical      *)
(* section of the router, or one operation between two of them.            *)
(*                                                                         *)
(* An association writes to one connection only, so all the datagrams with *)
(* its id arrive over one connection at the other end, and the answers     *)
(* come back over it.  What a datagram carries is DatagramAssociation's    *)
(* subject.                                                                *)
(***************************************************************************)
EXTENDS FiniteSets

CONSTANTS
    Conns,      \* the connections of the lanes
    Ids,        \* association ids
    Assocs,     \* datagramAssociation objects
    None        \* nil

ASSUME RouterAssumption ==
    None \notin Conns \cup Ids \cup Assocs \cup [id : Ids, conn : Conns]

VARIABLES
    accept,       \* whether setAcceptHandler was called: the server's end
    associations, \* r.associations
    closed,       \* r.closed
    origin,       \* id and conn of an association
    phase,        \* open, or how far its Close has come
    via,          \* the connection an id belongs to, None for an unused id
    up,           \* connections that are alive
    loop,         \* where acceptDatagramsLoop of a connection stands
    frame,        \* the id of the datagram it routes
    picked,       \* the path ListenPacket has picked
    watcher,      \* where watchPath of a connection stands
    doomed,       \* the local variable doomed of its closeConn
    relay         \* how far Close of the relay has come

routerVars == <<accept, closed>>
assocVars == <<origin, phase>>
connVars == <<via, up>>
loopVars == <<loop, frame>>
watchVars == <<watcher, doomed>>
vars == <<accept, associations, closed, origin, phase, via, up, loop, frame, picked, watcher, doomed, relay>>

(***************************************************************************)
(* The types of the variables; an association that was created has an id   *)
(* and a connection, and a loop has a frame in hand while it opens one.    *)
(***************************************************************************)
TypeOK ==
    /\ accept \in BOOLEAN
    /\ associations \in [Ids -> Assocs \cup {None}]
    /\ closed \in BOOLEAN
    /\ origin \in [Assocs -> [id : Ids, conn : Conns] \cup {None}]
    /\ phase \in [Assocs -> {"unused", "open", "removing", "closed"}]
    /\ \A a \in Assocs : phase[a] = "unused" <=> origin[a] = None
    /\ via \in [Ids -> Conns \cup {None}]
    /\ up \subseteq Conns
    /\ loop \in [Conns -> {"receiving", "accepting", "ended"}]
    /\ frame \in [Conns -> Ids \cup {None}]
    /\ \A c \in Conns : frame[c] # None <=> loop[c] = "accepting"
    /\ picked \in Conns \cup {None}
    /\ watcher \in [Conns -> {"watching", "sweeping", "done"}]
    /\ doomed \in [Conns -> SUBSET Assocs]
    /\ relay \in {"open", "disconnected", "marked", "drained"}

\* newDatagramRouter and setAcceptHandler, with the lanes of the relay started
Init ==
    /\ accept \in BOOLEAN
    /\ associations = [i \in Ids |-> None]
    /\ closed = FALSE
    /\ origin = [a \in Assocs |-> None]
    /\ phase = [a \in Assocs |-> "unused"]
    /\ via = [i \in Ids |-> None]
    /\ up = Conns
    /\ loop = [c \in Conns |-> "receiving"]
    /\ frame = [c \in Conns |-> None]
    /\ picked = None
    /\ watcher = [c \in Conns |-> "watching"]
    /\ doomed = [c \in Conns |-> {}]
    /\ relay = "open"

-----------------------------------------------------------------------------

\* newDatagramAssociation
Create(a, id, c) ==
    /\ phase[a] = "unused"
    /\ origin' = [origin EXCEPT ![a] = [id |-> id, conn |-> c]]
    /\ phase' = [phase EXCEPT ![a] = "open"]

\* ListenPacket at the initiator's end: pickPath, ...
PickPath(c) ==
    /\ ~accept
    /\ picked = None
    /\ c \in up
    /\ picked' = c
    /\ UNCHANGED <<associations, routerVars, assocVars, connVars, loopVars, watchVars, relay>>

\* ... then newAssociation with the next id; a closed router does not keep it.
NewAssociation(a, id) ==
    /\ picked # None
    /\ via[id] = None
    /\ Create(a, id, picked)
    /\ via' = [via EXCEPT ![id] = picked]
    /\ associations' = IF closed THEN associations ELSE [associations EXCEPT ![id] = a]
    /\ picked' = None
    /\ UNCHANGED <<routerVars, up, loopVars, watchVars, relay>>

\* At the acceptor's end the peer has opened an association over c.
PeerOpens(id, c) ==
    /\ accept
    /\ via[id] = None
    /\ c \in up
    /\ via' = [via EXCEPT ![id] = c]
    /\ UNCHANGED <<associations, routerVars, assocVars, up, loopVars, picked, watchVars, relay>>

(***************************************************************************)
(* routeReceivedDatagram looks the association up.  One that is there gets *)
(* its fragment; without one the acceptor goes on to acceptAssociation,    *)
(* and the initiator drops the datagram.  A connection that has ended      *)
(* still hands out the datagrams it had queued.                            *)
(***************************************************************************)
RouteUnknown(c, id) ==
    /\ loop[c] = "receiving"
    /\ via[id] = c
    /\ associations[id] = None
    /\ accept
    /\ loop' = [loop EXCEPT ![c] = "accepting"]
    /\ frame' = [frame EXCEPT ![c] = id]
    /\ UNCHANGED <<associations, routerVars, assocVars, connVars, picked, watchVars, relay>>

\* Mutant: the router is not asked whether it is closed.
AcceptAnyway(c, a) ==
    /\ loop[c] = "accepting"
    /\ loop' = [loop EXCEPT ![c] = "receiving"]
    /\ frame' = [frame EXCEPT ![c] = None]
    /\ IF associations[frame[c]] # None
         THEN UNCHANGED <<associations, assocVars>>
         ELSE /\ Create(a, frame[c], c)
              /\ associations' = [associations EXCEPT ![frame[c]] = a]
    /\ UNCHANGED <<routerVars, connVars, picked, watchVars, relay>>

\* acceptAssociation looks again, under the lock.
AcceptAssociation(c, a) ==
    /\ loop[c] = "accepting"
    /\ loop' = [loop EXCEPT ![c] = "receiving"]
    /\ frame' = [frame EXCEPT ![c] = None]
    /\ IF closed \/ associations[frame[c]] # None
         THEN UNCHANGED <<associations, assocVars>>
         ELSE /\ Create(a, frame[c], c)
              /\ associations' = [associations EXCEPT ![frame[c]] = a]
    /\ UNCHANGED <<routerVars, connVars, picked, watchVars, relay>>

\* ReceiveDatagram returns an error: the connection or the relay has ended.
LoopEnds(c) ==
    /\ loop[c] = "receiving"
    /\ c \notin up \/ relay # "open"
    /\ loop' = [loop EXCEPT ![c] = "ended"]
    /\ UNCHANGED <<associations, routerVars, assocVars, connVars, frame, picked, watchVars, relay>>

-----------------------------------------------------------------------------
\* Mutant: Close leaves the map before it closes the channel.
BeginCloseRemoved(a) ==
    /\ phase[a] = "open"
    /\ associations[origin[a].id] = a
    /\ associations' = [associations EXCEPT ![origin[a].id] = None]
    /\ UNCHANGED <<routerVars, assocVars, connVars, loopVars, picked, watchVars, relay>>

(***************************************************************************)
(* Close of an association, by its user at any time or by whoever has it   *)
(* on a list of doomed ones: the channel closed is closed, ...             *)
(***************************************************************************)
BeginClose(a) ==
    /\ phase[a] = "open"
    /\ phase' = [phase EXCEPT ![a] = "removing"]
    /\ UNCHANGED <<associations, routerVars, origin, connVars, loopVars, picked, watchVars, relay>>

\* ... then removeAssociation deletes whatever the map holds under its id.
RemoveAssociation(a) ==
    /\ phase[a] = "removing"
    /\ phase' = [phase EXCEPT ![a] = "closed"]
    /\ associations' = [associations EXCEPT ![origin[a].id] = None]
    /\ UNCHANGED <<routerVars, origin, connVars, loopVars, picked, watchVars, relay>>

-----------------------------------------------------------------------------
\* The connection ends.
ConnDies(c) ==
    /\ c \in up
    /\ up' = up \ {c}
    /\ UNCHANGED <<associations, routerVars, assocVars, via, loopVars, picked, watchVars, relay>>

\* The associations of the map that belong to connection c.
Of(c) == {a \in Assocs : phase[a] # "unused" /\ origin[a].conn = c /\ associations[origin[a].id] = a}

\* watchPath calls closeConn: take them out of the map, ...
CloseConn(c) ==
    /\ watcher[c] = "watching"
    /\ c \notin up
    /\ watcher' = [watcher EXCEPT ![c] = "sweeping"]
    /\ doomed' = [doomed EXCEPT ![c] = Of(c)]
    /\ associations' = [i \in Ids |-> IF associations[i] \in Of(c) THEN None ELSE associations[i]]
    /\ UNCHANGED <<routerVars, assocVars, connVars, loopVars, picked, relay>>

\* ... then close each of them; a Close that is in progress is waited for.
SweepEnds(c) ==
    /\ watcher[c] = "sweeping"
    /\ \A a \in doomed[c] : phase[a] = "closed"
    /\ watcher' = [watcher EXCEPT ![c] = "done"]
    /\ doomed' = [doomed EXCEPT ![c] = {}]
    /\ UNCHANGED <<associations, routerVars, assocVars, connVars, loopVars, picked, relay>>

\* Close of the relay ends the connections ...
RelayCloses ==
    /\ relay = "open"
    /\ relay' = "disconnected"
    /\ up' = {}
    /\ UNCHANGED <<associations, routerVars, assocVars, via, loopVars, picked, watchVars>>

\* ... and calls close of the router, which marks itself closed, ...
RouterMarks ==
    /\ relay = "disconnected"
    /\ relay' = "marked"
    /\ closed' = TRUE
    /\ UNCHANGED <<accept, associations, assocVars, connVars, loopVars, picked, watchVars>>

\* ... empties the map, and closes what was in it.
RouterDrains ==
    /\ relay = "marked"
    /\ relay' = "drained"
    /\ associations' = [i \in Ids |-> None]
    /\ UNCHANGED <<routerVars, assocVars, connVars, loopVars, picked, watchVars>>

-----------------------------------------------------------------------------
ConnStep(c) ==
    \/ PickPath(c)
    \/ \E id \in Ids : PeerOpens(id, c) \/ RouteUnknown(c, id)
    \/ \E a \in Assocs : AcceptAssociation(c, a)
    \/ LoopEnds(c)
    \/ ConnDies(c)
    \/ CloseConn(c)
    \/ SweepEnds(c)

AssocStep(a) ==
    \/ \E id \in Ids : NewAssociation(a, id)
    \/ BeginClose(a)
    \/ RemoveAssociation(a)

Next ==
    \/ \E c \in Conns : ConnStep(c)
    \/ \E a \in Assocs : AssocStep(a)
    \/ RelayCloses \/ RouterMarks \/ RouterDrains

Spec == Init /\ [][Next]_vars

-----------------------------------------------------------------------------
(***************************************************************************)
(* An open association of a lane that was not swept is the one its         *)
(* datagrams find: no Close of another one deletes its id, and no second   *)
(* one is accepted under an id that is in use.                             *)
(***************************************************************************)
OpenIsRouted ==
    \A a \in Assocs : phase[a] = "open" /\ watcher[origin[a].conn] = "watching" /\ ~closed
        => associations[origin[a].id] = a

(***************************************************************************)
(* Datagrams never find an association whose Close has returned: the next  *)
(* one that carries its id opens another.                                  *)
(***************************************************************************)
ClosedIsUnrouted ==
    \A a \in Assocs : phase[a] = "closed" => \A i \in Ids : associations[i] # a

(***************************************************************************)
(* While its lane was not swept and the router not closed, an open         *)
(* association is found in the map; and one whose Close has returned never *)
(* is (removeAssociation, acceptAssociation and closeConn of datagram.go). *)
(* Of a swept lane the first is not so: an association that closeConn took *)
(* out of the map and that is closed afterwards deletes its id, under      *)
(* which the last frames of the lane may have opened another one, that     *)
(* close of the router then does not find either.                          *)
(***************************************************************************)
RoutedIffInUse == OpenIsRouted /\ ClosedIsUnrouted

(***************************************************************************)
(* Nothing enters the map once close has emptied it, although the lanes    *)
(* may still be routing what they had received.                            *)
(***************************************************************************)
ClosedStaysEmpty == relay = "drained" => \A i \in Ids : associations[i] = None
=============================================================================
