-------------------------- MODULE SessionGeneration --------------------------
(***************************************************************************)
(* One client and the server that keeps its session: the generation the    *)
(* client has pinned (DialPath of transport/call/vk-parasite/client.go)    *)
(* against the sessions the server makes and forgets (server.go).          *)
(*                                                                         *)
(* The first lane a client dials makes the server create a session under   *)
(* the client's id, with a random generation; the acks of the others carry *)
(* the same generation, and the client drops a lane whose ack carries      *)
(* another.  This module composes the two ends for one session id.  What   *)
(* SessionTable has shown is taken from it: a handshake between            *)
(* getOrCreateSession and the attach of its lane is counted in             *)
(* pendingAttaches, and its session stays in the table.  What LanePool has *)
(* shown is taken from it too: each worker has one task, which dials until *)
(* it has a lane.                                                          *)
(***************************************************************************)
EXTENDS Integers

CONSTANTS
    Workers,      \* the client's workers
    Connections,        \* QUIC connections, used again when both ends are done
    NoConn,       \* no connection
    Generations,  \* the values of randomSessionGeneration, which is never 0
    Faults,       \* the faults there can be: "break", "evict", "restart"
    MaxFaults     \* bound: how many there are

ASSUME GenerationAssumption ==
    /\ NoConn \notin Connections
    /\ Generations \subseteq Nat \ {0}
    /\ MaxFaults \in Nat

VARIABLES
    generation,   \* c.generation of the client, 0 before the first ack
    dial,         \* where DialPath of a worker stands
    lane,         \* the connection of a worker
    got,          \* its local variable generation: what the ack carries
    alive,        \* connections that are open
    handler,      \* where handleQUICConn of a connection stands
    serves,       \* the generation of the session it has in hand
    created,      \* its local variable created
    paths,        \* connections in the relay of their session
    session,      \* the generation of s.sessions[id], 0 without one
    closing,      \* removed sessions whose relay.Close has not run yet
    faults        \* faults so far

clientVars == <<generation, dial, lane, got>>
handlerVars == <<handler, serves, created>>
tableVars == <<session, closing>>
generationVars == <<generation, dial, lane, got, alive, handler, serves, created, paths, session, closing, faults>>

(***************************************************************************)
(* The types of the variables of both ends.                                *)
(***************************************************************************)
GenerationTypeOK ==
    /\ generation \in Generations \cup {0}
    /\ dial \in [Workers -> {"down", "auth", "load", "swap", "up"}]
    /\ lane \in [Workers -> Connections \cup {NoConn}]
    /\ got \in [Workers -> Generations \cup {0}]
    /\ alive \subseteq Connections
    /\ handler \in [Connections -> {"free", "ack", "attach", "serving"}]
    /\ serves \in [Connections -> Generations \cup {0}]
    /\ created \in [Connections -> BOOLEAN]
    /\ paths \subseteq Connections
    /\ session \in Generations \cup {0}
    /\ closing \subseteq Generations
    /\ faults \in 0..MaxFaults

\* ConnectClient and NewServer
GenerationInit ==
    /\ generation = 0
    /\ dial = [w \in Workers |-> "down"]
    /\ lane = [w \in Workers |-> NoConn]
    /\ got = [w \in Workers |-> 0]
    /\ alive = {}
    /\ handler = [c \in Connections |-> "free"]
    /\ serves = [c \in Connections |-> 0]
    /\ created = [c \in Connections |-> FALSE]
    /\ paths = {}
    /\ session = 0
    /\ closing = {}
    /\ faults = 0

-----------------------------------------------------------------------------
\* A connection nobody knows any more.
Unused(c) ==
    /\ c \notin alive \cup paths
    /\ handler[c] = "free"
    /\ \A w \in Workers : lane[w] # c

\* A value no session in memory has, nor the client.
Fresh(g) ==
    /\ g \notin {generation, session} \cup closing
    /\ \A c \in Connections : handler[c] # "free" \/ c \in paths => serves[c] # g
    /\ \A w \in Workers : got[w] # g

\* randomSessionGeneration.  Which of the fresh values it is does not matter:
\* generations are only compared.
RandomGeneration(g) == Fresh(g) /\ \A h \in Generations : Fresh(h) => g <= h

\* What pendingAttaches and ActivePaths of session g count.
Pending(g) == {c \in Connections : handler[c] \in {"ack", "attach"} /\ serves[c] = g}
Active(g) == {c \in paths : serves[c] = g}

(***************************************************************************)
(* DialPath up to the request, and the server's answer to it: the handler  *)
(* joins the session under the client's id, or creates it.                 *)
(***************************************************************************)
Dial(w, c) ==
    /\ dial[w] = "down"
    /\ Unused(c)
    /\ dial' = [dial EXCEPT ![w] = "auth"]
    /\ lane' = [lane EXCEPT ![w] = c]
    /\ alive' = alive \cup {c}
    /\ handler' = [handler EXCEPT ![c] = "ack"]
    /\ created' = [created EXCEPT ![c] = session = 0]
    /\ IF session # 0
         THEN serves' = [serves EXCEPT ![c] = session] /\ UNCHANGED session
         ELSE \E g \in Generations :
                 /\ RandomGeneration(g)
                 /\ session' = g
                 /\ serves' = [serves EXCEPT ![c] = g]
    /\ UNCHANGED <<generation, got, paths, closing, faults>>

\* exchangeAuth returns the generation of the ack.
AckArrives(w) ==
    /\ dial[w] = "auth"
    /\ lane[w] \in alive
    /\ handler[lane[w]] \in {"attach", "serving"}
    /\ got' = [got EXCEPT ![w] = serves[lane[w]]]
    /\ dial' = [dial EXCEPT ![w] = "load"]
    /\ UNCHANGED <<generation, lane, alive, handlerVars, paths, tableVars, faults>>

\* The worker ends its dial without a lane and closes the connection.
Drop(w) ==
    /\ dial' = [dial EXCEPT ![w] = "down"]
    /\ lane' = [lane EXCEPT ![w] = NoConn]
    /\ got' = [got EXCEPT ![w] = 0]
    /\ alive' = alive \ {lane[w]}

\* exchangeAuth fails: the connection has broken.
AuthFails(w) ==
    /\ dial[w] = "auth"
    /\ lane[w] \notin alive
    /\ Drop(w)
    /\ UNCHANGED <<generation, handlerVars, paths, tableVars, faults>>

\* Mutant: the generations are not compared.
SettleAnyway(w, pinned) ==
    dial' = [dial EXCEPT ![w] = "up"] /\ UNCHANGED <<lane, got, alive>>

\* DialPath compares: the lane is good, or the server's state was reset.
Settle(w, pinned) ==
    IF got[w] = pinned
      THEN dial' = [dial EXCEPT ![w] = "up"] /\ UNCHANGED <<lane, got, alive>>
      ELSE Drop(w)

\* c.generation.Load: one that is set stays.
LoadGeneration(w) ==
    /\ dial[w] = "load"
    /\ IF generation = 0
         THEN dial' = [dial EXCEPT ![w] = "swap"] /\ UNCHANGED <<lane, got, alive>>
         ELSE Settle(w, generation)
    /\ UNCHANGED <<generation, handlerVars, paths, tableVars, faults>>

\* Mutant: the pin is not stored.
SwapNothing(w) ==
    /\ dial[w] = "swap"
    /\ Settle(w, generation)
    /\ UNCHANGED <<generation, handlerVars, paths, tableVars, faults>>

\* c.generation.CompareAndSwap(0, generation), and the second Load.
SwapGeneration(w) ==
    /\ dial[w] = "swap"
    /\ generation' = IF generation = 0 THEN got[w] ELSE generation
    /\ Settle(w, generation')
    /\ UNCHANGED <<handlerVars, paths, tableVars, faults>>

\* watchPath of the client: the lane is gone, and reconnectPath dials again.
LaneLost(w) ==
    /\ dial[w] = "up"
    /\ lane[w] \notin alive
    /\ Drop(w)
    /\ UNCHANGED <<generation, handlerVars, paths, tableVars, faults>>

-----------------------------------------------------------------------------
(***************************************************************************)
(* deleteSessionIfUnattached, called by a handler that created the session *)
(* it serves; the other handlers leave the table alone.                    *)
(***************************************************************************)
DeleteIfUnattached(c) ==
    session' = IF /\ created[c]
                  /\ session = serves[c]
                  /\ Pending(serves[c]) \ {c} = {}
                  /\ Active(serves[c]) = {}
                 THEN 0 ELSE session

\* handleQUICConn: the ack is written, ...
WriteAck(c) ==
    /\ handler[c] = "ack"
    /\ c \in alive
    /\ handler' = [handler EXCEPT ![c] = "attach"]
    /\ UNCHANGED <<clientVars, alive, serves, created, paths, tableVars, faults>>

\* ... or cannot be, ...
WriteAckFails(c) ==
    /\ handler[c] = "ack"
    /\ c \notin alive
    /\ handler' = [handler EXCEPT ![c] = "free"]
    /\ DeleteIfUnattached(c)
    /\ UNCHANGED <<clientVars, alive, serves, created, paths, closing, faults>>

\* ... AttachServerConn adds the lane to the relay, ...
AttachServerConn(c) ==
    /\ handler[c] = "attach"
    /\ handler' = [handler EXCEPT ![c] = "serving"]
    /\ paths' = paths \cup {c}
    /\ UNCHANGED <<clientVars, alive, serves, created, tableVars, faults>>

\* ... and the handler waits for the end of the connection.
HandlerReturns(c) ==
    /\ handler[c] = "serving"
    /\ c \notin alive
    /\ handler' = [handler EXCEPT ![c] = "free"]
    /\ DeleteIfUnattached(c)
    /\ UNCHANGED <<clientVars, alive, serves, created, paths, closing, faults>>

\* watchPath of the session's relay
PathRemoved(c) ==
    /\ c \in paths
    /\ c \notin alive
    /\ paths' = paths \ {c}
    /\ UNCHANGED <<clientVars, alive, handlerVars, tableVars, faults>>

\* reapLoop and deleteIdleSession: the session is old and has no lanes.
Reap ==
    /\ session # 0
    /\ Pending(session) = {} /\ Active(session) = {}
    /\ session' = 0
    /\ UNCHANGED <<clientVars, alive, handlerVars, paths, closing, faults>>

\* closeServerSessions, in a goroutine: the lanes of an evicted session end.
EvictedCloses(g) ==
    /\ g \in closing
    /\ closing' = closing \ {g}
    /\ alive' = alive \ Active(g)
    /\ UNCHANGED <<clientVars, handlerVars, paths, session, faults>>

-----------------------------------------------------------------------------
Fault(kind) == kind \in Faults /\ faults < MaxFaults /\ faults' = faults + 1

\* The network breaks a connection.
ConnBreaks(c) ==
    /\ Fault("break")
    /\ c \in alive
    /\ alive' = alive \ {c}
    /\ UNCHANGED <<clientVars, handlerVars, paths, tableVars>>

\* Another device of the user needs room: evictSupersededUserSessionsLocked.
Evict ==
    /\ Fault("evict")
    /\ session # 0
    /\ Pending(session) = {}
    /\ session' = 0
    /\ closing' = closing \cup {session}
    /\ UNCHANGED <<clientVars, alive, handlerVars, paths>>

\* The server is restarted; sessions are in memory only.
ServerRestarts ==
    /\ Fault("restart")
    /\ alive' = {}
    /\ handler' = [c \in Connections |-> "free"]
    /\ paths' = {}
    /\ session' = 0
    /\ closing' = {}
    /\ UNCHANGED <<clientVars, serves, created>>

-----------------------------------------------------------------------------
WorkerStep(w) ==
    \/ \E c \in Connections : Dial(w, c)
    \/ AckArrives(w)
    \/ AuthFails(w)
    \/ LoadGeneration(w)
    \/ SwapGeneration(w)
    \/ LaneLost(w)

HandlerStep(c) ==
    \/ WriteAck(c)
    \/ WriteAckFails(c)
    \/ AttachServerConn(c)
    \/ HandlerReturns(c)

GenerationNext ==
    \/ \E w \in Workers : WorkerStep(w)
    \/ \E c \in Connections : HandlerStep(c) \/ PathRemoved(c) \/ ConnBreaks(c)
    \/ \E g \in Generations : EvictedCloses(g)
    \/ Reap
    \/ Evict
    \/ ServerRestarts

GenerationSpec == GenerationInit /\ [][GenerationNext]_generationVars

(***************************************************************************)
(* Goroutines run, a dial reaches the server, and the faults are finitely  *)
(* many: the network is quiet in the end.  The reaper owes nothing.        *)
(***************************************************************************)
FairSpec ==
    /\ GenerationSpec
    /\ \A w \in Workers : SF_generationVars(WorkerStep(w))
    /\ \A c \in Connections : WF_generationVars(HandlerStep(c)) /\ WF_generationVars(PathRemoved(c))
    /\ \A g \in Generations : WF_generationVars(EvictedCloses(g))

-----------------------------------------------------------------------------
(***************************************************************************)
(* The lanes a client uses all end in one session of the server, whatever  *)
(* was evicted, reaped or restarted between their handshakes: the reason   *)
(* why DialPath compares the generations.                                  *)
(***************************************************************************)
OneSession ==
    \A w, v \in Workers :
        dial[w] = "up" /\ dial[v] = "up" /\ {lane[w], lane[v]} \subseteq alive
            => serves[lane[w]] = serves[lane[v]]

(***************************************************************************)
(* A client whose session the server keeps gets every lane back.           *)
(***************************************************************************)
KeptSessionRecovers ==
    <>[](generation # 0 => session = generation) => \A w \in Workers : []<>(dial[w] = "up")

(***************************************************************************)
(* docs/architecture.md: a lane that drops reconnects on its own.          *)
(***************************************************************************)
LaneReconnects == \A w \in Workers : []<>(dial[w] = "up")
=============================================================================
