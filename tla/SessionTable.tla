---------------------------- MODULE SessionTable ----------------------------
(***************************************************************************)
(* The server's table of sessions (transport/call/vk-parasite/server.go).  *)
(*                                                                         *)
(* Every QUIC connection is served by a goroutine of its own, which        *)
(* authenticates a worker and attaches its connection as a lane to the     *)
(* relay of the worker's session; the first worker of a session creates    *)
(* it.  The goroutines share the table and its accounting (sessionsMu),    *)
(* the relays (pathsMu of each) and the slots for pending handshakes.      *)
(* Against them run the reaper, the watchers of the lanes, the goroutines  *)
(* that close the relays of evicted sessions, and Close.  A step is one    *)
(* critical section or one operation on a connection.                      *)
(*                                                                         *)
(* A handler stands for its connection too.  The random generation of a    *)
(* session is the identity of its object.                                  *)
(***************************************************************************)
EXTENDS Integers, FiniteSets

CONSTANTS
    Handlers,        \* QUIC connections, each with its goroutine
    SessionIds,      \* the session ids clients chose
    Users,           \* s.users
    Requests,        \* authenticated requests: the id, the user and the rest
                     \* (conv and worker total) that name a session
    Sessions,        \* serverSession objects there can be at one time
    NoSession,       \* nil
    NoRequest,       \* the request behind an object not used yet
    MaxSessions,     \* options.MaxSessions
    MaxUserSessions, \* maxSessions of each user
    MaxPending,      \* options.MaxPendingHandshakes
    PromptSetup      \* whether SessionHandler always returns before the
                     \* session is older than the idle timeout (>= 30 s)

ASSUME TableAssumption ==
    /\ IsFiniteSet(Handlers)
    /\ IsFiniteSet(SessionIds)
    /\ NoSession \notin Sessions
    /\ Requests \subseteq [id : SessionIds, user : Users, conv : Nat]
    /\ NoRequest \notin Requests
    /\ MaxSessions \in Nat \ {0}
    /\ MaxUserSessions \in [Users -> 1..MaxSessions]
    /\ MaxPending \in Nat \ {0}
    /\ PromptSetup \in BOOLEAN

VARIABLES
    table,           \* s.sessions
    userSessions,    \* s.userSessions, 0 for a user that is absent
    origin,          \* id, user, conv and expected of a session
    ready,           \* sessions whose channel ready is closed
    setupErr,        \* sessions whose setupErr is set
    pendingAttaches, \* pendingAttaches of a session
    old,             \* sessions with createdAt before the reaper's cutoff
    relayPaths,      \* the lanes in the relay of a session
    closing,         \* removed sessions whose relay.Close has not run yet
    alive,           \* connections that are open
    pc,              \* where handleQUICConn stands
    session,         \* its local variable session
    created,         \* its local variable created
    pending,         \* slots taken in the channel s.pending
    reaping,         \* the local variable stale of reapLoop
    server           \* how far Close has come

tableVars == <<table, userSessions>>
sessionVars == <<origin, ready, setupErr, pendingAttaches, old>>
laneVars == <<relayPaths, closing, alive>>
handlerVars == <<pc, session, created, pending>>
vars == <<table, userSessions, origin, ready, setupErr, pendingAttaches, old,
          relayPaths, closing, alive, pc, session, created, pending, reaping, server>>

\* The handler holds a slot of s.pending.
HandshakePcs == {"accept", "auth", "setup", "waiting", "ack", "attach", "release", "undo", "undoDelete"}

\* The handler is between the acquisition and the release of an attach.
AttachPcs == {"ack", "attach", "release", "undo"}

Pcs == HandshakePcs \cup {"idle", "linger", "serving", "delete"}

(***************************************************************************)
(* The types of the variables; a handler knows its session exactly from    *)
(* the lookup on.                                                          *)
(***************************************************************************)
TypeOK ==
    /\ table \in [SessionIds -> Sessions \cup {NoSession}]
    /\ userSessions \in [Users -> Nat]
    /\ origin \in [Sessions -> Requests \cup {NoRequest}]
    /\ ready \subseteq Sessions
    /\ setupErr \subseteq ready
    /\ pendingAttaches \in [Sessions -> Nat]
    /\ old \subseteq Sessions
    /\ relayPaths \in [Sessions -> SUBSET Handlers]
    /\ closing \subseteq Sessions
    /\ alive \subseteq Handlers
    /\ pc \in [Handlers -> Pcs]
    /\ session \in [Handlers -> Sessions \cup {NoSession}]
    /\ \A h \in Handlers : session[h] = NoSession <=> pc[h] \in {"idle", "accept", "auth", "linger"}
    /\ created \in [Handlers -> BOOLEAN]
    /\ pending \in Nat
    /\ reaping \subseteq Sessions
    /\ server \in {"open", "cancelled", "disconnected", "swapped"}

\* NewServer and Start
Init ==
    /\ table = [i \in SessionIds |-> NoSession]
    /\ userSessions = [u \in Users |-> 0]
    /\ origin = [s \in Sessions |-> NoRequest]
    /\ ready = {}
    /\ setupErr = {}
    /\ pendingAttaches = [s \in Sessions |-> 0]
    /\ old = {}
    /\ relayPaths = [s \in Sessions |-> {}]
    /\ closing = {}
    /\ alive = {}
    /\ pc = [h \in Handlers |-> "idle"]
    /\ session = [h \in Handlers |-> NoSession]
    /\ created = [h \in Handlers |-> FALSE]
    /\ pending = 0
    /\ reaping = {}
    /\ server = "open"

-----------------------------------------------------------------------------
\* The ids of the sessions in the table, and those of one user.
Live == {i \in SessionIds : table[i] # NoSession}
UserLive(u) == {i \in Live : origin[table[i]].user = u}

\* s.sessions[id] == session
Current(s) == origin[s] # NoRequest /\ table[origin[s].id] = s

\* The handlers that hold an attach of session s.
Holders(s) == {h \in Handlers : session[h] = s /\ pc[h] \in AttachPcs}

\* No goroutine refers to s: the object may stand for the next session.
Unreferenced(s) ==
    /\ ~Current(s)
    /\ s \notin closing \cup reaping
    /\ relayPaths[s] = {}
    /\ \A h \in Handlers : session[h] # s

\* The handler moves on, keeps its slot and its session.
Goto(h, to) ==
    /\ pc' = [pc EXCEPT ![h] = to]
    /\ UNCHANGED <<session, created, pending>>

\* The handler returns; the deferred function releases a slot still held.
Return(h, to) ==
    /\ pc' = [pc EXCEPT ![h] = to]
    /\ session' = [session EXCEPT ![h] = NoSession]
    /\ created' = [created EXCEPT ![h] = FALSE]
    /\ pending' = IF pc[h] \in HandshakePcs THEN pending - 1 ELSE pending

\* Mutant: a refused connection keeps its slot.
RefuseHoldingSlot(h) ==
    /\ pc' = [pc EXCEPT ![h] = "linger"]
    /\ session' = [session EXCEPT ![h] = NoSession]
    /\ created' = [created EXCEPT ![h] = FALSE]
    /\ UNCHANGED pending

(***************************************************************************)
(* refuseConnection: the slot is released before the linger.               *)
(***************************************************************************)
Refuse(h) == Return(h, "linger")

\* acceptLoop, and the slot of handleQUICConn (without one it just closes).
\* Until the listener is closed, Accept may still win against the context.
Accept(h) ==
    /\ pc[h] = "idle"
    /\ h \notin alive
    /\ \A s \in Sessions : h \notin relayPaths[s]
    /\ server \in {"open", "cancelled"}
    /\ pending < MaxPending
    /\ pending' = pending + 1
    /\ pc' = [pc EXCEPT ![h] = "accept"]
    /\ alive' = alive \cup {h}
    /\ UNCHANGED <<tableVars, sessionVars, relayPaths, closing, session, created, reaping, server>>

\* AcceptStream fails, or handshakeCtx ends it.
AuthFails(h) ==
    /\ pc[h] = "accept"
    /\ Return(h, "idle")
    /\ alive' = alive \ {h}
    /\ UNCHANGED <<tableVars, sessionVars, relayPaths, closing, reaping, server>>

\* AcceptStream returns the worker's stream.
AcceptStream(h) ==
    /\ pc[h] = "accept"
    /\ Goto(h, "auth")
    /\ UNCHANGED <<tableVars, sessionVars, laneVars, reaping, server>>

\* readAuthRequest returns an error, or refuseAuth says no to the request.
AuthRefused(h) ==
    /\ pc[h] = "auth"
    /\ Refuse(h)
    /\ UNCHANGED <<tableVars, sessionVars, laneVars, reaping, server>>

\* The end of refuseConnection.
LingerEnds(h) ==
    /\ pc[h] = "linger"
    /\ Return(h, "idle")
    /\ alive' = alive \ {h}
    /\ UNCHANGED <<tableVars, sessionVars, relayPaths, closing, reaping, server>>

-----------------------------------------------------------------------------
(***************************************************************************)
(* getOrCreateSession, first critical section: the session exists.         *)
(***************************************************************************)
FindSession(h, r) ==
    LET s == table[r.id] IN
    /\ pc[h] = "auth"
    /\ s # NoSession
    /\ origin[s] = r
    /\ pc' = [pc EXCEPT ![h] = "waiting"]
    /\ session' = [session EXCEPT ![h] = s]
    /\ UNCHANGED <<tableVars, sessionVars, laneVars, created, pending, reaping, server>>

\* ... but under another identity.
IdentityMismatch(h, r) ==
    /\ pc[h] = "auth"
    /\ table[r.id] # NoSession
    /\ origin[table[r.id]] # r
    /\ Refuse(h)
    /\ UNCHANGED <<tableVars, sessionVars, laneVars, reaping, server>>

\* Mutant: the eviction ignores workers that are about to attach.
EvictableWhileAttaching(u) == {i \in UserLive(u) : table[i] \in ready}

(***************************************************************************)
(* evictSupersededUserSessionsLocked: which sets of sessions it may remove *)
(* (the iteration order of the map is arbitrary).                          *)
(***************************************************************************)
Evictable(u) == {i \in UserLive(u) : pendingAttaches[table[i]] = 0 /\ table[i] \in ready}

Needed(u) == IF userSessions[u] >= MaxUserSessions[u]
               THEN userSessions[u] - MaxUserSessions[u] + 1
               ELSE 1

MustEvict(u) == Cardinality(Live) >= MaxSessions \/ userSessions[u] >= MaxUserSessions[u]

CanEvict(u, E) ==
    IF MustEvict(u)
      THEN /\ E \subseteq Evictable(u)
           /\ Cardinality(E) <= Needed(u)
           /\ Cardinality(E) < Needed(u) => E = Evictable(u)
      ELSE E = {}

\* Mutants: a limit that is off by one, and limits that were read before the
\* eviction.
HasRoomForOneTooMany(u, E) ==
    /\ Cardinality(Live \ E) <= MaxSessions
    /\ userSessions[u] - Cardinality(E) <= MaxUserSessions[u]

HasRoomBeforeEviction(u, E) ==
    /\ Cardinality(Live) < MaxSessions
    /\ userSessions[u] < MaxUserSessions[u]

\* The two limits, checked again after the eviction of E.
HasRoom(u, E) ==
    /\ Cardinality(Live \ E) < MaxSessions
    /\ userSessions[u] - Cardinality(E) < MaxUserSessions[u]

\* Mutant: the relays of the evicted sessions are never closed.
EvictedUnclosed(E) == {}

\* The relays of the evicted sessions are closed by goroutines of their own.
Evicted(E) == {table[i] : i \in E}

\* Subtraction that stops at zero: the user's entry is deleted then.
Less(n, k) == IF n <= k THEN 0 ELSE n - k

(***************************************************************************)
(* getOrCreateSession, the session does not exist: evict, then insert a    *)
(* new one and call SessionHandler ...                                     *)
(***************************************************************************)
CreateSession(h, r, E, s) ==
    /\ pc[h] = "auth"
    /\ table[r.id] = NoSession
    /\ CanEvict(r.user, E)
    /\ HasRoom(r.user, E)
    /\ Unreferenced(s)
    /\ table' = [i \in SessionIds |-> IF i = r.id THEN s
                                      ELSE IF i \in E THEN NoSession ELSE table[i]]
    /\ userSessions' = [userSessions EXCEPT ![r.user] = Less(@, Cardinality(E)) + 1]
    /\ closing' = closing \cup Evicted(E)
    /\ origin' = [origin EXCEPT ![s] = r]
    /\ ready' = ready \ {s}
    /\ setupErr' = setupErr \ {s}
    /\ pendingAttaches' = [pendingAttaches EXCEPT ![s] = 0]
    /\ old' = old \ {s}
    /\ pc' = [pc EXCEPT ![h] = "setup"]
    /\ session' = [session EXCEPT ![h] = s]
    /\ created' = [created EXCEPT ![h] = TRUE]
    /\ UNCHANGED <<relayPaths, alive, pending, reaping, server>>

\* ... or refuse: the limits still stand in the way.
LimitReached(h, r, E) ==
    /\ pc[h] = "auth"
    /\ table[r.id] = NoSession
    /\ CanEvict(r.user, E)
    /\ ~HasRoom(r.user, E)
    /\ table' = [i \in SessionIds |-> IF i \in E THEN NoSession ELSE table[i]]
    /\ userSessions' = [userSessions EXCEPT ![r.user] = Less(@, Cardinality(E))]
    /\ closing' = closing \cup Evicted(E)
    /\ Refuse(h)
    /\ UNCHANGED <<sessionVars, relayPaths, alive, reaping, server>>

\* Take s out of the table and of the accounting; its relay is to be closed,
\* by the same goroutine or by another one: RelayCloses, at any later time.
Remove(s) ==
    /\ table' = [table EXCEPT ![origin[s].id] = NoSession]
    /\ userSessions' = [userSessions EXCEPT ![origin[s].user] = Less(@, 1)]
    /\ closing' = closing \cup {s}

\* SessionHandler has returned: second critical section of the creator.
SetupSucceeds(h) ==
    LET s == session[h] IN
    /\ pc[h] = "setup"
    /\ ready' = ready \cup {s}
    /\ pendingAttaches' = IF Current(s) THEN [pendingAttaches EXCEPT ![s] = @ + 1]
                                        ELSE pendingAttaches
    /\ Goto(h, "ack")
    /\ UNCHANGED <<tableVars, origin, setupErr, old, laneVars, reaping, server>>

\* Mutant: a failed setup returns before it closes ready.
SetupFailsSilently(h) ==
    LET s == session[h] IN
    /\ pc[h] = "setup"
    /\ setupErr' = setupErr \cup {s}
    /\ IF Current(s) THEN Remove(s)
                     ELSE closing' = closing \cup {s} /\ UNCHANGED tableVars
    /\ Refuse(h)
    /\ UNCHANGED <<origin, ready, pendingAttaches, old, relayPaths, alive, reaping, server>>

SetupFails(h) ==
    LET s == session[h] IN
    /\ pc[h] = "setup"
    /\ ready' = ready \cup {s}
    /\ setupErr' = setupErr \cup {s}
    /\ IF Current(s) THEN Remove(s)
                     ELSE closing' = closing \cup {s} /\ UNCHANGED tableVars
    /\ Refuse(h)
    /\ UNCHANGED <<origin, pendingAttaches, old, relayPaths, alive, reaping, server>>

\* Another worker of the session: ready is closed, look again.
JoinSession(h) ==
    LET s == session[h] IN
    /\ pc[h] = "waiting"
    /\ s \in ready
    /\ IF Current(s) /\ s \notin setupErr
         THEN /\ pendingAttaches' = [pendingAttaches EXCEPT ![s] = @ + 1]
              /\ Goto(h, "ack")
         ELSE /\ Refuse(h)
              /\ UNCHANGED pendingAttaches
    /\ UNCHANGED <<tableVars, origin, ready, setupErr, old, laneVars, reaping, server>>

WaitCancelled(h) ==
    /\ pc[h] = "waiting"
    /\ server # "open"
    /\ Refuse(h)
    /\ UNCHANGED <<tableVars, sessionVars, laneVars, reaping, server>>

-----------------------------------------------------------------------------
\* The ack is written, or not: the worker may be gone or refuse the stream.
AckWritten(h) ==
    /\ pc[h] = "ack"
    /\ h \in alive
    /\ Goto(h, "attach")
    /\ UNCHANGED <<tableVars, sessionVars, laneVars, reaping, server>>

AckFails(h) ==
    /\ pc[h] = "ack"
    /\ Goto(h, "undo")
    /\ UNCHANGED <<tableVars, sessionVars, laneVars, reaping, server>>

\* releaseSessionAttach
ReleaseAttach(s) == pendingAttaches' = [pendingAttaches EXCEPT ![s] = Less(@, 1)]

\* Mutant: a failed handshake keeps its attach.
UndoAttachLeaking(h) ==
    /\ pc[h] = "undo"
    /\ IF created[h] THEN Goto(h, "undoDelete") /\ UNCHANGED alive
                     ELSE Return(h, "idle") /\ alive' = alive \ {h}
    /\ UNCHANGED <<tableVars, sessionVars, relayPaths, closing, reaping, server>>

\* The failed handshake gives its attach back; its connection is closed when
\* the session needs no deletion by this handler.
UndoAttach(h) ==
    /\ pc[h] = "undo"
    /\ ReleaseAttach(session[h])
    /\ IF created[h] THEN Goto(h, "undoDelete") /\ UNCHANGED alive
                     ELSE Return(h, "idle") /\ alive' = alive \ {h}
    /\ UNCHANGED <<tableVars, origin, ready, setupErr, old, relayPaths, closing, reaping, server>>

\* session.relay.AttachServerConn: addPath does not look at relay.closed.
AttachServerConn(h) ==
    /\ pc[h] = "attach"
    /\ relayPaths' = [relayPaths EXCEPT ![session[h]] = @ \cup {h}]
    /\ Goto(h, "release")
    /\ UNCHANGED <<tableVars, sessionVars, closing, alive, reaping, server>>

\* releaseSessionAttach, then releasePending
FinishHandshake(h) ==
    /\ pc[h] = "release"
    /\ ReleaseAttach(session[h])
    /\ pc' = [pc EXCEPT ![h] = "serving"]
    /\ pending' = pending - 1
    /\ UNCHANGED <<tableVars, origin, ready, setupErr, old, laneVars, session, created, reaping, server>>

\* The connection or the server has ended.
StopServing(h) ==
    /\ pc[h] = "serving"
    /\ h \notin alive \/ server # "open"
    /\ IF created[h] THEN Goto(h, "delete") ELSE Return(h, "idle")
    /\ UNCHANGED <<tableVars, sessionVars, laneVars, reaping, server>>

\* The condition of deleteSessionIfUnattached and of deleteIdleSession.
Unattached(s) == Current(s) /\ pendingAttaches[s] = 0 /\ relayPaths[s] = {}

\* deleteSessionIfUnattached, by the handler that created the session; after
\* a failed ack its connection is closed then.
DeleteIfUnattached(h) ==
    /\ pc[h] \in {"delete", "undoDelete"}
    /\ IF Unattached(session[h]) THEN Remove(session[h]) ELSE UNCHANGED <<table, userSessions, closing>>
    /\ alive' = IF pc[h] = "undoDelete" THEN alive \ {h} ELSE alive
    /\ Return(h, "idle")
    /\ UNCHANGED <<sessionVars, relayPaths, reaping, server>>

-----------------------------------------------------------------------------
\* A connection ends: the worker closes it, or the network does.
ConnDies(h) ==
    /\ h \in alive
    /\ alive' = alive \ {h}
    /\ UNCHANGED <<tableVars, sessionVars, relayPaths, closing, handlerVars, reaping, server>>

\* watchPath of a lane takes it out of its relay; the server never redials.
WatchRemoves(h, s) ==
    /\ h \in relayPaths[s]
    /\ h \notin alive
    /\ relayPaths' = [relayPaths EXCEPT ![s] = @ \ {h}]
    /\ UNCHANGED <<tableVars, sessionVars, closing, alive, handlerVars, reaping, server>>

\* relay.Close of a removed session: its lanes are closed and forgotten.
RelayCloses(s) ==
    /\ s \in closing
    /\ closing' = closing \ {s}
    /\ alive' = alive \ relayPaths[s]
    /\ relayPaths' = [relayPaths EXCEPT ![s] = {}]
    /\ UNCHANGED <<tableVars, sessionVars, handlerVars, reaping, server>>

\* Time passes: the age of a session exceeds SessionIdleTimeout.
Ages(s) ==
    /\ Current(s)
    /\ s \notin old
    /\ PromptSetup => s \in ready
    /\ old' = old \cup {s}
    /\ UNCHANGED <<tableVars, origin, ready, setupErr, pendingAttaches, laneVars, handlerVars, reaping, server>>

\* Mutant: only a session that never got its relay is stale.
StaleWithoutRelay == {s \in old : Unattached(s) /\ s \notin ready}

\* reapLoop: collect the sessions to delete in one critical section ...
Stale == {s \in old : Unattached(s)}

ReapScan ==
    /\ reaping = {}
    /\ Stale # {}
    /\ reaping' = Stale
    /\ UNCHANGED <<tableVars, sessionVars, laneVars, handlerVars, server>>

\* Mutant: the reaper trusts its list.
DeleteIdleSessionUnchecked(s) ==
    /\ s \in reaping
    /\ reaping' = reaping \ {s}
    /\ Remove(s)
    /\ UNCHANGED <<sessionVars, relayPaths, alive, handlerVars, server>>

\* ... and delete each in another one, if nothing has changed since.
DeleteIdleSession(s) ==
    /\ s \in reaping
    /\ reaping' = reaping \ {s}
    /\ IF Unattached(s) THEN Remove(s) ELSE UNCHANGED <<table, userSessions, closing>>
    /\ UNCHANGED <<sessionVars, relayPaths, alive, handlerVars, server>>

-----------------------------------------------------------------------------
\* Close: the context, the connections, then the table.
CloseCancels ==
    /\ server = "open"
    /\ server' = "cancelled"
    /\ UNCHANGED <<tableVars, sessionVars, laneVars, handlerVars, reaping>>

CloseDisconnects ==
    /\ server = "cancelled"
    /\ server' = "disconnected"
    /\ alive' = {}
    /\ UNCHANGED <<tableVars, sessionVars, relayPaths, closing, handlerVars, reaping>>

CloseSwaps ==
    /\ server = "disconnected"
    /\ server' = "swapped"
    /\ closing' = closing \cup {table[i] : i \in Live}
    /\ table' = [i \in SessionIds |-> NoSession]
    /\ userSessions' = [u \in Users |-> 0]
    /\ UNCHANGED <<sessionVars, relayPaths, alive, handlerVars, reaping>>

-----------------------------------------------------------------------------
Lookup(h, r) ==
    \/ FindSession(h, r)
    \/ IdentityMismatch(h, r)
    \/ \E E \in SUBSET SessionIds :
          \/ \E s \in Sessions : CreateSession(h, r, E, s)
          \/ LimitReached(h, r, E)

AwaitStream(h) == AuthFails(h) \/ AcceptStream(h)

\* What readAuthRequest waits for: no deadline ends it.
Authenticate(h) ==
    \/ AuthRefused(h)
    \/ \E r \in Requests : Lookup(h, r)

HandlerStep(h) ==
    \/ LingerEnds(h)
    \/ SetupSucceeds(h) \/ SetupFails(h)
    \/ JoinSession(h) \/ WaitCancelled(h)
    \/ AckWritten(h) \/ AckFails(h)
    \/ UndoAttach(h)
    \/ AttachServerConn(h)
    \/ FinishHandshake(h)
    \/ StopServing(h)
    \/ DeleteIfUnattached(h)

SessionStep(s) ==
    \/ RelayCloses(s)
    \/ Ages(s)
    \/ DeleteIdleSession(s)
    \/ \E h \in Handlers : WatchRemoves(h, s)

Next ==
    \/ \E h \in Handlers : Accept(h) \/ AwaitStream(h) \/ Authenticate(h) \/ HandlerStep(h) \/ ConnDies(h)
    \/ \E s \in Sessions : SessionStep(s)
    \/ ReapScan
    \/ CloseCancels \/ CloseDisconnects \/ CloseSwaps

Spec == Init /\ [][Next]_vars

(***************************************************************************)
(* Goroutines are scheduled; SessionHandler returns; the acks fit in the   *)
(* window of a fresh stream; handshakeCtx ends the wait for the stream;    *)
(* time passes, the reaper's ticker fires and a Close that has begun goes  *)
(* on.  The read of the request has no deadline, and keep-alives hold the *)
(* connection of a silent peer open: the read returns for certain only     *)
(* when the connection has ended.  Nothing obliges a peer to come, to      *)
(* speak or to leave, or the server to close.                              *)
(***************************************************************************)
Fairness ==
    /\ \A h \in Handlers :
          /\ WF_vars(AwaitStream(h))
          /\ WF_vars(AuthRefused(h) /\ h \notin alive)
          /\ WF_vars(HandlerStep(h))
    /\ \A s \in Sessions :
          /\ WF_vars(RelayCloses(s))
          /\ WF_vars(Ages(s))
          /\ WF_vars(DeleteIdleSession(s))
          /\ \A h \in Handlers : WF_vars(WatchRemoves(h, s))
    /\ WF_vars(ReapScan /\ server = "open")
    /\ WF_vars(CloseDisconnects \/ CloseSwaps)

FairSpec == Spec /\ Fairness

-----------------------------------------------------------------------------
(***************************************************************************)
(* The two views of the table agree: userSessions counts, for each user,   *)
(* the sessions that are in it, through every creation, eviction, failed   *)
(* setup, deletion by two different goroutines, and Close.                 *)
(***************************************************************************)
UserAccounting ==
    \A u \in Users : userSessions[u] = Cardinality(UserLive(u))

(***************************************************************************)
(* The limits of the options are kept.                                     *)
(***************************************************************************)
SessionLimits ==
    /\ Cardinality(Live) <= MaxSessions
    /\ \A u \in Users : userSessions[u] <= MaxUserSessions[u]

(***************************************************************************)
(* The count that protects a session from eviction and reaping is the      *)
(* number of handshakes on their way to attach a lane to it.               *)
(***************************************************************************)
AttachAccounting ==
    \A s \in Sessions : Current(s) => pendingAttaches[s] = Cardinality(Holders(s))

(***************************************************************************)
(* A worker that was told "accepted" finds its session still in the table  *)
(* when its lane is attached: no eviction, reaper or deletion by another   *)
(* handler comes between, only Close of the server does.                   *)
(***************************************************************************)
AttachIsProtected ==
    PromptSetup =>
        \A h \in Handlers : pc[h] \in AttachPcs => Current(session[h]) \/ server = "swapped"

(***************************************************************************)
(* No lane outlives its session: one that is open belongs to a session of  *)
(* the table, or to one whose relay is about to be closed.                 *)
(***************************************************************************)
NoOrphanLane ==
    PromptSetup =>
        \A s \in Sessions : relayPaths[s] \cap alive # {} => Current(s) \/ s \in closing

(***************************************************************************)
(* Every slot taken in s.pending belongs to one handshake in progress,     *)
(* whichever of its early returns a handler takes.                         *)
(***************************************************************************)
SlotAccounting ==
    /\ pending = Cardinality({h \in Handlers : pc[h] \in HandshakePcs})
    /\ pending <= MaxPending

(***************************************************************************)
(* Nobody is evicted in vain: a request that is refused for a limit or for *)
(* another identity has cost its user no session.  (A setup that fails     *)
(* after an eviction has: the eviction is not undone.)                     *)
(***************************************************************************)
NoEvictionInVain ==
    [][\A h \in Handlers : pc[h] = "auth" /\ pc'[h] = "linger" => table' = table]_vars

\* A session in the table with no lane and no handshake.
Idle(s) == Current(s) /\ relayPaths[s] = {} /\ Holders(s) = {}

(***************************************************************************)
(* A session that no worker uses does not stay: one without lanes and      *)
(* without a handshake on its way is removed in the end, or used again.    *)
(***************************************************************************)
IdleSessionsGo == \A s \in Sessions : []<>(~Idle(s) \/ server # "open")

(***************************************************************************)
(* The server holds no handshake up: the wait for a stream, the setup,     *)
(* the wait for the setup of another handler, the ack, the attach and all  *)
(* their failures end and give the slot back, whoever removes the session  *)
(* meanwhile.  Only an open connection whose request has not come keeps a  *)
(* slot.                                                                   *)
(***************************************************************************)
HandshakesEnd ==
    \A h \in Handlers :
        pc[h] \in HandshakePcs ~> pc[h] \notin HandshakePcs \/ (pc[h] = "auth" /\ h \in alive)

(***************************************************************************)
(* What docs/configuration.md says of handshake_timeout, "per-handshake    *)
(* deadline": a handshake ends, whatever the peer does.  The code passes   *)
(* handshakeCtx to AcceptStream and to nothing after it, so this fails.    *)
(***************************************************************************)
HandshakeDeadline ==
    \A h \in Handlers : pc[h] \in HandshakePcs ~> pc[h] \notin HandshakePcs

-----------------------------------------------------------------------------
(***************************************************************************)
(* What the invariants above need to be inductive.                         *)
(***************************************************************************)
\* The key of a session in the table is its id.
KeysAreIds == \A i \in Live : origin[table[i]] # NoRequest /\ origin[table[i]].id = i

\* The sessions goroutines refer to have been created.
HeldAreCreated ==
    /\ \A h \in Handlers : session[h] # NoSession => origin[session[h]] # NoRequest
    /\ \A s \in reaping : s \in old

\* A session is in setup until its one creator closes ready.
SetupIsExclusive ==
    /\ \A h \in Handlers : pc[h] = "setup" => session[h] \notin ready
    /\ \A h \in Handlers : pc[h] \in AttachPcs \cup {"serving", "delete", "undoDelete"} => session[h] \in ready
    /\ \A g, h \in Handlers : pc[g] = "setup" /\ pc[h] = "setup" /\ session[g] = session[h] => g = h

\* Nothing removes a session in setup if setups are prompt.
SetupIsProtected ==
    PromptSetup =>
        /\ old \subseteq ready
        /\ \A h \in Handlers : pc[h] = "setup" => Current(session[h]) \/ server = "swapped"

\* Close has ended every connection before it empties the table.
ClosedIsDisconnected == server \in {"disconnected", "swapped"} => alive = {}

TableInv ==
    /\ TypeOK
    /\ KeysAreIds
    /\ UserAccounting
    /\ SessionLimits
    /\ HeldAreCreated
    /\ SetupIsExclusive
    /\ AttachAccounting
    /\ SetupIsProtected
    /\ AttachIsProtected
    /\ ClosedIsDisconnected
    /\ NoOrphanLane
    /\ SlotAccounting
=============================================================================
