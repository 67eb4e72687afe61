------------------------------ MODULE Outbound ------------------------------
(***************************************************************************)
(* The life of a call outbound (protocol/call/outbound.go) around the lane *)
(* pool of the client it connects: Start hands the connecting to a         *)
(* goroutine (startHandler), Close may come before, during and after it,   *)
(* and InterfaceUpdated passes changes of the network on to the pool.      *)
(*                                                                         *)
(* A step is one atomic access, one channel operation or one call.  The    *)
(* goroutines of LanePool run as soon as call.Connect has created their    *)
(* relay, whether or not the outbound has got hold of the bridge yet.      *)
(***************************************************************************)
EXTENDS LanePool

VARIABLES
    startPc,      \* where Start(StartStatePostStart) stands
    handlerPc,    \* where startHandler stands
    closePc,      \* where the first call of Close stands
    started,      \* o.started
    closed,       \* o.closed
    await,        \* whether o.await is closed
    bridge,       \* o.bridge # nil
    relayUp,      \* whether call.Connect has created the client and its relay
    updating      \* calls of InterfaceUpdated that passed its conditions

startVars == <<startPc, started>>
outboundVars == <<startPc, handlerPc, closePc, started, closed, await, bridge, relayUp, updating>>
allVars == <<vars, outboundVars>>

OutboundTypeOK ==
    /\ startPc \in {"idle", "open", "done"}
    /\ handlerPc \in {"none", "connecting", "connected", "publishing", "closing", "finishing", "done"}
    /\ closePc \in {"idle", "cancel", "started", "await", "bridge", "closing", "done"}
    /\ {started, closed, await, bridge, relayUp} \subseteq BOOLEAN
    /\ updating \subseteq Rebinders

OutboundInit ==
    /\ Init
    /\ startPc = "idle"
    /\ handlerPc = "none"
    /\ closePc = "idle"
    /\ started = FALSE
    /\ closed = FALSE
    /\ await = FALSE
    /\ bridge = FALSE
    /\ relayUp = FALSE
    /\ updating = {}

-----------------------------------------------------------------------------
\* Start: an outbound that is closed already is only declared started,
StartLooks ==
    /\ startPc = "idle"
    /\ startPc' = IF closed THEN "done" ELSE "open"
    /\ await' = (await \/ closed)
    /\ UNCHANGED <<handlerPc, closePc, started, closed, bridge, relayUp, updating, vars>>

\* any other one connects in a goroutine of its own.
StartSpawns ==
    /\ startPc = "open"
    /\ startPc' = "done"
    /\ started' = TRUE
    /\ handlerPc' = "connecting"
    /\ UNCHANGED <<closePc, closed, await, bridge, relayUp, updating, vars>>

\* call.Connect creates the client, perhaps from a context that is cancelled.
HandlerConnects ==
    /\ handlerPc = "connecting"
    /\ handlerPc' = "connected"
    /\ relayUp' = TRUE
    /\ UNCHANGED <<startVars, closePc, closed, await, bridge, updating, vars>>

HandlerFails ==
    /\ handlerPc = "connecting"
    /\ handlerPc' = "finishing"
    /\ UNCHANGED <<startVars, closePc, closed, await, bridge, relayUp, updating, vars>>

\* Mutant: the handler does not look whether the outbound was closed meanwhile.
HandlerTrusts ==
    /\ handlerPc = "connected"
    /\ handlerPc' = "publishing"
    /\ UNCHANGED <<startVars, closePc, closed, await, bridge, relayUp, updating, vars>>

HandlerLooks ==
    /\ handlerPc = "connected"
    /\ handlerPc' = IF closed THEN "closing" ELSE "publishing"
    /\ UNCHANGED <<startVars, closePc, closed, await, bridge, relayUp, updating, vars>>

HandlerPublishes ==
    /\ handlerPc = "publishing"
    /\ handlerPc' = "finishing"
    /\ bridge' = TRUE
    /\ UNCHANGED <<startVars, closePc, closed, await, relayUp, updating, vars>>

\* bridge.Close by the handler: Client.Close, whose steps are PoolCloseStep
HandlerHasClosed ==
    /\ handlerPc = "closing"
    /\ shutdown = "drained"
    /\ handlerPc' = "finishing"
    /\ UNCHANGED <<startVars, closePc, closed, await, bridge, relayUp, updating, vars>>

\* Mutant: finishStart is skipped by the early returns.
HandlerFinishesIfPublished ==
    /\ handlerPc = "finishing"
    /\ handlerPc' = "done"
    /\ await' = (await \/ bridge)
    /\ UNCHANGED <<startVars, closePc, closed, bridge, relayUp, updating, vars>>

\* The deferred finishStart
HandlerFinishes ==
    /\ handlerPc = "finishing"
    /\ handlerPc' = "done"
    /\ await' = TRUE
    /\ UNCHANGED <<startVars, closePc, closed, bridge, relayUp, updating, vars>>

-----------------------------------------------------------------------------
CloseBegins ==
    /\ closePc = "idle"
    /\ closePc' = "cancel"
    /\ closed' = TRUE
    /\ UNCHANGED <<startVars, handlerPc, await, bridge, relayUp, updating, vars>>

\* o.cancel: the parent of the context of the client, there already or not
CloseCancelsRun ==
    /\ closePc = "cancel"
    /\ closePc' = "started"
    /\ CloseCancels \/ (IsCancelled /\ UNCHANGED vars)
    /\ UNCHANGED <<startVars, handlerPc, closed, await, bridge, relayUp, updating>>

\* A start in progress is awaited; one that did not begin never will.
CloseReadsStarted ==
    /\ closePc = "started"
    /\ closePc' = IF started THEN "await" ELSE "bridge"
    /\ await' = (await \/ ~started)
    /\ UNCHANGED <<startVars, handlerPc, closed, bridge, relayUp, updating, vars>>

CloseAwaits ==
    /\ closePc = "await"
    /\ await
    /\ closePc' = "bridge"
    /\ UNCHANGED <<startVars, handlerPc, closed, await, bridge, relayUp, updating, vars>>

CloseReadsBridge ==
    /\ closePc = "bridge"
    /\ closePc' = IF bridge THEN "closing" ELSE "done"
    /\ UNCHANGED <<startVars, handlerPc, closed, await, bridge, relayUp, updating, vars>>

CloseHasClosed ==
    /\ closePc = "closing"
    /\ shutdown = "drained"
    /\ closePc' = "done"
    /\ UNCHANGED <<startVars, handlerPc, closed, await, bridge, relayUp, updating, vars>>

-----------------------------------------------------------------------------
(***************************************************************************)
(* InterfaceUpdated: a change before the bridge is there, or after Close   *)
(* has begun, is dropped.  Then RebindNetwork, which ignores a generation  *)
(* that is not new.                                                        *)
(***************************************************************************)
UpdatePasses(r) ==
    /\ r \notin updating
    /\ rebindPc[r] = "idle"
    /\ ~closed /\ await /\ bridge
    /\ updating' = updating \cup {r}
    /\ UNCHANGED <<startVars, handlerPc, closePc, closed, await, bridge, relayUp, vars>>

UpdateRebinds(r, g) ==
    /\ r \in updating
    /\ updating' = updating \ {r}
    /\ \/ RebindAdmits(r, g)
       \/ g # 0 /\ g <= applied /\ UNCHANGED vars
    /\ UNCHANGED <<startVars, handlerPc, closePc, closed, await, bridge, relayUp>>

\* The goroutines of the pool
PoolStep ==
    /\ relayUp
    /\ \/ \E w \in Workers : WorkerStep(w)
       \/ \E c \in Conns : ConnDies(c) \/ WatchStep(c)
       \/ \E r \in Rebinders : RebindStep(r)
    /\ UNCHANGED outboundVars

\* Client.Close, under bridge.Close
PoolCloseStep ==
    /\ closePc = "closing" \/ handlerPc = "closing"
    /\ CloseStep
    /\ UNCHANGED outboundVars

HandlerStep ==
    \/ HandlerConnects \/ HandlerFails
    \/ HandlerLooks \/ HandlerPublishes \/ HandlerHasClosed \/ HandlerFinishes

CloseCallStep ==
    \/ CloseCancelsRun \/ CloseReadsStarted
    \/ CloseAwaits \/ CloseReadsBridge \/ CloseHasClosed

OutboundNext ==
    \/ StartLooks \/ StartSpawns
    \/ HandlerStep
    \/ CloseBegins \/ CloseCallStep
    \/ \E r \in Rebinders : UpdatePasses(r) \/ \E g \in NetworkGenerations : UpdateRebinds(r, g)
    \/ PoolStep
    \/ PoolCloseStep

OutboundSpec == OutboundInit /\ [][OutboundNext]_allVars

\* A step of a goroutine of the pool
OfPool(A) == relayUp /\ A /\ UNCHANGED outboundVars

(***************************************************************************)
(* Goroutines are scheduled, timers fire, a dial returns (each of its      *)
(* parts has a timeout), and a worker that dials over and over again does  *)
(* not fail every time.  call.Connect only resolves a name and returns.    *)
(* Nothing obliges a connection to die, the platform to report a new       *)
(* network or the user to start or close the outbound.                     *)
(***************************************************************************)
Fairness ==
    /\ WF_allVars(StartSpawns)
    /\ WF_allVars(HandlerStep)
    /\ WF_allVars(CloseCallStep)
    /\ WF_allVars(PoolCloseStep)
    /\ \A w \in Workers :
          /\ WF_allVars(OfPool(BeginDial(w)))
          /\ WF_allVars(OfPool((\E c \in Conns : DialSucceeds(w, c)) \/ DialFails(w) \/ DialFailsTerminally(w)))
          /\ SF_allVars(OfPool(\E c \in Conns : DialSucceeds(w, c)))
          /\ WF_allVars(OfPool(BackoffElapses(w)))
          /\ WF_allVars(OfPool(AdmitPath(w) \/ RefusePath(w)))
          /\ WF_allVars(OfPool(InitPathDone(w)))
    /\ \A c \in Conns : WF_allVars(OfPool(WatchStep(c)))
    /\ \A r \in Rebinders : WF_allVars(OfPool(RebindStep(r)))

FairSpec == OutboundSpec /\ Fairness

-----------------------------------------------------------------------------
(***************************************************************************)
(* No bridge outlives its outbound: once Close has returned and the        *)
(* goroutine of Start is through, the client that goroutine connected is   *)
(* closed, although Close and startHandler decide by flags of each other   *)
(* (closed, started) which of the two has to do it.                        *)
(***************************************************************************)
NoBridgeOutlivesClose ==
    relayUp /\ closePc = "done" /\ handlerPc = "done" => shutdown = "drained"

-----------------------------------------------------------------------------
\* Close has found no start in progress, or has awaited its end.
PastStart == closePc \in {"bridge", "closing", "done"}

(***************************************************************************)
(* What NoBridgeOutlivesClose needs to be inductive.  The one who comes    *)
(* second sees the flag of the first: a bridge is about to be published    *)
(* only while Close is still going to look for it.                         *)
(***************************************************************************)
OutboundInv ==
    /\ OutboundTypeOK
    /\ started <=> handlerPc # "none"
    /\ started => startPc = "done"
    /\ closed <=> closePc # "idle"
    /\ closePc = "await" => started
    /\ await => PastStart \/ (startPc = "done" /\ handlerPc \in {"none", "done"})
    /\ relayUp => handlerPc \notin {"none", "connecting"}
    /\ bridge => handlerPc \in {"finishing", "done"}
    /\ handlerPc = "publishing" => ~PastStart
    /\ handlerPc \in {"finishing", "done"} /\ relayUp => bridge \/ shutdown = "drained"
    /\ closePc = "done" /\ bridge => shutdown = "drained"

\* Worker w has a lane of the current generation in the pool.
HasLane(w) == \E c \in paths : owner[c] = w /\ connGen[c] = generation

(***************************************************************************)
(* Every worker gets its lane back: after a failed dial, a refusal, the    *)
(* death of its lane or a rebind it is in the pool again with a lane of    *)
(* the current generation, unless a terminal failure or Close came first.  *)
(***************************************************************************)
LaneRecovers ==
    \A w \in Workers :
        relayUp /\ shutdown = "open" /\ pc[w] # "terminal"
            ~> HasLane(w) \/ pc[w] = "terminal" \/ shutdown # "open"

(***************************************************************************)
(* The first attempts all come to an end, so the health loop leaves the    *)
(* starting state even when no lane ever came up (initialPathsPending).    *)
(***************************************************************************)
StartupSettles == relayUp ~> initialPending = 0

\* Nothing of the client is left: no connection, no goroutine of the pool.
Released ==
    /\ alive = {}
    /\ relayUp => \A w \in Workers : pc[w] \in {"none", "terminal"}
    /\ \A c \in Conns : watcher[c] = "none"

(***************************************************************************)
(* Close of the outbound returns, whenever it was called, and leaves       *)
(* nothing behind for good: not a lane that was being dialled when the     *)
(* pool was drained, and not a client that was connected too late.         *)
(***************************************************************************)
CloseReleasesAll == closed ~> [](closePc = "done" /\ Released)
=============================================================================
