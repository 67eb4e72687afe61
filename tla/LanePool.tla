------------------------------ MODULE LanePool ------------------------------
(***************************************************************************)
(* The client's pool of QUIC lanes (type QUICRelay of                      *)
(* transport/call/vk-parasite/quic_relay.go).                              *)
(*                                                                         *)
(* Every worker owns at most one lane.  Its first dial is made by the      *)
(* goroutine initPath, every later one by reconnectPath; a lane admitted   *)
(* to the pool is followed by the goroutine watchPath, which removes it    *)
(* when its QUIC connection dies and starts reconnectPath again.  Against  *)
(* them run RebindNetwork, which starts a new network generation and       *)
(* closes the lanes of the old one, and Close.  A step is what a goroutine *)
(* does between two points at which another one can observe it: one        *)
(* critical section of pathsMu, one atomic access, one call of dialPath.   *)
(*                                                                         *)
(* Times (the backoff between two dials) are left out: a timer may fire at *)
(* any moment.  The order of r.paths matters only to pickPath and is left  *)
(* out as well.                                                            *)
(***************************************************************************)
EXTENDS Naturals, FiniteSets

CONSTANTS
    Workers,        \* worker ids, 0 .. pathCount - 1 in the code
    Conns,          \* the QUIC connections there can be at one time
    NoConn,         \* no connection (nil)
    NoWorker,       \* the owner of a connection that was not dialled yet
    Rebinders,      \* goroutines that may be inside RebindNetwork
    NetworkGenerations, \* arguments of RebindNetwork, 0 for "none given"
    MaxGeneration   \* bound: rotations of the generation context

ASSUME PoolAssumption ==
    /\ NoConn \notin Conns
    /\ NoWorker \notin Workers
    /\ NetworkGenerations \subseteq Nat
    /\ MaxGeneration \in Nat

VARIABLES
    shutdown,     \* how far Client.Close and Close of the relay have come
    generation,   \* which generation context r.generationCtx is
    applied,      \* r.appliedNetworkGeneration
    paths,        \* r.paths
    alive,        \* connections whose Context() is not done
    owner,        \* the worker a connection was dialled for
    connGen,      \* the generation context a connection was dialled under
    watcher,      \* where watchPath of a connection stands
    pc,           \* where initPath / reconnectPath of a worker stands
    dialGen,      \* its local variable generationCtx
    dialConn,     \* its local variable conn, once the dial has returned
    initPhase,    \* whether the deferred function of initPath has run
    rebindPc,     \* where a goroutine inside RebindNetwork stands
    rebindPaths   \* its local variable paths, less what it closed already

rebindVars == <<applied, rebindPc, rebindPaths>>
dialVars == <<pc, dialGen, dialConn, initPhase>>
connVars == <<owner, connGen>>
vars == <<shutdown, generation, applied, paths, alive, owner, connGen, watcher,
          pc, dialGen, dialConn, initPhase, rebindPc, rebindPaths>>

(***************************************************************************)
(* "open" until Client.Close; then c.cancel has cancelled every context of *)
(* the relay, then r.closed is set, then the pool is drained.              *)
(***************************************************************************)
Shutdown == {"open", "cancelled", "closed", "drained"}

\* r.closed
IsClosed == shutdown \in {"closed", "drained"}

\* r.ctx.Err() # nil
IsCancelled == shutdown # "open"

(***************************************************************************)
(* The types of the variables; a dialling goroutine holds a connection     *)
(* exactly from the return of dialPath to the call of addCurrentPath.      *)
(***************************************************************************)
TypeOK ==
    /\ shutdown \in Shutdown
    /\ generation \in 0..MaxGeneration
    /\ applied \in NetworkGenerations \cup {0}
    /\ paths \subseteq Conns
    /\ alive \subseteq Conns
    /\ owner \in [Conns -> Workers \cup {NoWorker}]
    /\ connGen \in [Conns -> 0..MaxGeneration]
    /\ watcher \in [Conns -> {"none", "waiting", "removed"}]
    /\ pc \in [Workers -> {"none", "start", "dialing", "dialed", "backoff", "terminal"}]
    /\ dialGen \in [Workers -> 0..MaxGeneration]
    /\ dialConn \in [Workers -> Conns \cup {NoConn}]
    /\ \A w \in Workers : dialConn[w] = NoConn <=> pc[w] # "dialed"
    /\ initPhase \in [Workers -> {"running", "returning", "done"}]
    /\ rebindPc \in [Rebinders -> {"idle", "admitted", "closing"}]
    /\ rebindPaths \in [Rebinders -> SUBSET Conns]

\* NewQUICRelay and Start: the pool is empty and one initPath runs per worker.
Init ==
    /\ shutdown = "open"
    /\ generation = 0
    /\ applied = 0
    /\ paths = {}
    /\ alive = {}
    /\ owner = [c \in Conns |-> NoWorker]
    /\ connGen = [c \in Conns |-> 0]
    /\ watcher = [c \in Conns |-> "none"]
    /\ pc = [w \in Workers |-> "start"]
    /\ dialGen = [w \in Workers |-> 0]
    /\ dialConn = [w \in Workers |-> NoConn]
    /\ initPhase = [w \in Workers |-> "running"]
    /\ rebindPc = [r \in Rebinders |-> "idle"]
    /\ rebindPaths = [r \in Rebinders |-> {}]

-----------------------------------------------------------------------------
(***************************************************************************)
(* A connection value no goroutine refers to may stand for the next        *)
(* connection that is dialled.                                             *)
(***************************************************************************)
Unreferenced(c) ==
    /\ c \notin paths \cup alive
    /\ watcher[c] = "none"
    /\ \A w \in Workers : dialConn[w] # c
    /\ \A r \in Rebinders : c \notin rebindPaths[r]

\* initPath returns: what is left of it is its deferred function.
InitPathReturns(w) ==
    initPhase' = [initPhase EXCEPT ![w] = IF @ = "running" THEN "returning" ELSE @]

\* Mutant: reconnectPath captures the generation once, before its loop.
BeginDialStaleGeneration(w) ==
    /\ pc[w] = "start"
    /\ ~IsClosed
    /\ pc' = [pc EXCEPT ![w] = "dialing"]
    /\ UNCHANGED <<shutdown, generation, paths, alive, watcher, dialGen, dialConn, initPhase, connVars, rebindVars>>

(***************************************************************************)
(* The start of initPath, and of an iteration of reconnectPath: return if  *)
(* the relay is closed, else capture the generation context and dial.      *)
(* initPath does not look at r.ctx.                                        *)
(***************************************************************************)
BeginDial(w) ==
    /\ pc[w] = "start"
    /\ IF IsClosed \/ (IsCancelled /\ initPhase[w] # "running")
         THEN /\ pc' = [pc EXCEPT ![w] = "none"]
              /\ InitPathReturns(w)
              /\ UNCHANGED dialGen
         ELSE /\ pc' = [pc EXCEPT ![w] = "dialing"]
              /\ dialGen' = [dialGen EXCEPT ![w] = generation]
              /\ UNCHANGED initPhase
    /\ UNCHANGED <<shutdown, generation, paths, alive, watcher, dialConn, connVars, rebindVars>>

(***************************************************************************)
(* dialPath returns a connection.  It may do so after its context was      *)
(* cancelled: the cancellation races with the last message of the dial.    *)
(***************************************************************************)
DialSucceeds(w, c) ==
    /\ pc[w] = "dialing"
    /\ Unreferenced(c)
    /\ pc' = [pc EXCEPT ![w] = "dialed"]
    /\ dialConn' = [dialConn EXCEPT ![w] = c]
    /\ alive' = alive \cup {c}
    /\ owner' = [owner EXCEPT ![c] = w]
    /\ connGen' = [connGen EXCEPT ![c] = dialGen[w]]
    /\ UNCHANGED <<shutdown, generation, paths, watcher, dialGen, initPhase, rebindVars>>

(***************************************************************************)
(* dialPath returns a failure that may be retried: initPath hands the      *)
(* worker over to reconnectPath, which dials at once; reconnectPath waits. *)
(***************************************************************************)
DialFails(w) ==
    /\ pc[w] = "dialing"
    /\ pc' = [pc EXCEPT ![w] = IF initPhase[w] = "running" THEN "start" ELSE "backoff"]
    /\ InitPathReturns(w)
    /\ UNCHANGED <<shutdown, generation, paths, alive, watcher, dialGen, dialConn, connVars, rebindVars>>

\* Mutant: the early return skips the deferred decrement.
DialFailsTerminallyUncounted(w) ==
    /\ pc[w] = "dialing"
    /\ pc' = [pc EXCEPT ![w] = "terminal"]
    /\ UNCHANGED <<shutdown, generation, paths, alive, watcher, dialGen, dialConn, initPhase, connVars, rebindVars>>

\* dialPath returns a terminal failure: the worker is given up.
DialFailsTerminally(w) ==
    /\ pc[w] = "dialing"
    /\ pc' = [pc EXCEPT ![w] = "terminal"]
    /\ InitPathReturns(w)
    /\ UNCHANGED <<shutdown, generation, paths, alive, watcher, dialGen, dialConn, connVars, rebindVars>>

\* The select of reconnectPath: the timer fires, or the generation is over.
\* Either may come at any moment, and both lead to the next iteration.
BackoffElapses(w) ==
    /\ pc[w] = "backoff"
    /\ pc' = [pc EXCEPT ![w] = "start"]
    /\ UNCHANGED <<shutdown, generation, paths, alive, watcher, dialGen, dialConn, initPhase, connVars, rebindVars>>

\* Mutant: addCurrentPath does not compare the generations.
IsCurrentIgnoringGeneration(g) == ~IsCancelled

\* Mutant: addCurrentPath does not look whether the client is being closed.
IsCurrentIgnoringClose(g) == g = generation

\* The condition of addCurrentPath, evaluated under pathsMu.
IsCurrent(g) == ~IsCancelled /\ g = generation

\* Mutant: reconnectPath goes on dialling after its lane was admitted.
AdmitPathAndDialAgain(w) ==
    LET c == dialConn[w] IN
    /\ pc[w] = "dialed"
    /\ IsCurrent(dialGen[w])
    /\ paths' = paths \cup {c}
    /\ watcher' = [watcher EXCEPT ![c] = "waiting"]
    /\ pc' = [pc EXCEPT ![w] = "start"]
    /\ dialConn' = [dialConn EXCEPT ![w] = NoConn]
    /\ InitPathReturns(w)
    /\ UNCHANGED <<shutdown, generation, alive, dialGen, connVars, rebindVars>>

\* addCurrentPath admits the lane and starts its goroutines.
AdmitPath(w) ==
    LET c == dialConn[w] IN
    /\ pc[w] = "dialed"
    /\ IsCurrent(dialGen[w])
    /\ paths' = paths \cup {c}
    /\ watcher' = [watcher EXCEPT ![c] = "waiting"]
    /\ pc' = [pc EXCEPT ![w] = "none"]
    /\ dialConn' = [dialConn EXCEPT ![w] = NoConn]
    /\ InitPathReturns(w)
    /\ UNCHANGED <<shutdown, generation, alive, dialGen, connVars, rebindVars>>

\* Mutant: the refused connection is not closed.
RefusePathUnclosed(w) ==
    /\ pc[w] = "dialed"
    /\ ~IsCurrent(dialGen[w])
    /\ pc' = [pc EXCEPT ![w] = "start"]
    /\ dialConn' = [dialConn EXCEPT ![w] = NoConn]
    /\ InitPathReturns(w)
    /\ UNCHANGED <<shutdown, generation, paths, alive, watcher, dialGen, connVars, rebindVars>>

\* addCurrentPath refuses the lane and closes it; the worker dials again.
RefusePath(w) ==
    /\ pc[w] = "dialed"
    /\ ~IsCurrent(dialGen[w])
    /\ alive' = alive \ {dialConn[w]}
    /\ pc' = [pc EXCEPT ![w] = "start"]
    /\ dialConn' = [dialConn EXCEPT ![w] = NoConn]
    /\ InitPathReturns(w)
    /\ UNCHANGED <<shutdown, generation, paths, watcher, dialGen, connVars, rebindVars>>

\* The deferred function of initPath: r.initialPending.Add(-1).
InitPathDone(w) ==
    /\ initPhase[w] = "returning"
    /\ initPhase' = [initPhase EXCEPT ![w] = "done"]
    /\ UNCHANGED <<shutdown, generation, paths, alive, watcher, pc, dialGen, dialConn, connVars, rebindVars>>

\* r.initialPending
initialPending == Cardinality({w \in Workers : initPhase[w] # "done"})

\* The network, the peer or the idle timeout of QUIC ends a connection.
ConnDies(c) ==
    /\ c \in alive
    /\ alive' = alive \ {c}
    /\ UNCHANGED <<shutdown, generation, paths, watcher, dialVars, connVars, rebindVars>>

\* watchPath wakes up and removePath takes the lane out of the pool ...
WatchRemoves(c) ==
    /\ watcher[c] = "waiting"
    /\ c \notin alive
    /\ paths' = paths \ {c}
    /\ watcher' = [watcher EXCEPT ![c] = "removed"]
    /\ UNCHANGED <<shutdown, generation, alive, dialVars, connVars, rebindVars>>

\* ... and, unless the relay is closed, starts reconnectPath for its worker.
WatchRestarts(c) ==
    /\ watcher[c] = "removed"
    /\ watcher' = [watcher EXCEPT ![c] = "none"]
    /\ pc' = IF IsClosed THEN pc ELSE [pc EXCEPT ![owner[c]] = "start"]
    /\ UNCHANGED <<shutdown, generation, paths, alive, dialGen, dialConn, initPhase, connVars, rebindVars>>

-----------------------------------------------------------------------------
(***************************************************************************)
(* RebindNetwork(g): a generation that is not newer than the applied one   *)
(* is ignored (the loop around CompareAndSwap); generation 0 always passes.*)
(***************************************************************************)
RebindAdmits(r, g) ==
    /\ rebindPc[r] = "idle"
    /\ g = 0 \/ g > applied
    /\ applied' = IF g = 0 THEN applied ELSE g
    /\ rebindPc' = [rebindPc EXCEPT ![r] = "admitted"]
    /\ UNCHANGED <<shutdown, generation, paths, alive, watcher, rebindPaths, dialVars, connVars>>

\* Under pathsMu: copy the lanes and start a new generation.
RebindRotates(r) ==
    /\ rebindPc[r] = "admitted"
    /\ generation < MaxGeneration
    /\ generation' = generation + 1
    /\ rebindPaths' = [rebindPaths EXCEPT ![r] = paths]
    /\ rebindPc' = [rebindPc EXCEPT ![r] = "closing"]
    /\ UNCHANGED <<shutdown, applied, paths, alive, watcher, dialVars, connVars>>

\* After pathsMu: close the copied lanes one after the other.
RebindCloses(r, c) ==
    /\ rebindPc[r] = "closing"
    /\ c \in rebindPaths[r]
    /\ alive' = alive \ {c}
    /\ rebindPaths' = [rebindPaths EXCEPT ![r] = @ \ {c}]
    /\ UNCHANGED <<shutdown, generation, applied, paths, watcher, rebindPc, dialVars, connVars>>

RebindReturns(r) ==
    /\ rebindPc[r] = "closing"
    /\ rebindPaths[r] = {}
    /\ rebindPc' = [rebindPc EXCEPT ![r] = "idle"]
    /\ UNCHANGED <<shutdown, generation, applied, paths, alive, watcher, rebindPaths, dialVars, connVars>>

-----------------------------------------------------------------------------
\* Client.Close: the contexts first, then Close of the relay.
CloseCancels ==
    /\ shutdown = "open"
    /\ shutdown' = "cancelled"
    /\ UNCHANGED <<generation, paths, alive, watcher, dialVars, connVars, rebindVars>>

CloseMarks ==
    /\ shutdown = "cancelled"
    /\ shutdown' = "closed"
    /\ UNCHANGED <<generation, paths, alive, watcher, dialVars, connVars, rebindVars>>

\* Under pathsMu: close every lane and empty the pool.
CloseDrains ==
    /\ shutdown = "closed"
    /\ shutdown' = "drained"
    /\ alive' = alive \ paths
    /\ paths' = {}
    /\ UNCHANGED <<generation, watcher, dialVars, connVars, rebindVars>>

-----------------------------------------------------------------------------
WorkerStep(w) ==
    \/ BeginDial(w)
    \/ \E c \in Conns : DialSucceeds(w, c)
    \/ DialFails(w)
    \/ DialFailsTerminally(w)
    \/ BackoffElapses(w)
    \/ AdmitPath(w)
    \/ RefusePath(w)
    \/ InitPathDone(w)

WatchStep(c) == WatchRemoves(c) \/ WatchRestarts(c)

RebindStep(r) ==
    \/ RebindRotates(r)
    \/ \E c \in Conns : RebindCloses(r, c)
    \/ RebindReturns(r)

CloseStep == CloseCancels \/ CloseMarks \/ CloseDrains

Next ==
    \/ \E w \in Workers : WorkerStep(w)
    \/ \E c \in Conns : ConnDies(c) \/ WatchStep(c)
    \/ \E r \in Rebinders : \/ \E g \in NetworkGenerations : RebindAdmits(r, g)
                            \/ RebindStep(r)
    \/ CloseStep

Spec == Init /\ [][Next]_vars

-----------------------------------------------------------------------------
(***************************************************************************)
(* A worker is served by one goroutine at a time: its dialling goroutine,  *)
(* or the watcher of its one lane.  Two of them would build two lanes for  *)
(* one worker id.                                                          *)
(***************************************************************************)
OneTaskPerWorker ==
    /\ \A c \in Conns : watcher[c] # "none" => pc[owner[c]] = "none"
    /\ \A c, d \in Conns :
          watcher[c] # "none" /\ watcher[d] # "none" /\ owner[c] = owner[d] => c = d

(***************************************************************************)
(* No worker is lost: until the client is closed, a worker that was not    *)
(* given up after a terminal failure is dialling or has a watched lane,    *)
(* whatever refusals, deaths and rebinds it went through.                  *)
(***************************************************************************)
NoWorkerLost ==
    shutdown = "open" =>
        \A w \in Workers : \/ pc[w] # "none"
                           \/ \E c \in Conns : watcher[c] # "none" /\ owner[c] = w

(***************************************************************************)
(* Until the client is closed exactly one goroutine serves a worker that   *)
(* was not given up: the hand-overs between initPath, reconnectPath and    *)
(* watchPath neither drop a worker nor start a second goroutine for it.    *)
(***************************************************************************)
ExactlyOneTask == OneTaskPerWorker /\ NoWorkerLost

(***************************************************************************)
(* No connection leaks: one that is alive is in the pool, with a watcher   *)
(* to take it out, or in the hands of the goroutine that dialled it.  Once *)
(* Close has drained the pool it stays empty.                              *)
(***************************************************************************)
NoLeakedConn ==
    /\ \A c \in alive : \/ c \in paths /\ watcher[c] = "waiting"
                        \/ \E w \in Workers : dialConn[w] = c
    /\ shutdown = "drained" => paths = {}

(***************************************************************************)
(* A lane of an old generation that is still alive in the pool is one that *)
(* a RebindNetwork in progress is about to close: no lane of the old       *)
(* network is admitted behind its back and survives the rebind.            *)
(***************************************************************************)
StaleLanesAreDoomed ==
    \A c \in paths \cap alive :
        connGen[c] # generation => \E r \in Rebinders : c \in rebindPaths[r]

-----------------------------------------------------------------------------
(***************************************************************************)
(* What the four invariants above need to be inductive.                    *)
(***************************************************************************)
\* The lanes of the pool are watched.
PoolIsWatched == \A c \in paths : watcher[c] = "waiting"

\* A watched connection belongs to a worker.
WatchedAreOwned == \A c \in Conns : watcher[c] # "none" => owner[c] \in Workers

\* A connection in the hands of its dialler is in no other hands.
HeldAreFresh ==
    \A w \in Workers : pc[w] = "dialed" =>
        LET c == dialConn[w] IN
        /\ owner[c] = w
        /\ connGen[c] = dialGen[w]
        /\ watcher[c] = "none"

\* RebindNetwork has lanes to close only between its two critical parts.
RebindLocals == \A r \in Rebinders : rebindPc[r] # "closing" => rebindPaths[r] = {}

PoolInv ==
    /\ TypeOK
    /\ OneTaskPerWorker
    /\ NoWorkerLost
    /\ NoLeakedConn
    /\ StaleLanesAreDoomed
    /\ PoolIsWatched
    /\ WatchedAreOwned
    /\ HeldAreFresh
    /\ RebindLocals

-----------------------------------------------------------------------------
\* The lanes of worker w, by the generation they were dialled under
LanesOf(w) == {connGen[c] : c \in {d \in paths : owner[d] = w}}

Promise == INSTANCE Lanes WITH
    isOpen <- ~IsCancelled,
    current <- generation,
    givenUp <- {w \in Workers : pc[w] = "terminal"},
    lanes <- [w \in Workers |-> LanesOf(w)]

(***************************************************************************)
(* The pool keeps the promise stated in Lanes: addCurrentPath, removePath, *)
(* RebindNetwork and Close, as the rest of the client sees them, bring a   *)
(* lane up only for a worker without one, under the current generation,    *)
(* and never once the client is being closed.                              *)
(***************************************************************************)
LanesImplemented == Promise!Spec
=============================================================================
