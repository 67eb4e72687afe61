--------------------------- MODULE Outbound_proofs ---------------------------
(***************************************************************************)
(* Proofs about LanePool and about the Outbound around it, for any set of  *)
(* workers and connections, any number of concurrent calls of              *)
(* RebindNetwork and any bound on them.                                    *)
(*                                                                         *)
(* PoolInv, the conjunction of the invariants of the pool and of the four  *)
(* facts they rest on, is inductive.  There is one lemma per action; in it *)
(* a step per conjunct that mentions a variable the action changes.  The   *)
(* pool implements Lanes, and the outbound runs the pool as specified, so  *)
(* that all that is proved of the pool holds inside the outbound.          *)
(***************************************************************************)
EXTENDS Outbound, TLAPS

\* A dial begins, or its goroutine finds the relay closed.
LEMMA BeginDialInv ==
    ASSUME NEW w \in Workers, PoolInv, BeginDial(w)
    PROVE  PoolInv'
<1> USE PoolAssumption DEF PoolInv, TypeOK, BeginDial, IsClosed, IsCancelled, InitPathReturns, dialVars, connVars, rebindVars
<1>1. TypeOK'
  OBVIOUS
<1>2. OneTaskPerWorker'
  BY DEF OneTaskPerWorker, WatchedAreOwned
<1>3. NoWorkerLost'
  BY DEF NoWorkerLost
<1>4. HeldAreFresh'
  BY DEF HeldAreFresh
<1>5. UNCHANGED <<NoLeakedConn, StaleLanesAreDoomed, PoolIsWatched, WatchedAreOwned, RebindLocals>>
  BY DEF NoLeakedConn, StaleLanesAreDoomed, PoolIsWatched, WatchedAreOwned, RebindLocals
<1> QED BY <1>1, <1>2, <1>3, <1>4, <1>5

\* dialPath hands a fresh connection to the goroutine of the worker.
LEMMA DialSucceedsInv ==
    ASSUME NEW w \in Workers, NEW c \in Conns, PoolInv, DialSucceeds(w, c)
    PROVE  PoolInv'
<1> USE PoolAssumption DEF PoolInv, TypeOK, DialSucceeds, Unreferenced, dialVars, connVars, rebindVars
<1>1. TypeOK'
  OBVIOUS
<1>2. OneTaskPerWorker'
  BY DEF OneTaskPerWorker
<1>3. NoWorkerLost'
  BY DEF NoWorkerLost
<1>4. NoLeakedConn'
  BY DEF NoLeakedConn
<1>5. StaleLanesAreDoomed'
  BY DEF StaleLanesAreDoomed
<1>6. WatchedAreOwned'
  BY DEF WatchedAreOwned
<1>7. HeldAreFresh'
  BY DEF HeldAreFresh
<1>8. UNCHANGED <<PoolIsWatched, RebindLocals>>
  BY DEF PoolIsWatched, RebindLocals
<1> QED BY <1>1, <1>2, <1>3, <1>4, <1>5, <1>6, <1>7, <1>8

\* A dial fails and is retried.
LEMMA DialFailsInv ==
    ASSUME NEW w \in Workers, PoolInv, DialFails(w)
    PROVE  PoolInv'
<1> USE PoolAssumption DEF PoolInv, TypeOK, DialFails, InitPathReturns, dialVars, connVars, rebindVars
<1>1. TypeOK'
  OBVIOUS
<1>2. OneTaskPerWorker'
  BY DEF OneTaskPerWorker
<1>3. NoWorkerLost'
  BY DEF NoWorkerLost
<1>4. HeldAreFresh'
  BY DEF HeldAreFresh
<1>5. UNCHANGED <<NoLeakedConn, StaleLanesAreDoomed, PoolIsWatched, WatchedAreOwned, RebindLocals>>
  BY DEF NoLeakedConn, StaleLanesAreDoomed, PoolIsWatched, WatchedAreOwned, RebindLocals
<1> QED BY <1>1, <1>2, <1>3, <1>4, <1>5

\* A dial fails for good.
LEMMA DialFailsTerminallyInv ==
    ASSUME NEW w \in Workers, PoolInv, DialFailsTerminally(w)
    PROVE  PoolInv'
<1> USE PoolAssumption DEF PoolInv, TypeOK, DialFailsTerminally, InitPathReturns, dialVars, connVars, rebindVars
<1>1. TypeOK'
  OBVIOUS
<1>2. OneTaskPerWorker'
  BY DEF OneTaskPerWorker
<1>3. NoWorkerLost'
  BY DEF NoWorkerLost
<1>4. HeldAreFresh'
  BY DEF HeldAreFresh
<1>5. UNCHANGED <<NoLeakedConn, StaleLanesAreDoomed, PoolIsWatched, WatchedAreOwned, RebindLocals>>
  BY DEF NoLeakedConn, StaleLanesAreDoomed, PoolIsWatched, WatchedAreOwned, RebindLocals
<1> QED BY <1>1, <1>2, <1>3, <1>4, <1>5

\* The wait between two dials ends.
LEMMA BackoffElapsesInv ==
    ASSUME NEW w \in Workers, PoolInv, BackoffElapses(w)
    PROVE  PoolInv'
<1> USE PoolAssumption DEF PoolInv, TypeOK, BackoffElapses, dialVars, connVars, rebindVars
<1>1. TypeOK'
  OBVIOUS
<1>2. OneTaskPerWorker'
  BY DEF OneTaskPerWorker
<1>3. NoWorkerLost'
  BY DEF NoWorkerLost
<1>4. HeldAreFresh'
  BY DEF HeldAreFresh
<1>5. UNCHANGED <<NoLeakedConn, StaleLanesAreDoomed, PoolIsWatched, WatchedAreOwned, RebindLocals>>
  BY DEF NoLeakedConn, StaleLanesAreDoomed, PoolIsWatched, WatchedAreOwned, RebindLocals
<1> QED BY <1>1, <1>2, <1>3, <1>4, <1>5

\* addCurrentPath admits a lane: the worker passes from its dialler to the watcher of the lane.
LEMMA AdmitPathInv ==
    ASSUME NEW w \in Workers, PoolInv, AdmitPath(w)
    PROVE  PoolInv'
<1> USE PoolAssumption DEF PoolInv, TypeOK, AdmitPath, IsCurrent, IsCancelled, InitPathReturns, dialVars, connVars, rebindVars
<1>1. TypeOK'
  OBVIOUS
<1>2. OneTaskPerWorker'
  BY DEF OneTaskPerWorker, HeldAreFresh
<1>3. NoWorkerLost'
  BY DEF NoWorkerLost, HeldAreFresh
<1>4. NoLeakedConn'
  BY DEF NoLeakedConn
<1>5. StaleLanesAreDoomed'
  BY DEF StaleLanesAreDoomed, HeldAreFresh
<1>6. PoolIsWatched'
  BY DEF PoolIsWatched
<1>7. WatchedAreOwned'
  BY DEF WatchedAreOwned, HeldAreFresh
<1>8. HeldAreFresh'
  BY DEF HeldAreFresh
<1>9. UNCHANGED <<RebindLocals>>
  BY DEF RebindLocals
<1> QED BY <1>1, <1>2, <1>3, <1>4, <1>5, <1>6, <1>7, <1>8, <1>9

\* addCurrentPath refuses a lane: the connection is closed and the worker stays with its dialler.
LEMMA RefusePathInv ==
    ASSUME NEW w \in Workers, PoolInv, RefusePath(w)
    PROVE  PoolInv'
<1> USE PoolAssumption DEF PoolInv, TypeOK, RefusePath, InitPathReturns, dialVars, connVars, rebindVars
<1>1. TypeOK'
  OBVIOUS
<1>2. OneTaskPerWorker'
  BY DEF OneTaskPerWorker
<1>3. NoWorkerLost'
  BY DEF NoWorkerLost
<1>4. NoLeakedConn'
  BY DEF NoLeakedConn
<1>5. StaleLanesAreDoomed'
  BY DEF StaleLanesAreDoomed
<1>6. HeldAreFresh'
  BY DEF HeldAreFresh
<1>7. UNCHANGED <<PoolIsWatched, WatchedAreOwned, RebindLocals>>
  BY DEF PoolIsWatched, WatchedAreOwned, RebindLocals
<1> QED BY <1>1, <1>2, <1>3, <1>4, <1>5, <1>6, <1>7

\* The deferred function of initPath runs.
LEMMA InitPathDoneInv ==
    ASSUME NEW w \in Workers, PoolInv, InitPathDone(w)
    PROVE  PoolInv'
<1> USE PoolAssumption DEF PoolInv, TypeOK, InitPathDone, dialVars, connVars, rebindVars
<1>1. TypeOK'
  OBVIOUS
<1>2. UNCHANGED <<OneTaskPerWorker, NoWorkerLost, NoLeakedConn, StaleLanesAreDoomed, PoolIsWatched, WatchedAreOwned, HeldAreFresh, RebindLocals>>
  BY DEF OneTaskPerWorker, NoWorkerLost, NoLeakedConn, StaleLanesAreDoomed, PoolIsWatched, WatchedAreOwned, HeldAreFresh, RebindLocals
<1> QED BY <1>1, <1>2

\* A connection ends.
LEMMA ConnDiesInv ==
    ASSUME NEW c \in Conns, PoolInv, ConnDies(c)
    PROVE  PoolInv'
<1> USE PoolAssumption DEF PoolInv, TypeOK, ConnDies, dialVars, connVars, rebindVars
<1>1. TypeOK'
  OBVIOUS
<1>2. NoLeakedConn'
  BY DEF NoLeakedConn
<1>3. StaleLanesAreDoomed'
  BY DEF StaleLanesAreDoomed
<1>4. UNCHANGED <<OneTaskPerWorker, NoWorkerLost, PoolIsWatched, WatchedAreOwned, HeldAreFresh, RebindLocals>>
  BY DEF OneTaskPerWorker, NoWorkerLost, PoolIsWatched, WatchedAreOwned, HeldAreFresh, RebindLocals
<1> QED BY <1>1, <1>2, <1>3, <1>4

\* A watcher takes its dead lane out of the pool.
LEMMA WatchRemovesInv ==
    ASSUME NEW c \in Conns, PoolInv, WatchRemoves(c)
    PROVE  PoolInv'
<1> USE PoolAssumption DEF PoolInv, TypeOK, WatchRemoves, dialVars, connVars, rebindVars
<1>1. TypeOK'
  OBVIOUS
<1>2. OneTaskPerWorker'
  BY DEF OneTaskPerWorker
<1>3. NoWorkerLost'
  BY DEF NoWorkerLost
<1>4. NoLeakedConn'
  BY DEF NoLeakedConn
<1>5. StaleLanesAreDoomed'
  BY DEF StaleLanesAreDoomed
<1>6. PoolIsWatched'
  BY DEF PoolIsWatched
<1>7. WatchedAreOwned'
  BY DEF WatchedAreOwned
<1>8. HeldAreFresh'
  BY DEF HeldAreFresh
<1>9. UNCHANGED <<RebindLocals>>
  BY DEF RebindLocals
<1> QED BY <1>1, <1>2, <1>3, <1>4, <1>5, <1>6, <1>7, <1>8, <1>9

\* A watcher hands its worker back to reconnectPath.
LEMMA WatchRestartsInv ==
    ASSUME NEW c \in Conns, PoolInv, WatchRestarts(c)
    PROVE  PoolInv'
<1> USE PoolAssumption DEF PoolInv, TypeOK, WatchRestarts, IsClosed, dialVars, connVars, rebindVars
<1>1. TypeOK'
  BY DEF OneTaskPerWorker, WatchedAreOwned
<1>2. OneTaskPerWorker'
  BY DEF OneTaskPerWorker
<1>3. NoWorkerLost'
  BY DEF NoWorkerLost
<1>4. NoLeakedConn'
  BY DEF NoLeakedConn
<1>5. PoolIsWatched'
  BY DEF PoolIsWatched
<1>6. WatchedAreOwned'
  BY DEF WatchedAreOwned
<1>7. HeldAreFresh'
  BY DEF HeldAreFresh
<1>8. UNCHANGED <<StaleLanesAreDoomed, RebindLocals>>
  BY DEF StaleLanesAreDoomed, RebindLocals
<1> QED BY <1>1, <1>2, <1>3, <1>4, <1>5, <1>6, <1>7, <1>8

\* RebindNetwork accepts a network generation.
LEMMA RebindAdmitsInv ==
    ASSUME NEW r \in Rebinders, NEW g \in NetworkGenerations, PoolInv, RebindAdmits(r, g)
    PROVE  PoolInv'
<1> USE PoolAssumption DEF PoolInv, TypeOK, RebindAdmits, dialVars, connVars, rebindVars
<1>1. TypeOK'
  OBVIOUS
<1>2. RebindLocals'
  BY DEF RebindLocals
<1>3. UNCHANGED <<OneTaskPerWorker, NoWorkerLost, NoLeakedConn, StaleLanesAreDoomed, PoolIsWatched, WatchedAreOwned, HeldAreFresh>>
  BY DEF OneTaskPerWorker, NoWorkerLost, NoLeakedConn, StaleLanesAreDoomed, PoolIsWatched, WatchedAreOwned, HeldAreFresh
<1> QED BY <1>1, <1>2, <1>3

\* RebindNetwork starts a new generation: every lane of the pool is now on its list.
LEMMA RebindRotatesInv ==
    ASSUME NEW r \in Rebinders, PoolInv, RebindRotates(r)
    PROVE  PoolInv'
<1> USE PoolAssumption DEF PoolInv, TypeOK, RebindRotates, dialVars, connVars, rebindVars
<1>1. TypeOK'
  OBVIOUS
<1>2. StaleLanesAreDoomed'
  BY DEF StaleLanesAreDoomed
<1>3. RebindLocals'
  BY DEF RebindLocals
<1>4. UNCHANGED <<OneTaskPerWorker, NoWorkerLost, NoLeakedConn, PoolIsWatched, WatchedAreOwned, HeldAreFresh>>
  BY DEF OneTaskPerWorker, NoWorkerLost, NoLeakedConn, PoolIsWatched, WatchedAreOwned, HeldAreFresh
<1> QED BY <1>1, <1>2, <1>3, <1>4

\* RebindNetwork closes a lane of its list.
LEMMA RebindClosesInv ==
    ASSUME NEW r \in Rebinders, NEW c \in Conns, PoolInv, RebindCloses(r, c)
    PROVE  PoolInv'
<1> USE PoolAssumption DEF PoolInv, TypeOK, RebindCloses, dialVars, connVars, rebindVars
<1>1. TypeOK'
  OBVIOUS
<1>2. NoLeakedConn'
  BY DEF NoLeakedConn
<1>3. StaleLanesAreDoomed'
  BY DEF StaleLanesAreDoomed
<1>4. RebindLocals'
  BY DEF RebindLocals
<1>5. UNCHANGED <<OneTaskPerWorker, NoWorkerLost, PoolIsWatched, WatchedAreOwned, HeldAreFresh>>
  BY DEF OneTaskPerWorker, NoWorkerLost, PoolIsWatched, WatchedAreOwned, HeldAreFresh
<1> QED BY <1>1, <1>2, <1>3, <1>4, <1>5

\* RebindNetwork has nothing left to close.
LEMMA RebindReturnsInv ==
    ASSUME NEW r \in Rebinders, PoolInv, RebindReturns(r)
    PROVE  PoolInv'
<1> USE PoolAssumption DEF PoolInv, TypeOK, RebindReturns, dialVars, connVars, rebindVars
<1>1. TypeOK'
  OBVIOUS
<1>2. RebindLocals'
  BY DEF RebindLocals
<1>3. UNCHANGED <<OneTaskPerWorker, NoWorkerLost, NoLeakedConn, StaleLanesAreDoomed, PoolIsWatched, WatchedAreOwned, HeldAreFresh>>
  BY DEF OneTaskPerWorker, NoWorkerLost, NoLeakedConn, StaleLanesAreDoomed, PoolIsWatched, WatchedAreOwned, HeldAreFresh
<1> QED BY <1>1, <1>2, <1>3

\* Close cancels the contexts.
LEMMA CloseCancelsInv ==
    ASSUME PoolInv, CloseCancels
    PROVE  PoolInv'
<1> USE PoolAssumption DEF PoolInv, TypeOK, CloseCancels, dialVars, connVars, rebindVars
<1>1. TypeOK'
  BY DEF Shutdown
<1>2. NoWorkerLost'
  BY DEF NoWorkerLost
<1>3. NoLeakedConn'
  BY DEF NoLeakedConn
<1>4. UNCHANGED <<OneTaskPerWorker, StaleLanesAreDoomed, PoolIsWatched, WatchedAreOwned, HeldAreFresh, RebindLocals>>
  BY DEF OneTaskPerWorker, StaleLanesAreDoomed, PoolIsWatched, WatchedAreOwned, HeldAreFresh, RebindLocals
<1> QED BY <1>1, <1>2, <1>3, <1>4

\* Close sets the flag closed.
LEMMA CloseMarksInv ==
    ASSUME PoolInv, CloseMarks
    PROVE  PoolInv'
<1> USE PoolAssumption DEF PoolInv, TypeOK, CloseMarks, dialVars, connVars, rebindVars
<1>1. TypeOK'
  BY DEF Shutdown
<1>2. NoWorkerLost'
  BY DEF NoWorkerLost
<1>3. NoLeakedConn'
  BY DEF NoLeakedConn
<1>4. UNCHANGED <<OneTaskPerWorker, StaleLanesAreDoomed, PoolIsWatched, WatchedAreOwned, HeldAreFresh, RebindLocals>>
  BY DEF OneTaskPerWorker, StaleLanesAreDoomed, PoolIsWatched, WatchedAreOwned, HeldAreFresh, RebindLocals
<1> QED BY <1>1, <1>2, <1>3, <1>4

\* Close ends the lanes and empties the pool.
LEMMA CloseDrainsInv ==
    ASSUME PoolInv, CloseDrains
    PROVE  PoolInv'
<1> USE PoolAssumption DEF PoolInv, TypeOK, CloseDrains, dialVars, connVars, rebindVars
<1>1. TypeOK'
  BY DEF Shutdown
<1>2. NoWorkerLost'
  BY DEF NoWorkerLost
<1>3. NoLeakedConn'
  BY DEF NoLeakedConn
<1>4. StaleLanesAreDoomed'
  BY DEF StaleLanesAreDoomed
<1>5. PoolIsWatched'
  BY DEF PoolIsWatched
<1>6. UNCHANGED <<OneTaskPerWorker, WatchedAreOwned, HeldAreFresh, RebindLocals>>
  BY DEF OneTaskPerWorker, WatchedAreOwned, HeldAreFresh, RebindLocals
<1> QED BY <1>1, <1>2, <1>3, <1>4, <1>5, <1>6

\* The relay starts with an empty pool and one dialler per worker.
LEMMA InitEstablishesInv == Init => PoolInv
BY PoolAssumption DEF Init, PoolInv, TypeOK, OneTaskPerWorker, NoWorkerLost, NoLeakedConn,
   StaleLanesAreDoomed, PoolIsWatched, WatchedAreOwned, HeldAreFresh, RebindLocals, Shutdown

\* A step that changes no variable preserves the invariant.
LEMMA StutteringInv == ASSUME PoolInv, UNCHANGED vars PROVE PoolInv'
BY DEF vars, PoolInv, TypeOK, OneTaskPerWorker, NoWorkerLost, NoLeakedConn,
   StaleLanesAreDoomed, PoolIsWatched, WatchedAreOwned, HeldAreFresh, RebindLocals

\* Every step of every goroutine keeps the invariant.
LEMMA NextPreservesInv == ASSUME PoolInv, [Next]_vars PROVE PoolInv'
<1>1. ASSUME NEW w \in Workers, WorkerStep(w) PROVE PoolInv'
  BY <1>1, BeginDialInv, DialSucceedsInv, DialFailsInv, DialFailsTerminallyInv,
     BackoffElapsesInv, AdmitPathInv, RefusePathInv, InitPathDoneInv
     DEF WorkerStep
<1>2. ASSUME NEW c \in Conns, ConnDies(c) \/ WatchStep(c) PROVE PoolInv'
  BY <1>2, ConnDiesInv, WatchRemovesInv, WatchRestartsInv DEF WatchStep
<1>3. ASSUME NEW r \in Rebinders, NEW g \in NetworkGenerations, RebindAdmits(r, g) PROVE PoolInv'
  BY <1>3, RebindAdmitsInv
<1>4. ASSUME NEW r \in Rebinders, RebindStep(r) PROVE PoolInv'
  BY <1>4, RebindRotatesInv, RebindClosesInv, RebindReturnsInv DEF RebindStep
<1>5. ASSUME CloseStep PROVE PoolInv'
  BY <1>5, CloseCancelsInv, CloseMarksInv, CloseDrainsInv DEF CloseStep
<1> QED BY <1>1, <1>2, <1>3, <1>4, <1>5, StutteringInv DEF Next

-----------------------------------------------------------------------------
(***************************************************************************)
(* The invariant of the pool holds in every reachable state of             *)
(* quic_relay.go's client side: initPath, reconnectPath, watchPath,        *)
(* RebindNetwork and Close may interleave in any way.                      *)
(***************************************************************************)
THEOREM PoolInvariance == Spec => []PoolInv
BY InitEstablishesInv, NextPreservesInv, PTL DEF Spec

(***************************************************************************)
(* No sequence of refusals, deaths and rebinds makes reconnectPath or      *)
(* watchPath drop a worker while the client is open, or gives one worker   *)
(* two goroutines.                                                         *)
(***************************************************************************)
THEOREM ExactlyOneTaskHolds == Spec => []ExactlyOneTask
<1>1. PoolInv => ExactlyOneTask BY DEF PoolInv, ExactlyOneTask
<1> QED BY <1>1, PoolInvariance, PTL

(***************************************************************************)
(* Every open connection is in the pool or with the goroutine that dialled *)
(* it, and the pool that Close drained stays empty.                        *)
(***************************************************************************)
THEOREM NoLeakedConnHolds == Spec => []NoLeakedConn
<1>1. PoolInv => NoLeakedConn BY DEF PoolInv
<1> QED BY <1>1, PoolInvariance, PTL

(***************************************************************************)
(* addCurrentPath lets no lane of an old network survive RebindNetwork.    *)
(***************************************************************************)
THEOREM StaleLanesAreDoomedHolds == Spec => []StaleLanesAreDoomed
<1>1. PoolInv => StaleLanesAreDoomed BY DEF PoolInv
<1> QED BY <1>1, PoolInvariance, PTL

-----------------------------------------------------------------------------
(* The pool implements Lanes                                               *)

\* A step that leaves the pool, the generation and the given-up workers alone.
LEMMA LanesUnchanged ==
    ASSUME UNCHANGED <<generation, paths>>,
           IsCancelled' = IsCancelled,
           \A w \in Workers : pc'[w] = "terminal" <=> pc[w] = "terminal",
           \A c \in paths : owner'[c] = owner[c] /\ connGen'[c] = connGen[c]
    PROVE  UNCHANGED Promise!laneVars
<1>1. \A w \in Workers : LanesOf(w)' = LanesOf(w) BY DEF LanesOf
<1>2. [w \in Workers |-> LanesOf(w)]' = [w \in Workers |-> LanesOf(w)] BY <1>1
<1>3. {w \in Workers : pc[w] = "terminal"}' = {w \in Workers : pc[w] = "terminal"} OBVIOUS
<1> QED BY <1>2, <1>3 DEF Promise!laneVars

\* The lane that addCurrentPath admits comes up for a worker that has none.
LEMMA AdmitPathComesUp ==
    ASSUME NEW w \in Workers, PoolInv, AdmitPath(w)
    PROVE  Promise!ComesUp(w)
<1> USE DEF PoolInv, TypeOK, AdmitPath
<1>1. LanesOf(w) = {} BY DEF LanesOf, OneTaskPerWorker, PoolIsWatched
<1>2. LanesOf(w)' = {generation} BY <1>1 DEF LanesOf, HeldAreFresh, IsCurrent, connVars
<1>3. \A v \in Workers \ {w} : LanesOf(v)' = LanesOf(v) BY DEF LanesOf, HeldAreFresh, connVars
<1>4. [v \in Workers |-> LanesOf(v)]' = [[v \in Workers |-> LanesOf(v)] EXCEPT ![w] = {generation}]
  BY <1>2, <1>3
<1>5. {v \in Workers : pc[v] = "terminal"}' = {v \in Workers : pc[v] = "terminal"} /\ pc[w] # "terminal"
  OBVIOUS
<1> QED BY <1>1, <1>4, <1>5 DEF Promise!ComesUp, IsCurrent, IsCancelled

\* The lane that removePath takes out goes down, and no other one.
LEMMA WatchRemovesGoesDown ==
    ASSUME NEW c \in Conns, PoolInv, WatchRemoves(c)
    PROVE  Promise!GoDown({owner[c]})
<1> USE DEF PoolInv, TypeOK, WatchRemoves
<1>1. \A v \in Workers : v = owner[c] => LanesOf(v)' = {}
  BY DEF LanesOf, OneTaskPerWorker, PoolIsWatched, connVars
<1>2. \A v \in Workers \ {owner[c]} : LanesOf(v)' = LanesOf(v) BY DEF LanesOf, connVars
<1>3. [v \in Workers |-> LanesOf(v)]' =
      [v \in Workers |-> IF v \in {owner[c]} THEN {} ELSE [u \in Workers |-> LanesOf(u)][v]]
  BY <1>1, <1>2
<1>4. {v \in Workers : pc[v] = "terminal"}' = {v \in Workers : pc[v] = "terminal"} BY DEF dialVars
<1> QED BY <1>3, <1>4 DEF Promise!GoDown, IsCancelled

\* Every lane goes down when Close drains the pool.
LEMMA CloseDrainsGoesDown ==
    ASSUME PoolInv, CloseDrains
    PROVE  Promise!GoDown(Workers)
<1> USE DEF PoolInv, TypeOK, CloseDrains
<1>1. \A v \in Workers : LanesOf(v)' = {} BY DEF LanesOf
<1>2. [v \in Workers |-> LanesOf(v)]' =
      [v \in Workers |-> IF v \in Workers THEN {} ELSE [u \in Workers |-> LanesOf(u)][v]]
  BY <1>1
<1>3. {v \in Workers : pc[v] = "terminal"}' = {v \in Workers : pc[v] = "terminal"} BY DEF dialVars
<1> QED BY <1>2, <1>3 DEF Promise!GoDown, IsCancelled

\* A worker that is given up has no lane.
LEMMA DialFailsTerminallyGivesUp ==
    ASSUME NEW w \in Workers, PoolInv, DialFailsTerminally(w)
    PROVE  Promise!GivesUp(w)
<1> USE DEF PoolInv, TypeOK, DialFailsTerminally
<1>1. LanesOf(w) = {} BY DEF LanesOf, OneTaskPerWorker, PoolIsWatched
<1>2. \A v \in Workers : LanesOf(v)' = LanesOf(v) BY DEF LanesOf, connVars
<1>3. [v \in Workers |-> LanesOf(v)]' = [v \in Workers |-> LanesOf(v)] BY <1>2
<1>4. {v \in Workers : pc[v] = "terminal"}' = {v \in Workers : pc[v] = "terminal"} \cup {w} OBVIOUS
<1> QED BY <1>1, <1>3, <1>4 DEF Promise!GivesUp, IsCancelled

\* The steps of a worker, as Lanes sees them.
LEMMA WorkerStepKeepsPromise ==
    ASSUME NEW w \in Workers, PoolInv, WorkerStep(w)
    PROVE  Promise!ComesUp(w) \/ Promise!GivesUp(w) \/ UNCHANGED Promise!laneVars
<1> USE DEF PoolInv, TypeOK, connVars, IsCancelled
<1>1. CASE BeginDial(w) BY <1>1, LanesUnchanged DEF BeginDial
<1>2. ASSUME NEW c \in Conns, DialSucceeds(w, c) PROVE UNCHANGED Promise!laneVars
  BY <1>2, LanesUnchanged DEF DialSucceeds, Unreferenced
<1>3. CASE DialFails(w) BY <1>3, LanesUnchanged DEF DialFails
<1>4. CASE DialFailsTerminally(w) BY <1>4, DialFailsTerminallyGivesUp DEF PoolInv
<1>5. CASE BackoffElapses(w) BY <1>5, LanesUnchanged DEF BackoffElapses
<1>6. CASE AdmitPath(w) BY <1>6, AdmitPathComesUp
<1>7. CASE RefusePath(w) BY <1>7, LanesUnchanged DEF RefusePath
<1>8. CASE InitPathDone(w) BY <1>8, LanesUnchanged DEF InitPathDone
<1> QED BY <1>1, <1>2, <1>3, <1>4, <1>5, <1>6, <1>7, <1>8 DEF WorkerStep

\* Every step of the pool is a step of Lanes, or leaves what Lanes shows alone.
LEMMA StepKeepsPromise ==
    ASSUME PoolInv, [Next]_vars
    PROVE  [Promise!Next]_(Promise!laneVars)
<1>1. ASSUME NEW w \in Workers, WorkerStep(w) PROVE [Promise!Next]_(Promise!laneVars)
  BY <1>1, WorkerStepKeepsPromise DEF Promise!Next
<1>2. ASSUME NEW c \in Conns, ConnDies(c) PROVE UNCHANGED Promise!laneVars
  BY <1>2, LanesUnchanged DEF ConnDies, dialVars, connVars, IsCancelled
<1>3. ASSUME NEW c \in Conns, WatchRemoves(c) PROVE [Promise!Next]_(Promise!laneVars)
  <2>1. owner[c] \in Workers BY <1>3 DEF PoolInv, WatchedAreOwned, WatchRemoves
  <2> QED BY <1>3, <2>1, WatchRemovesGoesDown DEF Promise!Next
<1>4. ASSUME NEW c \in Conns, WatchRestarts(c) PROVE UNCHANGED Promise!laneVars
  <2>1. pc[owner[c]] = "none" BY <1>4 DEF PoolInv, OneTaskPerWorker, WatchRestarts
  <2> QED BY <1>4, <2>1, LanesUnchanged DEF WatchRestarts, connVars, IsCancelled, PoolInv, TypeOK
<1>5. ASSUME NEW r \in Rebinders, NEW g \in NetworkGenerations, RebindAdmits(r, g)
      PROVE UNCHANGED Promise!laneVars
  BY <1>5, LanesUnchanged DEF RebindAdmits, dialVars, connVars, IsCancelled
<1>6. ASSUME NEW r \in Rebinders, RebindStep(r) PROVE [Promise!Next]_(Promise!laneVars)
  <2>1. CASE RebindRotates(r)
    <3>1. \A w \in Workers : LanesOf(w)' = LanesOf(w) BY <2>1 DEF RebindRotates, LanesOf, connVars
    <3>2. [w \in Workers |-> LanesOf(w)]' = [w \in Workers |-> LanesOf(w)] BY <3>1
    <3>3. Promise!NetworkChanges
      BY <2>1, <3>2 DEF Promise!NetworkChanges, RebindRotates, IsCancelled, dialVars
    <3> QED BY <3>3 DEF Promise!Next
  <2>2. ASSUME NEW c \in Conns, RebindCloses(r, c) PROVE UNCHANGED Promise!laneVars
    BY <2>2, LanesUnchanged DEF RebindCloses, dialVars, connVars, IsCancelled
  <2>3. CASE RebindReturns(r)
    BY <2>3, LanesUnchanged DEF RebindReturns, dialVars, connVars, IsCancelled
  <2> QED BY <1>6, <2>1, <2>2, <2>3 DEF RebindStep
<1>7. CASE CloseCancels
  <2>1. \A w \in Workers : LanesOf(w)' = LanesOf(w) BY <1>7 DEF CloseCancels, LanesOf, connVars
  <2>2. [w \in Workers |-> LanesOf(w)]' = [w \in Workers |-> LanesOf(w)] BY <2>1
  <2>3. Promise!Closes BY <1>7, <2>2 DEF Promise!Closes, CloseCancels, IsCancelled, dialVars
  <2> QED BY <2>3 DEF Promise!Next
<1>8. CASE CloseMarks BY <1>8, LanesUnchanged DEF CloseMarks, dialVars, connVars, IsCancelled
<1>9. CASE CloseDrains BY <1>9, CloseDrainsGoesDown DEF Promise!Next
<1>10. CASE UNCHANGED vars BY <1>10, LanesUnchanged DEF vars, IsCancelled
<1> QED BY <1>1, <1>2, <1>3, <1>4, <1>5, <1>6, <1>7, <1>8, <1>9, <1>10 DEF Next, WatchStep, CloseStep

\* A relay without lanes is a Lanes without lanes.
LEMMA InitKeepsPromise == Init => Promise!Init
<1> SUFFICES ASSUME Init PROVE Promise!Init OBVIOUS
<1>1. \A w \in Workers : LanesOf(w) = {} BY DEF Init, LanesOf
<1> QED BY <1>1 DEF Init, Promise!Init, IsCancelled

(***************************************************************************)
(* The lane pool implements Lanes: what the client sees of addCurrentPath, *)
(* removePath, RebindNetwork and Close is that every worker has at most    *)
(* one lane, brought up under the current generation, none once it was     *)
(* given up, and that none comes up once the client is being closed.       *)
(***************************************************************************)
THEOREM PoolImplementsLanes == Spec => LanesImplemented
BY PoolInvariance, InitKeepsPromise, StepKeepsPromise, PTL DEF Spec, LanesImplemented, Promise!Spec

-----------------------------------------------------------------------------
(* The outbound                                                            *)

\* Every step of the outbound is a step of the pool, or leaves it alone.
LEMMA OutboundStepsPool == ASSUME [OutboundNext]_allVars PROVE [Next]_vars
<1>1. CASE StartLooks \/ StartSpawns BY <1>1 DEF StartLooks, StartSpawns
<1>2. CASE HandlerStep
  BY <1>2 DEF HandlerStep, HandlerConnects, HandlerFails, HandlerLooks, HandlerPublishes,
              HandlerHasClosed, HandlerFinishes
<1>3. CASE CloseBegins \/ CloseCallStep
  BY <1>3 DEF CloseBegins, CloseCallStep, CloseCancelsRun, CloseReadsStarted, CloseAwaits,
              CloseReadsBridge, CloseHasClosed, Next, CloseStep
<1>4. ASSUME NEW r \in Rebinders, UpdatePasses(r) PROVE UNCHANGED vars BY <1>4 DEF UpdatePasses
<1>5. ASSUME NEW r \in Rebinders, NEW g \in NetworkGenerations, UpdateRebinds(r, g) PROVE [Next]_vars
  BY <1>5 DEF UpdateRebinds, Next
<1>6. CASE PoolStep BY <1>6 DEF PoolStep, Next
<1>7. CASE PoolCloseStep BY <1>7 DEF PoolCloseStep, Next
<1>8. CASE UNCHANGED allVars BY <1>8 DEF allVars
<1> QED BY <1>1, <1>2, <1>3, <1>4, <1>5, <1>6, <1>7, <1>8 DEF OutboundNext

(***************************************************************************)
(* The outbound runs its pool as LanePool specifies it, whatever Start,    *)
(* Close and InterfaceUpdated do: all that is proved of the pool holds     *)
(* inside the outbound.                                                    *)
(***************************************************************************)
THEOREM OutboundImplementsPool == OutboundSpec => Spec
<1>1. OutboundInit => Init BY DEF OutboundInit
<1> QED BY <1>1, OutboundStepsPool, PTL DEF OutboundSpec, Spec

(***************************************************************************)
(* So everything said of the pool holds inside an outbound that is         *)
(* started, closed and told of new networks by goroutines of their own.    *)
(***************************************************************************)
THEOREM OutboundKeepsPoolSafe ==
    OutboundSpec => LanesImplemented /\ [](ExactlyOneTask /\ NoLeakedConn /\ StaleLanesAreDoomed)
BY OutboundImplementsPool, PoolImplementsLanes, ExactlyOneTaskHolds, NoLeakedConnHolds,
   StaleLanesAreDoomedHolds, PTL

\* Once the pool is drained it stays so: no step of the pool leaves that state.
LEMMA DrainedStays == ASSUME [Next]_vars, shutdown = "drained" PROVE shutdown' = "drained"
BY DEF Next, vars, WorkerStep, BeginDial, DialSucceeds, DialFails, DialFailsTerminally, BackoffElapses,
   AdmitPath, RefusePath, InitPathDone, ConnDies, WatchStep, WatchRemoves, WatchRestarts, RebindAdmits,
   RebindStep, RebindRotates, RebindCloses, RebindReturns, CloseStep, CloseCancels, CloseMarks, CloseDrains

\* Start and startHandler keep the agreement with Close.
LEMMA StartKeepsInv ==
    ASSUME OutboundInv, StartLooks \/ StartSpawns \/ HandlerStep
    PROVE  OutboundInv'
<1> USE DEF OutboundInv, OutboundTypeOK, PastStart, startVars
<1>0. shutdown' = shutdown
  BY DEF StartLooks, StartSpawns, HandlerStep, HandlerConnects, HandlerFails, HandlerLooks,
         HandlerPublishes, HandlerHasClosed, HandlerFinishes, vars
<1>1. CASE StartLooks BY <1>0, <1>1 DEF StartLooks
<1>2. CASE StartSpawns BY <1>0, <1>2 DEF StartSpawns
<1>3. CASE HandlerConnects BY <1>0, <1>3 DEF HandlerConnects
<1>4. CASE HandlerFails BY <1>0, <1>4 DEF HandlerFails
<1>5. CASE HandlerLooks BY <1>0, <1>5 DEF HandlerLooks
<1>6. CASE HandlerPublishes BY <1>0, <1>6 DEF HandlerPublishes
<1>7. CASE HandlerHasClosed BY <1>0, <1>7 DEF HandlerHasClosed
<1>8. CASE HandlerFinishes BY <1>0, <1>8 DEF HandlerFinishes
<1> QED BY <1>1, <1>2, <1>3, <1>4, <1>5, <1>6, <1>7, <1>8 DEF HandlerStep

\* So does Close.
LEMMA CloseKeepsInv ==
    ASSUME OutboundInv, [OutboundNext]_allVars, CloseBegins \/ CloseCallStep
    PROVE  OutboundInv'
<1>0. shutdown = "drained" => shutdown' = "drained" BY DrainedStays, OutboundStepsPool
<1> USE <1>0 DEF OutboundInv, OutboundTypeOK, PastStart, startVars
<1>1. CASE CloseBegins BY <1>1 DEF CloseBegins
<1>2. CASE CloseCancelsRun BY <1>2 DEF CloseCancelsRun
<1>3. CASE CloseReadsStarted BY <1>3 DEF CloseReadsStarted
<1>4. CASE CloseAwaits BY <1>4 DEF CloseAwaits
<1>5. CASE CloseReadsBridge BY <1>5 DEF CloseReadsBridge
<1>6. CASE CloseHasClosed BY <1>6 DEF CloseHasClosed
<1> QED BY <1>1, <1>2, <1>3, <1>4, <1>5, <1>6 DEF CloseCallStep

\* The steps of the pool and of InterfaceUpdated touch no flag.
LEMMA OutboundNextKeepsInv == ASSUME OutboundInv, [OutboundNext]_allVars PROVE OutboundInv'
<1>0. shutdown = "drained" => shutdown' = "drained" BY DrainedStays, OutboundStepsPool
<1>1. CASE StartLooks \/ StartSpawns \/ HandlerStep BY <1>1, StartKeepsInv
<1>2. CASE CloseBegins \/ CloseCallStep BY <1>2, CloseKeepsInv
<1>3. ASSUME UNCHANGED <<startPc, handlerPc, closePc, started, closed, await, bridge, relayUp>>,
             updating' \subseteq Rebinders
      PROVE  OutboundInv'
  <2>1. OutboundTypeOK' BY <1>3 DEF OutboundInv, OutboundTypeOK
  <2> QED BY <1>0, <1>3, <2>1 DEF OutboundInv, PastStart
<1>4. ASSUME NEW r \in Rebinders, UpdatePasses(r) \/ \E g \in NetworkGenerations : UpdateRebinds(r, g)
      PROVE  OutboundInv'
  <2>1. UNCHANGED <<startPc, handlerPc, closePc, started, closed, await, bridge, relayUp>>
    BY <1>4 DEF UpdatePasses, UpdateRebinds, startVars
  <2>2. updating' \subseteq Rebinders BY <1>4 DEF UpdatePasses, UpdateRebinds, OutboundInv, OutboundTypeOK
  <2> QED BY <1>3, <2>1, <2>2
<1>5. CASE PoolStep \/ PoolCloseStep \/ UNCHANGED allVars
  <2>1. UNCHANGED outboundVars BY <1>5 DEF PoolStep, PoolCloseStep, allVars, outboundVars
  <2> QED BY <1>3, <2>1 DEF outboundVars, OutboundInv, OutboundTypeOK
<1> QED BY <1>1, <1>2, <1>4, <1>5 DEF OutboundNext

(***************************************************************************)
(* Close and startHandler agree, in every interleaving with Start, on who  *)
(* closes the bridge: none outlives its outbound.                          *)
(***************************************************************************)
THEOREM NoBridgeOutlivesCloseHolds == OutboundSpec => []NoBridgeOutlivesClose
<1>1. OutboundInit => OutboundInv BY DEF OutboundInit, OutboundInv, OutboundTypeOK, PastStart
<1>2. OutboundInv => NoBridgeOutlivesClose BY DEF OutboundInv, NoBridgeOutlivesClose
<1> QED BY <1>1, <1>2, OutboundNextKeepsInv, PTL DEF OutboundSpec
=============================================================================
