----------------------- MODULE TransportHealth_proofs -----------------------
(***************************************************************************)
(* Proofs about what the person is told and asked: the health a client     *)
(* reports, for any set of workers (TransportHealth), and the captcha of a *)
(* join, for any flows and any servers (Captcha).                          *)
(***************************************************************************)
EXTENDS TransportHealth, Captcha, TLAPS

(***************************************************************************)
(* The state on its way to PublishTransportHealth: first attempts that are *)
(* over stay over, so what the switch has decided holds when it arrives;   *)
(* and its reasons travel with it.                                         *)
(***************************************************************************)
DecidedIsLate ==
    loop = "publish" /\ seen.state = "failed" =>
        /\ \A w \in Workers : initPhase[w] = "done"
        /\ ~seen.challenge
        /\ seen.paths = {}
        /\ sawPath => seen.failure = "terminal"

\* The type of seen
Seen == [paths : SUBSET Workers, challenge : BOOLEAN, failure : Failures, state : States]

HealthInv == TypeOK /\ NoEarlyRefusal /\ DecidedIsLate /\ ChallengeHasAsker

\* A step of a dialling goroutine keeps the invariant: first attempts only
\* end, and a captcha flow takes its challenge with it.
LEMMA WorkerStepInv ==
    ASSUME HealthInv, NEW w \in Workers,
           WorkerStep(w) \/ InitPathDone(w) \/ AskUser(w) \/ LaneDies(w)
    PROVE  HealthInv'
<1> USE HealthAssumption DEF HealthInv, TypeOK, NoEarlyRefusal, DecidedIsLate, ChallengeHasAsker,
        Failures, States, InitPathReturns, challengeVars, clientVars, loopVars
<1>1. CASE DialFails(w)
  BY <1>1 DEF DialFails
<1>2. CASE CaptchaSolved(w)
  BY <1>2 DEF CaptchaSolved, ClearRuntimeChallenge
<1>3. ASSUME NEW err \in {"retryable", "terminal"}, CaptchaEnds(w, err)
      PROVE  HealthInv'
  BY <1>3 DEF CaptchaEnds, ClearRuntimeChallenge
<1>4. CASE RecordPathFailure(w)
  BY <1>4 DEF RecordPathFailure
<1>5. CASE Redial(w)
  BY <1>5 DEF Redial
<1>6. CASE DialSucceeds(w)
  BY <1>6 DEF DialSucceeds
<1>7. CASE AdmitPath(w)
  BY <1>7 DEF AdmitPath
<1>8. CASE InitPathDone(w)
  BY <1>8 DEF InitPathDone
<1>9. CASE AskUser(w)
  BY <1>9 DEF AskUser
<1>10. CASE LaneDies(w)
  BY <1>10 DEF LaneDies
<1> QED
  BY <1>1, <1>2, <1>3, <1>4, <1>5, <1>6, <1>7, <1>8, <1>9, <1>10 DEF WorkerStep

\* So does a step of the health loop, and a question the user closes.
LEMMA LoopStepInv ==
    ASSUME HealthInv, UserCancels \/ HeartbeatTicks \/ LoopStep
    PROVE  HealthInv'
<1> USE HealthAssumption DEF HealthInv, TypeOK, NoEarlyRefusal, DecidedIsLate, ChallengeHasAsker,
        Failures, States, workerVars, challengeVars, clientVars, loopVars
<1>1. CASE UserCancels
  BY <1>1 DEF UserCancels
<1>2. CASE HeartbeatTicks \/ LoopWakes
  <2>1. (healthWake \in BOOLEAN)'
    BY <1>2 DEF HeartbeatTicks, LoopWakes
  <2> QED BY <1>2, <2>1 DEF HeartbeatTicks, LoopWakes
<1>3. CASE ReadPaths
  <2>1. seen' \in Seen
    BY <1>3 DEF ReadPaths, paths, Seen
  <2>2. (sawPath \in BOOLEAN)'
    BY <1>3 DEF ReadPaths
  <2> QED BY <1>3, <2>1, <2>2 DEF ReadPaths, Seen
<1>4. CASE ReadChallenge
  <2>1. seen' \in Seen
    BY <1>4 DEF ReadChallenge, Seen
  <2>2. (sawChallenge \in BOOLEAN)'
    BY <1>4 DEF ReadChallenge
  <2> QED BY <1>4, <2>1, <2>2 DEF ReadChallenge, Seen
<1>5. CASE ForgetFailure
  <2>1. (sawChallenge \in BOOLEAN)'
    BY <1>5 DEF ForgetFailure
  <2> QED BY <1>5, <2>1 DEF ForgetFailure
<1>6. CASE ReadFailure
  <2>1. seen' \in Seen
    BY <1>6 DEF ReadFailure, Seen
  <2> QED BY <1>6, <2>1 DEF ReadFailure, Seen
<1>7. CASE DecideState
  BY <1>7 DEF DecideState, SnapshotState, IsFailed, initialPathsPending
<1>8. CASE Publish
  BY <1>8 DEF Publish
<1> QED BY <1>1, <1>2, <1>3, <1>4, <1>5, <1>6, <1>7, <1>8 DEF LoopStep

(***************************************************************************)
(* The inductive invariant of the health loop and the workers around it.   *)
(***************************************************************************)
THEOREM HealthInvariance == Spec => []HealthInv
<1>1. Init => HealthInv
  <2> SUFFICES ASSUME Init PROVE HealthInv
    OBVIOUS
  <2>1. seen \in Seen /\ published \in [state : States, failure : Failures]
    BY DEF Init, Seen, Failures, States
  <2>2. TypeOK
    BY <2>1 DEF Init, TypeOK, Seen, Failures
  <2> QED BY <2>2 DEF Init, HealthInv, NoEarlyRefusal, DecidedIsLate, ChallengeHasAsker
<1>2. HealthInv /\ [Next]_vars => HealthInv'
  <2> SUFFICES ASSUME HealthInv, [Next]_vars PROVE HealthInv'
    OBVIOUS
  <2>1. CASE Next
    BY <2>1, WorkerStepInv, LoopStepInv DEF Next
  <2>2. CASE UNCHANGED vars
    BY <2>2 DEF vars, HealthInv, TypeOK, NoEarlyRefusal, DecidedIsLate, ChallengeHasAsker
  <2> QED BY <2>1, <2>2
<1> QED BY <1>1, <1>2, PTL DEF Spec

\* healthSnapshot never reports Failed while a first attempt is going on.
THEOREM NoEarlyRefusalHolds == Spec => []NoEarlyRefusal
<1>1. HealthInv => NoEarlyRefusal
  BY DEF HealthInv
<1> QED BY <1>1, HealthInvariance, PTL

\* A captcha flow never leaves its question behind.
THEOREM ChallengeHasAskerHolds == Spec => []ChallengeHasAsker
<1>1. HealthInv => ChallengeHasAsker
  BY DEF HealthInv
<1> QED BY <1>1, HealthInvariance, PTL

\* What healthSnapshot tells the platform after lanes have been up.
THEOREM NoFailFastAfterLanesHolds == Spec => NoFailFastAfterLanes
<1> DEFINE A == sawPath /\ published' # published /\ published'.state = "failed"
                  => published'.failure = "terminal"
<1>1. HealthInv /\ [Next]_vars => [A]_vars
  <2> SUFFICES ASSUME HealthInv, Next, published' # published PROVE A
    BY DEF vars
  <2>1. Publish
    BY DEF Next, WorkerStep, LoopStep, DialFails, CaptchaSolved, CaptchaEnds, RecordPathFailure,
           Redial, DialSucceeds, AdmitPath, InitPathDone, AskUser, LaneDies, UserCancels,
           HeartbeatTicks, LoopWakes, ReadPaths, ReadChallenge, ForgetFailure, ReadFailure,
           DecideState, loopVars
  <2> QED BY <2>1 DEF Publish, HealthInv, DecidedIsLate
<1> QED BY <1>1, HealthInvariance, PTL DEF Spec, NoFailFastAfterLanes

-----------------------------------------------------------------------------
(* The captcha                                                             *)

\* Where a flow may have a proxy that it started.
Proxied == HeldPlaces \ {"start", "leaving"}

\* The active proxy was started by a flow that has not stopped it yet.
ActiveIsOwned ==
    active # None => proxy[active].owner \in Flows /\ place[proxy[active].owner] \in Proxied

\* A challenge is on display only between its publication and its removal.
ChallengeIsOpen ==
    runtimeChallenge # None => place[runtimeChallenge] \in {"asking", "waiting", "reading", "ended", "clearing"}

\* The channels a flow waits on are those of its own proxy.
WatchedIsOwn ==
    \A f \in Flows :
        /\ watched[f] # None => proxy[watched[f]].owner = f
        /\ place[f] = "waiting" => watched[f] # None

(***************************************************************************)
(* Why TerminalWasCancelled is inductive: an outcome is kept from the end  *)
(* of the wait to the end of the flow, the verdict is reached after it,    *)
(* and a wait that ended by a context leaves the context done.             *)
(***************************************************************************)
OutcomeIsKept ==
    \A f \in Flows :
        /\ outcome[f] # "none" => place[f] \in {"ended", "clearing", "stopping", "leaving"}
        /\ outcome[f] = "context" => f \in ctxDone \cup cancelled
        /\ f \in terminal => place[f] \in {"clearing", "stopping", "leaving"}

\* The gate is free, or one flow is in it.
GateIsOwn ==
    /\ captchaFlowGate = IF Held = {} THEN 1 ELSE 0
    /\ \A f, g \in Held : f = g

(***************************************************************************)
(* QuestionIsOwn and TerminalWasCancelled follow from these facts, which   *)
(* are inductive together: StopCaptchaProxy and captchaProxyFailed may     *)
(* come from anyone, but they take no server from its owner, and only the  *)
(* flow in the gate installs one.                                          *)
(***************************************************************************)
CaptchaInv ==
    /\ CaptchaTypeOK
    /\ GateIsOwn
    /\ ActiveIsOwned
    /\ ChallengeIsOpen
    /\ WatchedIsOwn
    /\ OutcomeIsKept
    /\ TerminalWasCancelled

\* A server of captcha_proxy.go, with its owner and its channels.
Servers == [state : {"off", "serving", "failing"}, owner : Flows \cup {None},
            token : BOOLEAN, done : BOOLEAN]

\* What StopCaptchaProxy does to a server leaves its owner alone.
LEMMA StoppedKeepsOwners ==
    ASSUME CaptchaTypeOK
    PROVE  Stopped \in [Proxies -> Servers] /\ \A p \in Proxies : Stopped[p].owner = proxy[p].owner
<1> SUFFICES ASSUME NEW p \in Proxies
             PROVE  Stopped[p] \in Servers /\ Stopped[p].owner = proxy[p].owner
  BY DEF Stopped
<1>1. proxy[p] \in Servers
  BY DEF CaptchaTypeOK, Servers
<1>2. CASE p = active
  <2>1. Stopped[p] = [proxy[p] EXCEPT !.done = TRUE, !.state = IF @ = "serving" THEN "off" ELSE @]
    BY <1>2 DEF Stopped
  <2> QED BY <1>1, <2>1 DEF Servers
<1>3. CASE p # active
  BY <1>1, <1>3 DEF Stopped
<1> QED BY <1>2, <1>3

\* A flow that moves on inside the gate, or a step of someone else, leaves the
\* gate as it is.
LEMMA GateKept ==
    ASSUME CaptchaTypeOK, GateIsOwn, UNCHANGED captchaFlowGate,
           \/ UNCHANGED place
           \/ \E f \in Flows : \E to \in HeldPlaces : place[f] \in HeldPlaces /\ GoTo(f, to)
    PROVE  GateIsOwn'
<1>1. Held' = Held
  BY DEF Held, GoTo, CaptchaTypeOK
<1> QED BY <1>1 DEF GateIsOwn

\* A flow that moves on between the start of its proxy and its stop keeps it.
LEMMA ProxyKept ==
    ASSUME CaptchaTypeOK, ActiveIsOwned, WatchedIsOwn, UNCHANGED <<active, proxy, watched>>,
           NEW f \in Flows, NEW to \in Proxied \ {"waiting"}, place[f] \in Proxied, GoTo(f, to)
    PROVE  ActiveIsOwned' /\ WatchedIsOwn'
<1>1. ActiveIsOwned'
  BY DEF ActiveIsOwned, GoTo, CaptchaTypeOK
<1>2. WatchedIsOwn'
  BY DEF WatchedIsOwn, GoTo, CaptchaTypeOK
<1> QED BY <1>1, <1>2

\* Up to the answer, a flow is in the gate and has a proxy of its own.
LEMMA FlowAsksInv ==
    ASSUME CaptchaInv, NEW f \in Flows,
           \/ FlowBegins(f) \/ FlowEnters(f) \/ StartFails(f) \/ FlowPublishes(f) \/ FlowAsks(f)
           \/ \E p \in Proxies : StartInstalls(f, p)
    PROVE  CaptchaInv'
<1> USE CaptchaAssumption DEF CaptchaInv, GoTo, Ends, Held, HeldPlaces, Places, Servers, proxyVars,
        questionVars, resultVars
<1>1. CASE FlowBegins(f)
  <2>1. CaptchaTypeOK'
    BY <1>1 DEF FlowBegins, CaptchaTypeOK
  <2>2. GateIsOwn'
    BY <1>1 DEF FlowBegins, CaptchaTypeOK, GateIsOwn
  <2>3. ActiveIsOwned'
    BY <1>1 DEF FlowBegins, CaptchaTypeOK, ActiveIsOwned, Proxied
  <2>4. WatchedIsOwn'
    BY <1>1 DEF FlowBegins, CaptchaTypeOK, WatchedIsOwn
  <2>5. ChallengeIsOpen'
    BY <1>1 DEF FlowBegins, CaptchaTypeOK, ChallengeIsOpen
  <2>6. OutcomeIsKept' /\ TerminalWasCancelled'
    BY <1>1 DEF FlowBegins, CaptchaTypeOK, OutcomeIsKept, TerminalWasCancelled
  <2> QED BY <2>1, <2>2, <2>3, <2>4, <2>5, <2>6
<1>2. CASE FlowEnters(f)
  <2>1. CaptchaTypeOK'
    BY <1>2 DEF FlowEnters, CaptchaTypeOK
  <2>2. GateIsOwn'
    BY <1>2 DEF FlowEnters, CaptchaTypeOK, GateIsOwn
  <2>3. ActiveIsOwned'
    BY <1>2 DEF FlowEnters, CaptchaTypeOK, ActiveIsOwned, Proxied
  <2>4. WatchedIsOwn'
    BY <1>2 DEF FlowEnters, CaptchaTypeOK, WatchedIsOwn
  <2>5. ChallengeIsOpen'
    BY <1>2 DEF FlowEnters, CaptchaTypeOK, ChallengeIsOpen
  <2>6. OutcomeIsKept' /\ TerminalWasCancelled'
    BY <1>2 DEF FlowEnters, CaptchaTypeOK, OutcomeIsKept, TerminalWasCancelled
  <2> QED BY <2>1, <2>2, <2>3, <2>4, <2>5, <2>6
<1>3. CASE StartFails(f)
  <2>1. /\ active' = None /\ proxy' \in [Proxies -> Servers]
        /\ \A q \in Proxies : proxy'[q].owner = proxy[q].owner
    BY <1>3, StoppedKeepsOwners DEF StartFails, StopCaptchaProxy
  <2>2. CaptchaTypeOK'
    BY <1>3, <2>1 DEF StartFails, CaptchaTypeOK, StopCaptchaProxy
  <2>3. GateIsOwn'
    BY <1>3, GateKept DEF StartFails
  <2>4. ActiveIsOwned'
    BY <1>3, <2>1 DEF StartFails, CaptchaTypeOK, ActiveIsOwned, Proxied
  <2>5. WatchedIsOwn'
    BY <1>3, <2>1 DEF StartFails, CaptchaTypeOK, WatchedIsOwn
  <2>6. ChallengeIsOpen'
    BY <1>3 DEF StartFails, CaptchaTypeOK, ChallengeIsOpen
  <2>7. OutcomeIsKept' /\ TerminalWasCancelled'
    BY <1>3 DEF StartFails, CaptchaTypeOK, OutcomeIsKept, TerminalWasCancelled
  <2> QED BY <2>2, <2>3, <2>4, <2>5, <2>6, <2>7
<1>4. CASE FlowPublishes(f)
  <2>1. CaptchaTypeOK'
    BY <1>4 DEF FlowPublishes, CaptchaTypeOK
  <2>2. GateIsOwn'
    BY <1>4, GateKept DEF FlowPublishes
  <2>3. ActiveIsOwned' /\ WatchedIsOwn'
    BY <1>4, ProxyKept DEF FlowPublishes, Proxied
  <2>4. ChallengeIsOpen'
    BY <1>4 DEF FlowPublishes, CaptchaTypeOK, ChallengeIsOpen
  <2>5. OutcomeIsKept' /\ TerminalWasCancelled'
    BY <1>4 DEF FlowPublishes, CaptchaTypeOK, OutcomeIsKept, TerminalWasCancelled
  <2> QED BY <2>1, <2>2, <2>3, <2>4, <2>5
<1>5. CASE FlowAsks(f)
  <2>1. CaptchaTypeOK'
    BY <1>5 DEF FlowAsks, CaptchaTypeOK
  <2>2. GateIsOwn'
    BY <1>5, GateKept DEF FlowAsks
  <2>3. ActiveIsOwned'
    BY <1>5 DEF FlowAsks, CaptchaTypeOK, ActiveIsOwned, Proxied
  <2>4. WatchedIsOwn'
    BY <1>5 DEF FlowAsks, CaptchaTypeOK, WatchedIsOwn, ActiveIsOwned, Proxied, GateIsOwn
  <2>5. ChallengeIsOpen'
    BY <1>5 DEF FlowAsks, CaptchaTypeOK, ChallengeIsOpen
  <2>6. OutcomeIsKept' /\ TerminalWasCancelled'
    BY <1>5 DEF FlowAsks, CaptchaTypeOK, OutcomeIsKept, TerminalWasCancelled
  <2> QED BY <2>1, <2>2, <2>3, <2>4, <2>5, <2>6
<1>6. ASSUME NEW p \in Proxies, StartInstalls(f, p) PROVE CaptchaInv'
  <2>1. /\ active' = p /\ proxy' \in [Proxies -> Servers]
        /\ \A q \in Proxies : proxy'[q].owner = IF q = p THEN f ELSE proxy[q].owner
    <3>1. [state |-> "serving", owner |-> f, token |-> FALSE, done |-> FALSE] \in Servers
      OBVIOUS
    <3> QED BY <1>6, <3>1, StoppedKeepsOwners DEF StartInstalls
  <2>2. CaptchaTypeOK'
    BY <1>6, <2>1 DEF StartInstalls, CaptchaTypeOK
  <2>3. GateIsOwn'
    BY <1>6, GateKept DEF StartInstalls
  <2>4. ActiveIsOwned'
    BY <1>6, <2>1 DEF StartInstalls, CaptchaTypeOK, ActiveIsOwned, Proxied
  <2>5. WatchedIsOwn'
    BY <1>6, <2>1 DEF StartInstalls, CaptchaTypeOK, WatchedIsOwn
  <2>6. ChallengeIsOpen'
    BY <1>6 DEF StartInstalls, CaptchaTypeOK, ChallengeIsOpen
  <2>7. OutcomeIsKept' /\ TerminalWasCancelled'
    BY <1>6 DEF StartInstalls, CaptchaTypeOK, OutcomeIsKept, TerminalWasCancelled
  <2> QED BY <2>2, <2>3, <2>4, <2>5, <2>6, <2>7
<1> QED BY <1>1, <1>2, <1>3, <1>4, <1>5, <1>6

\* The wait ends in one way, and the verdict is reached once.
LEMMA FlowEndsInv ==
    ASSUME CaptchaInv, NEW f \in Flows,
           \/ FlowIsAnswered(f) \/ FlowGivesUp(f) \/ FlowSeesDone(f)
           \/ FlowReadsFailed(f) \/ FlowDecides(f)
    PROVE  CaptchaInv'
<1> USE CaptchaAssumption DEF CaptchaInv, GoTo, Ends, Held, HeldPlaces, Places, Servers, proxyVars,
        questionVars, resultVars
<1>1. CASE FlowIsAnswered(f)
  <2>1. proxy' \in [Proxies -> Servers] /\ \A q \in Proxies : proxy'[q].owner = proxy[q].owner
    <3>1. watched[f] \in Proxies
      BY <1>1 DEF FlowIsAnswered, CaptchaTypeOK, WatchedIsOwn
    <3>2. proxy[watched[f]] \in Servers
      BY <3>1 DEF CaptchaTypeOK
    <3>3. [proxy[watched[f]] EXCEPT !.token = FALSE] \in Servers
      BY <3>2
    <3>4. proxy' = [proxy EXCEPT ![watched[f]] = [proxy[watched[f]] EXCEPT !.token = FALSE]]
      BY <1>1 DEF FlowIsAnswered
    <3> QED BY <3>1, <3>2, <3>3, <3>4 DEF CaptchaTypeOK
  <2>2. CaptchaTypeOK'
    BY <1>1, <2>1 DEF FlowIsAnswered, CaptchaTypeOK
  <2>3. GateIsOwn'
    BY <1>1, GateKept DEF FlowIsAnswered
  <2>4. ActiveIsOwned'
    BY <1>1, <2>1 DEF FlowIsAnswered, CaptchaTypeOK, ActiveIsOwned, Proxied
  <2>5. WatchedIsOwn'
    BY <1>1, <2>1 DEF FlowIsAnswered, CaptchaTypeOK, WatchedIsOwn
  <2>6. ChallengeIsOpen'
    BY <1>1 DEF FlowIsAnswered, CaptchaTypeOK, ChallengeIsOpen
  <2>7. OutcomeIsKept' /\ TerminalWasCancelled'
    BY <1>1 DEF FlowIsAnswered, CaptchaTypeOK, OutcomeIsKept, TerminalWasCancelled
  <2> QED BY <2>2, <2>3, <2>4, <2>5, <2>6, <2>7
<1>2. CASE FlowGivesUp(f)
  <2>1. CaptchaTypeOK'
    BY <1>2 DEF FlowGivesUp, CaptchaTypeOK
  <2>2. GateIsOwn'
    BY <1>2, GateKept DEF FlowGivesUp
  <2>3. ActiveIsOwned' /\ WatchedIsOwn'
    BY <1>2, ProxyKept DEF FlowGivesUp, Proxied
  <2>4. ChallengeIsOpen'
    BY <1>2 DEF FlowGivesUp, CaptchaTypeOK, ChallengeIsOpen
  <2>5. OutcomeIsKept' /\ TerminalWasCancelled'
    BY <1>2 DEF FlowGivesUp, CaptchaTypeOK, OutcomeIsKept, TerminalWasCancelled
  <2> QED BY <2>1, <2>2, <2>3, <2>4, <2>5
<1>3. CASE FlowSeesDone(f)
  <2>1. CaptchaTypeOK'
    BY <1>3 DEF FlowSeesDone, CaptchaTypeOK
  <2>2. GateIsOwn'
    BY <1>3, GateKept DEF FlowSeesDone
  <2>3. ActiveIsOwned' /\ WatchedIsOwn'
    BY <1>3, ProxyKept DEF FlowSeesDone, Proxied
  <2>4. ChallengeIsOpen'
    BY <1>3 DEF FlowSeesDone, CaptchaTypeOK, ChallengeIsOpen
  <2>5. OutcomeIsKept' /\ TerminalWasCancelled'
    BY <1>3 DEF FlowSeesDone, CaptchaTypeOK, OutcomeIsKept, TerminalWasCancelled
  <2> QED BY <2>1, <2>2, <2>3, <2>4, <2>5
<1>4. CASE FlowReadsFailed(f)
  <2>1. CaptchaTypeOK'
    BY <1>4 DEF FlowReadsFailed, CaptchaTypeOK
  <2>2. GateIsOwn'
    BY <1>4, GateKept DEF FlowReadsFailed
  <2>3. ActiveIsOwned' /\ WatchedIsOwn'
    BY <1>4, ProxyKept DEF FlowReadsFailed, Proxied
  <2>4. ChallengeIsOpen'
    BY <1>4 DEF FlowReadsFailed, CaptchaTypeOK, ChallengeIsOpen
  <2>5. OutcomeIsKept' /\ TerminalWasCancelled'
    BY <1>4 DEF FlowReadsFailed, CaptchaTypeOK, OutcomeIsKept, TerminalWasCancelled
  <2> QED BY <2>1, <2>2, <2>3, <2>4, <2>5
<1>5. CASE FlowDecides(f)
  <2>1. CaptchaTypeOK'
    BY <1>5 DEF FlowDecides, CaptchaTypeOK
  <2>2. GateIsOwn'
    BY <1>5, GateKept DEF FlowDecides
  <2>3. ActiveIsOwned' /\ WatchedIsOwn'
    BY <1>5, ProxyKept DEF FlowDecides, Proxied
  <2>4. ChallengeIsOpen'
    BY <1>5 DEF FlowDecides, CaptchaTypeOK, ChallengeIsOpen
  <2>5. OutcomeIsKept' /\ TerminalWasCancelled'
    BY <1>5 DEF FlowDecides, CaptchaTypeOK, OutcomeIsKept, TerminalWasCancelled
  <2> QED BY <2>1, <2>2, <2>3, <2>4, <2>5
<1> QED BY <1>1, <1>2, <1>3, <1>4, <1>5

\* The deferred calls undo what the flow did, the gate last.
LEMMA FlowLeavesInv ==
    ASSUME CaptchaInv, NEW f \in Flows,
           FlowClears(f) \/ FlowStops(f) \/ FlowLeaves(f) \/ ParentDone(f)
    PROVE  CaptchaInv'
<1> USE CaptchaAssumption DEF CaptchaInv, GoTo, Ends, Held, HeldPlaces, Places, Servers, proxyVars,
        questionVars, resultVars
<1>1. CASE FlowClears(f)
  <2>1. CaptchaTypeOK'
    BY <1>1 DEF FlowClears, CaptchaTypeOK
  <2>2. GateIsOwn'
    BY <1>1, GateKept DEF FlowClears
  <2>3. ActiveIsOwned' /\ WatchedIsOwn'
    BY <1>1, ProxyKept DEF FlowClears, Proxied
  <2>4. ChallengeIsOpen'
    BY <1>1 DEF FlowClears, CaptchaTypeOK, ChallengeIsOpen
  <2>5. OutcomeIsKept' /\ TerminalWasCancelled'
    BY <1>1 DEF FlowClears, CaptchaTypeOK, OutcomeIsKept, TerminalWasCancelled
  <2> QED BY <2>1, <2>2, <2>3, <2>4, <2>5
<1>2. CASE FlowStops(f)
  <2>1. /\ active' = None /\ proxy' \in [Proxies -> Servers]
        /\ \A q \in Proxies : proxy'[q].owner = proxy[q].owner
    BY <1>2, StoppedKeepsOwners DEF FlowStops, StopCaptchaProxy
  <2>2. CaptchaTypeOK'
    BY <1>2, <2>1 DEF FlowStops, CaptchaTypeOK, StopCaptchaProxy
  <2>3. GateIsOwn'
    BY <1>2, GateKept DEF FlowStops
  <2>4. ActiveIsOwned'
    BY <1>2, <2>1 DEF FlowStops, CaptchaTypeOK, ActiveIsOwned, Proxied
  <2>5. WatchedIsOwn'
    BY <1>2, <2>1 DEF FlowStops, CaptchaTypeOK, WatchedIsOwn
  <2>6. ChallengeIsOpen'
    BY <1>2 DEF FlowStops, CaptchaTypeOK, ChallengeIsOpen
  <2>7. OutcomeIsKept' /\ TerminalWasCancelled'
    BY <1>2 DEF FlowStops, CaptchaTypeOK, OutcomeIsKept, TerminalWasCancelled
  <2> QED BY <2>2, <2>3, <2>4, <2>5, <2>6, <2>7
<1>3. CASE FlowLeaves(f)
  <2>1. captchaFlowGate = 0
    BY <1>3 DEF FlowLeaves, GateIsOwn
  <2>2. CaptchaTypeOK'
    BY <1>3, <2>1 DEF FlowLeaves, CaptchaTypeOK
  <2>3. GateIsOwn'
    BY <1>3 DEF FlowLeaves, CaptchaTypeOK, GateIsOwn
  <2>4. ActiveIsOwned'
    BY <1>3 DEF FlowLeaves, CaptchaTypeOK, ActiveIsOwned, Proxied
  <2>5. WatchedIsOwn'
    BY <1>3 DEF FlowLeaves, CaptchaTypeOK, WatchedIsOwn
  <2>6. ChallengeIsOpen'
    BY <1>3 DEF FlowLeaves, CaptchaTypeOK, ChallengeIsOpen
  <2>7. OutcomeIsKept' /\ TerminalWasCancelled'
    BY <1>3 DEF FlowLeaves, CaptchaTypeOK, OutcomeIsKept, TerminalWasCancelled
  <2> QED BY <2>2, <2>3, <2>4, <2>5, <2>6, <2>7
<1>4. CASE ParentDone(f)
  <2>1. CaptchaTypeOK'
    BY <1>4 DEF ParentDone, CaptchaTypeOK
  <2>2. GateIsOwn'
    BY <1>4, GateKept DEF ParentDone
  <2>3. ActiveIsOwned'
    BY <1>4 DEF ParentDone, CaptchaTypeOK, ActiveIsOwned, Proxied
  <2>4. WatchedIsOwn'
    BY <1>4 DEF ParentDone, CaptchaTypeOK, WatchedIsOwn
  <2>5. ChallengeIsOpen'
    BY <1>4 DEF ParentDone, CaptchaTypeOK, ChallengeIsOpen
  <2>6. OutcomeIsKept' /\ TerminalWasCancelled'
    BY <1>4 DEF ParentDone, CaptchaTypeOK, OutcomeIsKept, TerminalWasCancelled
  <2> QED BY <2>1, <2>2, <2>3, <2>4, <2>5, <2>6
<1> QED BY <1>1, <1>2, <1>3, <1>4

\* What the page, a dying server, a closing joiner and the runtime do.
LEMMA OthersInv ==
    ASSUME CaptchaInv,
           \/ \E p \in Proxies : PersonAnswers(p) \/ ServeFails(p) \/ CaptchaProxyFailed(p)
           \/ JoinerCloses
           \/ \E who \in {"person", "reset"} : CancelChallenge(who)
    PROVE  CaptchaInv'
<1> USE CaptchaAssumption DEF CaptchaInv, GoTo, Ends, Held, HeldPlaces, Places, Servers, proxyVars,
        questionVars, resultVars
<1>1. ASSUME NEW p \in Proxies, PersonAnswers(p) PROVE CaptchaInv'
  <2>1. proxy' \in [Proxies -> Servers] /\ \A q \in Proxies : proxy'[q].owner = proxy[q].owner
    <3>1. proxy[p] \in Servers
      BY DEF CaptchaTypeOK
    <3>2. [proxy[p] EXCEPT !.token = TRUE] \in Servers
      BY <3>1
    <3>3. proxy' = [proxy EXCEPT ![p] = [proxy[p] EXCEPT !.token = TRUE]]
      BY <1>1 DEF PersonAnswers
    <3> QED BY <3>1, <3>2, <3>3 DEF CaptchaTypeOK
  <2>2. CaptchaTypeOK'
    BY <1>1, <2>1 DEF PersonAnswers, CaptchaTypeOK
  <2>3. GateIsOwn'
    BY <1>1, GateKept DEF PersonAnswers
  <2>4. ActiveIsOwned'
    BY <1>1, <2>1 DEF PersonAnswers, CaptchaTypeOK, ActiveIsOwned, Proxied
  <2>5. WatchedIsOwn'
    BY <1>1, <2>1 DEF PersonAnswers, CaptchaTypeOK, WatchedIsOwn
  <2>6. ChallengeIsOpen'
    BY <1>1 DEF PersonAnswers, CaptchaTypeOK, ChallengeIsOpen
  <2>7. OutcomeIsKept' /\ TerminalWasCancelled'
    BY <1>1 DEF PersonAnswers, CaptchaTypeOK, OutcomeIsKept, TerminalWasCancelled
  <2> QED BY <2>2, <2>3, <2>4, <2>5, <2>6, <2>7
<1>2. ASSUME NEW p \in Proxies, ServeFails(p) PROVE CaptchaInv'
  <2>1. proxy' \in [Proxies -> Servers] /\ \A q \in Proxies : proxy'[q].owner = proxy[q].owner
    <3>1. proxy[p] \in Servers
      BY DEF CaptchaTypeOK
    <3>2. [proxy[p] EXCEPT !.state = "failing"] \in Servers
      BY <3>1
    <3>3. proxy' = [proxy EXCEPT ![p] = [proxy[p] EXCEPT !.state = "failing"]]
      BY <1>2 DEF ServeFails
    <3> QED BY <3>1, <3>2, <3>3 DEF CaptchaTypeOK
  <2>2. CaptchaTypeOK'
    BY <1>2, <2>1 DEF ServeFails, CaptchaTypeOK
  <2>3. GateIsOwn'
    BY <1>2, GateKept DEF ServeFails
  <2>4. ActiveIsOwned'
    BY <1>2, <2>1 DEF ServeFails, CaptchaTypeOK, ActiveIsOwned, Proxied
  <2>5. WatchedIsOwn'
    BY <1>2, <2>1 DEF ServeFails, CaptchaTypeOK, WatchedIsOwn
  <2>6. ChallengeIsOpen'
    BY <1>2 DEF ServeFails, CaptchaTypeOK, ChallengeIsOpen
  <2>7. OutcomeIsKept' /\ TerminalWasCancelled'
    BY <1>2 DEF ServeFails, CaptchaTypeOK, OutcomeIsKept, TerminalWasCancelled
  <2> QED BY <2>2, <2>3, <2>4, <2>5, <2>6, <2>7
<1>3. ASSUME NEW p \in Proxies, CaptchaProxyFailed(p) PROVE CaptchaInv'
  <2>1. proxy' \in [Proxies -> Servers] /\ \A q \in Proxies : proxy'[q].owner = proxy[q].owner
    <3> SUFFICES ASSUME NEW q \in Proxies
                 PROVE  proxy'[q] \in Servers /\ proxy'[q].owner = proxy[q].owner
      BY <1>3 DEF CaptchaProxyFailed
    <3>1. proxy[q] \in Servers
      BY DEF CaptchaTypeOK
    <3>2. proxy'[q] = [proxy[q] EXCEPT !.state = IF q = p THEN "off" ELSE @, !.done = @ \/ q = active]
      BY <1>3 DEF CaptchaProxyFailed
    <3>3. (proxy[q].done \/ q = active) \in BOOLEAN
      OBVIOUS
    <3> QED BY <3>1, <3>2, <3>3
  <2>2. UNCHANGED <<captchaFlowGate, place, ctxDone, active, resultVars, questionVars>>
    BY <1>3 DEF CaptchaProxyFailed
  <2>3. failed' \in BOOLEAN
    BY <1>3 DEF CaptchaProxyFailed
  <2>4. CaptchaTypeOK'
    BY <2>1, <2>2, <2>3 DEF CaptchaTypeOK
  <2>5. GateIsOwn' /\ ChallengeIsOpen'
    BY <2>2 DEF GateIsOwn, ChallengeIsOpen
  <2>6. ActiveIsOwned' /\ WatchedIsOwn'
    BY <2>1, <2>2 DEF CaptchaTypeOK, ActiveIsOwned, WatchedIsOwn, Proxied
  <2>7. OutcomeIsKept' /\ TerminalWasCancelled'
    BY <2>2 DEF OutcomeIsKept, TerminalWasCancelled
  <2> QED BY <2>4, <2>5, <2>6, <2>7
<1>4. CASE JoinerCloses
  <2>1. /\ active' = None /\ proxy' \in [Proxies -> Servers]
        /\ \A q \in Proxies : proxy'[q].owner = proxy[q].owner
    BY <1>4, StoppedKeepsOwners DEF JoinerCloses, StopCaptchaProxy
  <2>2. CaptchaTypeOK'
    BY <1>4, <2>1 DEF JoinerCloses, CaptchaTypeOK, StopCaptchaProxy
  <2>3. GateIsOwn'
    BY <1>4, GateKept DEF JoinerCloses
  <2>4. ActiveIsOwned'
    BY <1>4, <2>1 DEF JoinerCloses, CaptchaTypeOK, ActiveIsOwned, Proxied
  <2>5. WatchedIsOwn'
    BY <1>4, <2>1 DEF JoinerCloses, CaptchaTypeOK, WatchedIsOwn
  <2>6. ChallengeIsOpen'
    BY <1>4 DEF JoinerCloses, CaptchaTypeOK, ChallengeIsOpen
  <2>7. OutcomeIsKept' /\ TerminalWasCancelled'
    BY <1>4 DEF JoinerCloses, CaptchaTypeOK, OutcomeIsKept, TerminalWasCancelled
  <2> QED BY <2>2, <2>3, <2>4, <2>5, <2>6, <2>7
<1>5. ASSUME NEW who \in {"person", "reset"}, CancelChallenge(who) PROVE CaptchaInv'
  <2>1. CaptchaTypeOK'
    BY <1>5 DEF CancelChallenge, CaptchaTypeOK
  <2>2. GateIsOwn'
    BY <1>5, GateKept DEF CancelChallenge
  <2>3. ActiveIsOwned'
    BY <1>5 DEF CancelChallenge, CaptchaTypeOK, ActiveIsOwned, Proxied
  <2>4. WatchedIsOwn'
    BY <1>5 DEF CancelChallenge, CaptchaTypeOK, WatchedIsOwn
  <2>5. ChallengeIsOpen'
    BY <1>5 DEF CancelChallenge, CaptchaTypeOK, ChallengeIsOpen
  <2>6. OutcomeIsKept' /\ TerminalWasCancelled'
    BY <1>5 DEF CancelChallenge, CaptchaTypeOK, OutcomeIsKept, TerminalWasCancelled
  <2> QED BY <2>1, <2>2, <2>3, <2>4, <2>5, <2>6
<1> QED BY <1>1, <1>2, <1>3, <1>4, <1>5

(***************************************************************************)
(* The inductive invariant of the flows, the proxy and the challenge.      *)
(***************************************************************************)
THEOREM CaptchaInvariance == CaptchaSpec => []CaptchaInv
<1>1. CaptchaInit => CaptchaInv
  <2> SUFFICES ASSUME CaptchaInit PROVE CaptchaInv
    OBVIOUS
  <2>1. NotServing \in Servers
    BY DEF NotServing, Servers
  <2>2. CaptchaTypeOK
    <3>1. proxy \in [Proxies -> Servers]
      BY <2>1 DEF CaptchaInit
    <3>2. captchaFlowGate \in 0..1
      BY DEF CaptchaInit
    <3> QED BY <3>1, <3>2, Zenon DEF CaptchaInit, CaptchaTypeOK, Places, Servers
  <2>3. Held = {}
    BY DEF CaptchaInit, Held, HeldPlaces
  <2>4. GateIsOwn
    BY <2>3 DEF CaptchaInit, GateIsOwn
  <2> QED
    BY <2>2, <2>4 DEF CaptchaInit, CaptchaInv, ActiveIsOwned, ChallengeIsOpen, WatchedIsOwn,
       OutcomeIsKept, TerminalWasCancelled
<1>2. CaptchaInv /\ [CaptchaNext]_captchaVars => CaptchaInv'
  <2> SUFFICES ASSUME CaptchaInv, [CaptchaNext]_captchaVars PROVE CaptchaInv'
    OBVIOUS
  <2>1. ASSUME NEW f \in Flows, FlowStep(f) PROVE CaptchaInv'
    BY <2>1, FlowAsksInv, FlowEndsInv, FlowLeavesInv DEF FlowStep
  <2>2. CASE UNCHANGED captchaVars
    BY <2>2 DEF captchaVars, CaptchaInv, CaptchaTypeOK, GateIsOwn, Held, ActiveIsOwned,
       ChallengeIsOpen, WatchedIsOwn, OutcomeIsKept, TerminalWasCancelled
  <2> QED BY <2>1, <2>2, OthersInv DEF CaptchaNext
<1> QED BY <1>1, <1>2, PTL DEF CaptchaSpec

\* One question at a time, each through its own proxy, for any number of flows
\* and servers, however they die and whoever closes (vk_auth.go 231-255).
THEOREM QuestionIsOwnHolds == CaptchaSpec => []QuestionIsOwn
<1>1. CaptchaInv => QuestionIsOwn
  BY DEF CaptchaInv, GateIsOwn, ActiveIsOwned, ChallengeIsOpen, WatchedIsOwn, Proxied, QuestionIsOwn
<1> QED BY <1>1, CaptchaInvariance, PTL

\* An error ends the attempt only if the challenge of its own flow was cancelled
\* (vk_auth.go 259-273).
THEOREM TerminalWasCancelledHolds == CaptchaSpec => []TerminalWasCancelled
<1>1. CaptchaInv => TerminalWasCancelled
  BY DEF CaptchaInv
<1> QED BY <1>1, CaptchaInvariance, PTL
=============================================================================
