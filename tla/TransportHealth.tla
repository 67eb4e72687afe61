--------------------------- MODULE TransportHealth ---------------------------
(***************************************************************************)
(* The health a client reports to the platform: healthLoop and             *)
(* healthSnapshot of transport/call/vk-parasite/supervisor.go, against the *)
(* workers whose dials fill and empty the pool (dialTrackedPath of         *)
(* client.go, the path functions of quic_relay.go) and the captcha flow    *)
(* that may interrupt a dial (solveVKCaptcha of transport/call/vk).        *)
(*                                                                         *)
(* healthSnapshot takes no lock.  It reads the pool, the challenge, the    *)
(* last failure and the count of first attempts one after the other, and a *)
(* step of a worker may fall between any two of these reads.               *)
(*                                                                         *)
(* How a lane is built, and what rebinds and Close do to the pool, is      *)
(* LanePool's subject; here a worker dials, fails or comes up.  Of a       *)
(* failure only its Terminal flag is kept.                                 *)
(***************************************************************************)
EXTENDS Naturals, FiniteSets

CONSTANTS
    Workers,    \* c.options.Workers of them
    NoWorker    \* nobody

ASSUME HealthAssumption == NoWorker \notin Workers

VARIABLES
    pc,           \* where the goroutine that serves a worker stands
    dialErr,      \* the error its DialPath is about to return
    lane,         \* its lane in the pool: none, or admitted by which goroutine
    initPhase,    \* whether initPath, and then its deferred function, is over
    challenge,    \* the worker whose captcha is published, or NoWorker
    closedByUser, \* workers whose challenge context was cancelled
    lastFailure,  \* c.lastFailure
    sawPath,      \* c.sawPath
    sawChallenge, \* c.sawChallenge
    healthWake,   \* a signal waits in c.healthWake
    loop,         \* where healthLoop stands
    seen,         \* what healthSnapshot has read so far
    published     \* the snapshot last given to PublishTransportHealth

workerVars == <<pc, dialErr, lane, initPhase>>
challengeVars == <<challenge, closedByUser>>
clientVars == <<sawPath, sawChallenge>>
loopVars == <<loop, seen, published>>
vars == <<pc, dialErr, lane, initPhase, challenge, closedByUser, lastFailure,
          sawPath, sawChallenge, healthWake, loop, seen, published>>

Failures == {"none", "retryable", "terminal"}

States == {"starting", "waitingUser", "healthy", "degraded", "recovering", "failed"}

\* r.paths, by worker
paths == {w \in Workers : lane[w] # "none"}

(***************************************************************************)
(* The types of the variables; a dial has an error in hand exactly while   *)
(* it is failing, and a worker has a lane exactly while it is up.          *)
(***************************************************************************)
TypeOK ==
    /\ pc \in [Workers -> {"dialing", "asking", "failing", "dialed", "up", "backoff", "givenUp"}]
    /\ dialErr \in [Workers -> Failures]
    /\ \A w \in Workers : dialErr[w] # "none" <=> pc[w] = "failing"
    /\ lane \in [Workers -> {"none", "first", "later"}]
    /\ \A w \in Workers : lane[w] # "none" <=> pc[w] = "up"
    /\ initPhase \in [Workers -> {"running", "returning", "done"}]
    /\ challenge \in Workers \cup {NoWorker}
    /\ closedByUser \subseteq Workers
    /\ lastFailure \in Failures
    /\ sawPath \in BOOLEAN /\ sawChallenge \in BOOLEAN /\ healthWake \in BOOLEAN
    /\ loop \in {"select", "paths", "challenge", "forget", "failure", "state", "publish"}
    /\ seen \in [paths : SUBSET Workers, challenge : BOOLEAN, failure : Failures, state : States]
    /\ published \in [state : States, failure : Failures]

\* ConnectClient: initPath of every worker dials, healthLoop takes a snapshot.
Init ==
    /\ pc = [w \in Workers |-> "dialing"]
    /\ dialErr = [w \in Workers |-> "none"]
    /\ lane = [w \in Workers |-> "none"]
    /\ initPhase = [w \in Workers |-> "running"]
    /\ challenge = NoWorker
    /\ closedByUser = {}
    /\ lastFailure = "none"
    /\ sawPath = FALSE /\ sawChallenge = FALSE /\ healthWake = FALSE
    /\ loop = "paths"
    /\ seen = [paths |-> {}, challenge |-> FALSE, failure |-> "none", state |-> "starting"]
    /\ published = [state |-> "starting", failure |-> "none"]

-----------------------------------------------------------------------------
\* initPath returns: what is left of it is its deferred function.
InitPathReturns(w) ==
    initPhase' = [initPhase EXCEPT ![w] = IF @ = "running" THEN "returning" ELSE @]

\* The part of DialPath before and after a captcha fails.
DialFails(w) ==
    /\ pc[w] = "dialing"
    /\ pc' = [pc EXCEPT ![w] = "failing"]
    /\ dialErr' = [dialErr EXCEPT ![w] = "retryable"]
    /\ UNCHANGED <<lane, initPhase, challengeVars, lastFailure, clientVars, healthWake, loopVars>>

\* VK asks for a captcha: solveVKCaptcha holds captchaFlowGate and publishes.
AskUser(w) ==
    /\ pc[w] = "dialing"
    /\ \A v \in Workers : pc[v] # "asking"
    /\ pc' = [pc EXCEPT ![w] = "asking"]
    /\ challenge' = w
    /\ UNCHANGED <<dialErr, lane, initPhase, closedByUser, lastFailure, clientVars, healthWake, loopVars>>

\* The platform calls CancelRuntimeChallenge: the user closed the question.
UserCancels ==
    /\ challenge # NoWorker
    /\ closedByUser' = closedByUser \cup {challenge}
    /\ challenge' = NoWorker
    /\ UNCHANGED <<workerVars, lastFailure, clientVars, healthWake, loopVars>>

\* ClearRuntimeChallenge(id), deferred by solveVKCaptcha.
ClearRuntimeChallenge(w) ==
    /\ challenge' = IF challenge = w THEN NoWorker ELSE challenge
    /\ closedByUser' = closedByUser \ {w}

\* GetCaptchaResultContext returns a token: the dial goes on.
CaptchaSolved(w) ==
    /\ pc[w] = "asking"
    /\ pc' = [pc EXCEPT ![w] = "dialing"]
    /\ ClearRuntimeChallenge(w)
    /\ UNCHANGED <<dialErr, lane, initPhase, lastFailure, clientVars, healthWake, loopVars>>

\* Mutant: a question whose window ran out stays on the screen.
CaptchaEndsUncleared(w, err) ==
    /\ pc[w] = "asking"
    /\ err = "terminal" => w \in closedByUser
    /\ pc' = [pc EXCEPT ![w] = "failing"]
    /\ dialErr' = [dialErr EXCEPT ![w] = err]
    /\ closedByUser' = closedByUser \ {w}
    /\ UNCHANGED <<lane, initPhase, challenge, lastFailure, clientVars, healthWake, loopVars>>

(***************************************************************************)
(* It returns without one.  Only a question that was closed is a terminal  *)
(* failure; a timeout and a proxy that went away may be asked again.       *)
(***************************************************************************)
CaptchaEnds(w, err) ==
    /\ pc[w] = "asking"
    /\ err = "terminal" => w \in closedByUser
    /\ pc' = [pc EXCEPT ![w] = "failing"]
    /\ dialErr' = [dialErr EXCEPT ![w] = err]
    /\ ClearRuntimeChallenge(w)
    /\ UNCHANGED <<lane, initPhase, lastFailure, clientVars, healthWake, loopVars>>

\* Mutant: the deferred function of initPath is skipped after a failure.
RecordPathFailureUncounted(w) ==
    /\ pc[w] = "failing"
    /\ lastFailure' = dialErr[w]
    /\ healthWake' = TRUE
    /\ dialErr' = [dialErr EXCEPT ![w] = "none"]
    /\ pc' = [pc EXCEPT ![w] = IF dialErr[w] = "terminal" THEN "givenUp" ELSE "backoff"]
    /\ UNCHANGED <<lane, initPhase, challengeVars, clientVars, loopVars>>

(***************************************************************************)
(* dialTrackedPath records the error and wakes the loop.  initPath and     *)
(* reconnectPath then give the worker up or dial again.                    *)
(***************************************************************************)
RecordPathFailure(w) ==
    /\ pc[w] = "failing"
    /\ lastFailure' = dialErr[w]
    /\ healthWake' = TRUE
    /\ dialErr' = [dialErr EXCEPT ![w] = "none"]
    /\ pc' = [pc EXCEPT ![w] = IF dialErr[w] = "terminal" THEN "givenUp" ELSE "backoff"]
    /\ InitPathReturns(w)
    /\ UNCHANGED <<lane, challengeVars, clientVars, loopVars>>

\* reconnectPath dials (again).
Redial(w) ==
    /\ pc[w] = "backoff"
    /\ pc' = [pc EXCEPT ![w] = "dialing"]
    /\ UNCHANGED <<dialErr, lane, initPhase, challengeVars, lastFailure, clientVars, healthWake, loopVars>>

\* dialTrackedPath returns a connection and forgets the last failure.
DialSucceeds(w) ==
    /\ pc[w] = "dialing"
    /\ pc' = [pc EXCEPT ![w] = "dialed"]
    /\ lastFailure' = "none"
    /\ UNCHANGED <<dialErr, lane, initPhase, challengeVars, clientVars, healthWake, loopVars>>

\* Mutant: startPath does not call notifyPathsChanged.
AdmitPathSilently(w) ==
    /\ pc[w] = "dialed"
    /\ pc' = [pc EXCEPT ![w] = "up"]
    /\ lane' = [lane EXCEPT ![w] = IF initPhase[w] = "running" THEN "first" ELSE "later"]
    /\ InitPathReturns(w)
    /\ UNCHANGED <<dialErr, challengeVars, lastFailure, clientVars, healthWake, loopVars>>

\* addCurrentPath admits the lane, startPath wakes the loop.
AdmitPath(w) ==
    /\ pc[w] = "dialed"
    /\ pc' = [pc EXCEPT ![w] = "up"]
    /\ lane' = [lane EXCEPT ![w] = IF initPhase[w] = "running" THEN "first" ELSE "later"]
    /\ healthWake' = TRUE
    /\ InitPathReturns(w)
    /\ UNCHANGED <<dialErr, challengeVars, lastFailure, clientVars, loopVars>>

\* The lane dies; watchPath removes it, wakes the loop and reconnects.
LaneDies(w) ==
    /\ pc[w] = "up"
    /\ pc' = [pc EXCEPT ![w] = "dialing"]
    /\ lane' = [lane EXCEPT ![w] = "none"]
    /\ healthWake' = TRUE
    /\ UNCHANGED <<dialErr, initPhase, challengeVars, lastFailure, clientVars, loopVars>>

\* The deferred function of initPath: one first attempt less, and a wake-up.
InitPathDone(w) ==
    /\ initPhase[w] = "returning"
    /\ initPhase' = [initPhase EXCEPT ![w] = "done"]
    /\ healthWake' = TRUE
    /\ UNCHANGED <<pc, dialErr, lane, challengeVars, lastFailure, clientVars, loopVars>>

\* Mutant: the first failure counts, whoever is still dialling.
NoPathsPending == FALSE

\* r.initialPending > 0
initialPathsPending == \E w \in Workers : initPhase[w] # "done"

-----------------------------------------------------------------------------
\* healthLoop: the heartbeat may tick at any moment ...
HeartbeatTicks ==
    /\ loop = "select"
    /\ loop' = "paths"
    /\ UNCHANGED <<workerVars, challengeVars, lastFailure, clientVars, healthWake, seen, published>>

\* ... and a wake-up is taken from the channel.
LoopWakes ==
    /\ loop = "select"
    /\ healthWake
    /\ healthWake' = FALSE
    /\ loop' = "paths"
    /\ UNCHANGED <<workerVars, challengeVars, lastFailure, clientVars, seen, published>>

\* healthSnapshot, one read after the other: the pool,
ReadPaths ==
    /\ loop = "paths"
    /\ seen' = [seen EXCEPT !.paths = paths]
    /\ sawPath' = (sawPath \/ paths # {})
    /\ loop' = "challenge"
    /\ UNCHANGED <<workerVars, challengeVars, lastFailure, sawChallenge, healthWake, published>>

\* the challenge,
ReadChallenge ==
    /\ loop = "challenge"
    /\ seen' = [seen EXCEPT !.challenge = challenge # NoWorker]
    /\ sawChallenge' = (sawChallenge \/ challenge # NoWorker)
    /\ loop' = IF challenge = NoWorker /\ sawChallenge THEN "forget" ELSE "failure"
    /\ UNCHANGED <<workerVars, challengeVars, lastFailure, sawPath, healthWake, published>>

\* (a challenge that is over takes the last failure with it)
ForgetFailure ==
    /\ loop = "forget"
    /\ lastFailure' = "none"
    /\ sawChallenge' = FALSE
    /\ loop' = "failure"
    /\ UNCHANGED <<workerVars, challengeVars, sawPath, healthWake, seen, published>>

\* the last failure,
ReadFailure ==
    /\ loop = "failure"
    /\ seen' = [seen EXCEPT !.failure = lastFailure]
    /\ loop' = "state"
    /\ UNCHANGED <<workerVars, challengeVars, lastFailure, clientVars, healthWake, published>>

\* Mutant: a failure is a refusal although lanes have been up.
IsFailedDespiteLanes == seen.failure # "none"

\* A failure before any lane was up, or a terminal one, is not a rebuild.
IsFailed == seen.failure = "terminal" \/ (seen.failure # "none" /\ ~sawPath)

\* The switch of healthSnapshot.
SnapshotState ==
    IF seen.challenge THEN "waitingUser"
    ELSE IF seen.paths = Workers THEN "healthy"
    ELSE IF seen.paths # {} THEN "degraded"
    ELSE IF initialPathsPending THEN "starting"
    ELSE IF IsFailed THEN "failed"
    ELSE IF ~sawPath THEN "starting" ELSE "recovering"

\* the first attempts: the state is decided.
DecideState ==
    /\ loop = "state"
    /\ seen' = [seen EXCEPT !.state = SnapshotState]
    /\ loop' = "publish"
    /\ UNCHANGED <<workerVars, challengeVars, lastFailure, clientVars, healthWake, published>>

(***************************************************************************)
(* PublishTransportHealth.  A snapshot with lanes carries no failure; that *)
(* of a challenge carries one that is not terminal.                        *)
(***************************************************************************)
Publish ==
    /\ loop = "publish"
    /\ published' = [state |-> seen.state,
                     failure |-> CASE seen.challenge -> "retryable"
                                   [] ~seen.challenge /\ seen.paths = {} -> seen.failure
                                   [] OTHER -> "none"]
    /\ loop' = "select"
    /\ UNCHANGED <<workerVars, challengeVars, lastFailure, clientVars, healthWake, seen>>

-----------------------------------------------------------------------------
WorkerStep(w) ==
    \/ DialFails(w)
    \/ CaptchaSolved(w)
    \/ \E err \in {"retryable", "terminal"} : CaptchaEnds(w, err)
    \/ RecordPathFailure(w)
    \/ Redial(w)
    \/ DialSucceeds(w)
    \/ AdmitPath(w)

LoopStep == LoopWakes \/ ReadPaths \/ ReadChallenge \/ ForgetFailure \/ ReadFailure \/ DecideState \/ Publish

Next ==
    \/ \E w \in Workers : WorkerStep(w) \/ InitPathDone(w) \/ AskUser(w) \/ LaneDies(w)
    \/ UserCancels
    \/ HeartbeatTicks
    \/ LoopStep

Spec == Init /\ [][Next]_vars

(***************************************************************************)
(* Goroutines run and a dial returns, with whatever result; a captcha has  *)
(* a window.  The heartbeat is not relied on: the comment of healthLoop    *)
(* says that it only refreshes ObservedAt.                                 *)
(***************************************************************************)
FairSpec ==
    /\ Spec
    /\ \A w \in Workers : WF_vars(WorkerStep(w)) /\ WF_vars(InitPathDone(w))
    /\ WF_vars(LoopStep)

-----------------------------------------------------------------------------
(***************************************************************************)
(* Failed, on which the platform gives the start up, is not published      *)
(* before every worker has ended its first attempt: the case               *)
(* initialPathsPending of the switch.                                      *)
(***************************************************************************)
NoEarlyRefusal == published.state = "failed" => \A w \in Workers : initPhase[w] = "done"

(***************************************************************************)
(* The challenge that is published is one somebody waits for: when the     *)
(* flow ends in any way solveVKCaptcha takes it off the screen.            *)
(***************************************************************************)
ChallengeHasAsker == challenge # NoWorker => pc[challenge] = "asking"

\* Worker w brought a lane up in its first attempt, and has it still.
HoldsFirstLane(w) == lane[w] = "first"

(***************************************************************************)
(* The comments of the switch: a fast first failure must not finish        *)
(* startup while sibling workers are still making their initial attempts,  *)
(* and only a failure before any lane was up is a refusal.  So no refusal  *)
(* is published while the lane of a first attempt stands.                  *)
(***************************************************************************)
RefusalMeansNoFirstLane ==
    [][published' # published /\ published'.state = "failed" /\ published'.failure = "retryable"
        => \A w \in Workers : ~HoldsFirstLane(w)]_vars

-----------------------------------------------------------------------------
LanesReported == published.state \in {"healthy", "degraded"}

(***************************************************************************)
(* Once a snapshot has seen lanes, the loss of all of them is reported as  *)
(* a rebuild: Failed would then stop a tunnel that is reconnecting, and is *)
(* left to terminal failures, which it carries.                            *)
(***************************************************************************)
NoFailFastAfterLanes ==
    [][sawPath /\ published' # published /\ published'.state = "failed"
        => published'.failure = "terminal"]_vars

(***************************************************************************)
(* Lanes that stand are reported, on the wake-ups alone: the platform      *)
(* keeps the start open until the state is healthy or degraded.            *)
(***************************************************************************)
LanesAreReported ==
    <>[](paths # {} /\ challenge = NoWorker) => <>[]LanesReported

(***************************************************************************)
(* If no dial ever succeeds, and nobody is asked, the platform is told so  *)
(* in the end, on the wake-ups alone: without the heartbeat that would     *)
(* publish again after a while.                                            *)
(***************************************************************************)
RefusalIsReported ==
    [](paths = {} /\ challenge = NoWorker) => <>[](published.state = "failed")

(***************************************************************************)
(* The table of states in docs/architecture.md and the test of the switch: *)
(* a terminal failure stays a failure.  Once every worker has been given   *)
(* up for good, the state settles on Failed.                               *)
(***************************************************************************)
TerminalFailureStays ==
    <>[](\A w \in Workers : pc[w] = "givenUp") => <>[](published.state = "failed")
=============================================================================
