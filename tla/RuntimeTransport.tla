-------------------------- MODULE RuntimeTransport --------------------------
(***************************************************************************)
(* The process-wide transport state (common/hydracore/runtime_transport.go)*)
(* between the clients that write it, the service calls that reset it      *)
(* (StartOrReloadService and CloseService of daemon/started_service.go),   *)
(* and the event stream that reads it for the platform                     *)
(* (SubscribeRuntimeEvents of daemon/runtime_api.go).                      *)
(*                                                                         *)
(* Every call has a number, which names the client its instance creates.   *)
(* A start may pass a RuntimeGeneration (libbox) or none (boxdd); the one  *)
(* it passes is its number, as the platform counts its starts up.  A URL   *)
(* test of its own is a start without one, of a second service in the same *)
(* process.  A step is one critical section of runtimeTransportState, or   *)
(* of the service locks.  Which state a client observes is the subject of  *)
(* TransportHealth: here it may be any.                                    *)
(***************************************************************************)
EXTENDS Naturals

CONSTANTS
    MaxCalls,     \* bound: calls of StartOrReloadService and CloseService
    States        \* the states a client may observe

Calls == 1..MaxCalls

ASSUME RuntimeAssumption ==
    /\ MaxCalls \in Nat
    /\ "starting" \in States

VARIABLES
    runtimeGeneration, \* runtimeTransportState.generation
    health,       \* runtimeTransportState.health
    challenge,    \* runtimeTransportState.challenge: the client that asks, or 0
    kind,         \* what a call is: a start with a RuntimeGeneration, one
                  \* without, a stop, or a start of a standalone URL test
    overlap,      \* history: a call was made while another was in progress
    callPc,       \* where it stands
    holder,       \* the call that holds lifecycleAccess, or 0
    instance,     \* s.instance: the call that created it, or 0
    interrupted,  \* s.startInterrupted
    client,       \* the client of an instance: not created, running ...
    clientGen,    \* its runtimeGeneration
    asking,       \* the client that holds captchaFlowGate, or 0
    stream,       \* where SubscribeRuntimeEvents stands
    changed,      \* whether the channel it holds was closed
    observed,     \* its local variable snapshot, inside CurrentTransportHealth
    sent          \* the state and the generation it sent last

storeVars == <<runtimeGeneration, health, challenge>>
requestVars == <<kind, overlap>>
serviceVars == <<kind, overlap, callPc, holder, instance, interrupted>>
instanceVars == <<client, clientGen, asking>>
streamVars == <<stream, observed, sent>>
runtimeVars == <<runtimeGeneration, health, challenge, kind, overlap, callPc, holder, instance,
                 interrupted, client, clientGen, asking, stream, changed, observed, sent>>

Kinds == {"start", "bare", "stop", "probe"}

\* A TransportHealthSnapshot: of a state in S, under a generation.
Snapshots(S) == [state : S, gen : 0..MaxCalls]

(***************************************************************************)
(* The types of the variables: what runtimeTransportState, the service and *)
(* the stream may hold.                                                    *)
(***************************************************************************)
RuntimeTypeOK ==
    /\ runtimeGeneration \in 0..MaxCalls
    /\ health \in Snapshots(States)
    /\ challenge \in Calls \cup {0}
    /\ kind \in [Calls -> Kinds]
    /\ overlap \in BOOLEAN
    /\ callPc \in [Calls -> {"idle", "reset", "set", "interrupt", "lock", "locked",
                             "create", "starting", "probing", "returned"}]
    /\ holder \in Calls \cup {0}
    /\ instance \in Calls \cup {0}
    /\ interrupted \in BOOLEAN
    /\ client \in [Calls -> {"none", "running", "closing", "gone"}]
    /\ clientGen \in [Calls -> 0..MaxCalls]
    /\ asking \in Calls \cup {0}
    /\ stream \in {"subscribe", "health", "challenge", "waiting"}
    /\ changed \in BOOLEAN
    /\ observed \in Snapshots(States)
    /\ sent \in Snapshots(States \cup {"waitingUser"})

\* The daemon has started, no service yet; the platform opens the stream.
RuntimeInit ==
    /\ runtimeGeneration = 0
    /\ health = [state |-> "starting", gen |-> 0]
    /\ challenge = 0
    /\ kind = [c \in Calls |-> "start"]
    /\ overlap = FALSE
    /\ callPc = [c \in Calls |-> "idle"]
    /\ holder = 0
    /\ instance = 0
    /\ interrupted = FALSE
    /\ client = [c \in Calls |-> "none"]
    /\ clientGen = [c \in Calls |-> 0]
    /\ asking = 0
    /\ stream = "subscribe"
    /\ changed = FALSE
    /\ observed = [state |-> "starting", gen |-> 0]
    /\ sent = [state |-> "starting", gen |-> 0]

-----------------------------------------------------------------------------
\* notifyTransportHealthChangedLocked: close the channel readers hold.
Notify == changed' = TRUE

\* The two functions that take the challenge down.
DropChallenge ==
    /\ challenge' = 0
    /\ IF challenge = 0 THEN UNCHANGED changed ELSE Notify

\* Instance.Close: a client that was not created will not be, a running one
\* has its contexts cancelled.  Nobody waits for its health loop.
Closed(c) == [client EXCEPT ![c] = CASE @ = "none" -> "gone"
                                     [] @ = "running" -> "closing"
                                     [] OTHER -> @]

CloseInstance(c) == client' = IF c = 0 THEN client ELSE Closed(c)

-----------------------------------------------------------------------------
(***************************************************************************)
(* A call begins with ResetRuntimeTransportState, outside every service    *)
(* lock.  First CancelRuntimeChallenge("") ...  A URL test is no longer in *)
(* the way of others once it has done so: the locks are its own.           *)
(***************************************************************************)
CallCancelsChallenge(c, k) ==
    /\ callPc[c] = "idle"
    /\ \A d \in 1..c-1 : callPc[d] # "idle"
    /\ overlap' = (overlap \/ \E d \in 1..c-1 : callPc[d] \notin {"probing", "returned"})
    /\ kind' = [kind EXCEPT ![c] = k]
    /\ callPc' = [callPc EXCEPT ![c] = "reset"]
    /\ DropChallenge
    /\ UNCHANGED <<runtimeGeneration, health, holder, instance, interrupted, instanceVars, streamVars>>

\* Where the call goes on: only a RuntimeGeneration that was passed is set.
AfterReset(c) ==
    CASE kind[c] = "start" -> "set"
      [] kind[c] = "probe" -> "probing"
      [] OTHER -> "interrupt"

\* Mutant: the reset of the state wakes nobody.
CallResetsSilently(c) ==
    /\ callPc[c] = "reset"
    /\ callPc' = [callPc EXCEPT ![c] = AfterReset(c)]
    /\ runtimeGeneration' = 0
    /\ health' = [state |-> "starting", gen |-> 0]
    /\ UNCHANGED <<changed, challenge, requestVars, holder, instance, interrupted, instanceVars, streamVars>>

\* ... then the reset of the generation and of the health.
CallResets(c) ==
    /\ callPc[c] = "reset"
    /\ callPc' = [callPc EXCEPT ![c] = AfterReset(c)]
    /\ runtimeGeneration' = 0
    /\ health' = [state |-> "starting", gen |-> 0]
    /\ Notify
    /\ UNCHANGED <<challenge, requestVars, holder, instance, interrupted, instanceVars, streamVars>>

\* A start takes the generation it was given; nobody is woken.
SetRuntimeGeneration(c) ==
    /\ callPc[c] = "set"
    /\ callPc' = [callPc EXCEPT ![c] = "interrupt"]
    /\ runtimeGeneration' = c
    /\ UNCHANGED <<health, challenge, changed, requestVars, holder, instance, interrupted, instanceVars, streamVars>>

\* interruptStart: the instance that is being started is cancelled.
InterruptStart(c) ==
    LET starting == \E d \in Calls : callPc[d] = "starting" IN
    /\ callPc[c] = "interrupt"
    /\ callPc' = [callPc EXCEPT ![c] = "lock"]
    /\ interrupted' = (interrupted \/ starting)
    /\ client' = IF starting /\ client[instance] = "running"
                   THEN [client EXCEPT ![instance] = "closing"] ELSE client
    /\ UNCHANGED <<storeVars, changed, requestVars, holder, instance, clientGen, asking, streamVars>>

LockLifecycle(c) ==
    /\ callPc[c] = "lock"
    /\ holder = 0
    /\ holder' = c
    /\ callPc' = [callPc EXCEPT ![c] = "locked"]
    /\ UNCHANGED <<storeVars, changed, requestVars, instance, interrupted, instanceVars, streamVars>>

\* The old instance is closed; that is all a stop does.
CloseOldInstance(c) ==
    /\ callPc[c] = "locked"
    /\ instance' = 0
    /\ CloseInstance(instance)
    /\ IF kind[c] = "stop"
         THEN callPc' = [callPc EXCEPT ![c] = "returned"] /\ holder' = 0
         ELSE callPc' = [callPc EXCEPT ![c] = "create"] /\ UNCHANGED holder
    /\ UNCHANGED <<storeVars, changed, requestVars, interrupted, clientGen, asking, streamVars>>

\* newInstance, or its error
CreateInstance(c) ==
    /\ callPc[c] = "create"
    /\ interrupted' = FALSE
    /\ \/ instance' = c /\ callPc' = [callPc EXCEPT ![c] = "starting"] /\ UNCHANGED holder
       \/ callPc' = [callPc EXCEPT ![c] = "returned"] /\ holder' = 0 /\ UNCHANGED instance
    /\ UNCHANGED <<storeVars, changed, requestVars, instanceVars, streamVars>>

\* instance.Start returns to a call that was not interrupted.
StartReturns(c) ==
    /\ callPc[c] = "starting"
    /\ ~interrupted
    /\ callPc' = [callPc EXCEPT ![c] = "returned"]
    /\ holder' = 0
    /\ UNCHANGED <<storeVars, changed, requestVars, instance, interrupted, instanceVars, streamVars>>

\* It returns an error, or to one that was: the call closes its own instance.
StartAborts(c) ==
    /\ callPc[c] = "starting"
    /\ instance' = 0
    /\ interrupted' = FALSE
    /\ CloseInstance(c)
    /\ callPc' = [callPc EXCEPT ![c] = "returned"]
    /\ holder' = 0
    /\ UNCHANGED <<storeVars, changed, requestVars, clientGen, asking, streamVars>>

\* StandaloneURLTestSession.Run closes the instance of its own service.
ProbeEnds(c) ==
    /\ callPc[c] = "probing"
    /\ CloseInstance(c)
    /\ callPc' = [callPc EXCEPT ![c] = "returned"]
    /\ UNCHANGED <<storeVars, changed, requestVars, holder, instance, interrupted, clientGen, asking, streamVars>>

-----------------------------------------------------------------------------
\* The service the call belongs to has its instance.
HasInstance(c) == instance = c \/ callPc[c] = "probing"

\* Mutant: the client does not note its generation.
ClientConnectsUnversioned(c) ==
    /\ HasInstance(c)
    /\ client[c] = "none"
    /\ client' = [client EXCEPT ![c] = IF interrupted /\ instance = c THEN "closing" ELSE "running"]
    /\ UNCHANGED <<storeVars, changed, serviceVars, clientGen, asking, streamVars>>

(***************************************************************************)
(* ConnectClient runs in a goroutine of the outbound, maybe after Start    *)
(* has returned, and reads CurrentRuntimeGeneration at that moment.        *)
(***************************************************************************)
ClientConnects(c) ==
    /\ HasInstance(c)
    /\ client[c] = "none"
    /\ client' = [client EXCEPT ![c] = IF interrupted /\ instance = c THEN "closing" ELSE "running"]
    /\ clientGen' = [clientGen EXCEPT ![c] = runtimeGeneration]
    /\ UNCHANGED <<storeVars, changed, serviceVars, asking, streamVars>>

\* equalMaterialTransportHealth
EqualMaterial(snapshot) == health.state = snapshot.state /\ health.gen = snapshot.gen

(***************************************************************************)
(* The health loop publishes under the client's own generation.  One whose *)
(* context is cancelled may do so again: a tick or a wake-up that is ready *)
(* competes with Done in its select.                                       *)
(***************************************************************************)
PublishTransportHealth(c, state) ==
    LET snapshot == [state |-> state, gen |-> clientGen[c]] IN
    /\ client[c] \in {"running", "closing"}
    /\ clientGen[c] >= runtimeGeneration
    /\ runtimeGeneration' = clientGen[c]
    /\ health' = snapshot
    /\ IF EqualMaterial(snapshot) THEN UNCHANGED changed ELSE Notify
    /\ UNCHANGED <<challenge, serviceVars, instanceVars, streamVars>>

\* The last goroutine of a client sees that the context is done.
ClientStops(c) ==
    /\ client[c] = "closing"
    /\ asking # c
    /\ client' = [client EXCEPT ![c] = "gone"]
    /\ UNCHANGED <<storeVars, changed, serviceVars, clientGen, asking, streamVars>>

\* PublishRuntimeChallenge, by the one flow that holds captchaFlowGate
PublishRuntimeChallenge(c) ==
    /\ client[c] \in {"running", "closing"}
    /\ asking = 0
    /\ asking' = c
    /\ challenge' = c
    /\ Notify
    /\ UNCHANGED <<runtimeGeneration, health, serviceVars, client, clientGen, streamVars>>

\* The flow ends: ClearRuntimeChallenge, if the challenge is still its own.
ClearRuntimeChallenge(c) ==
    /\ asking = c
    /\ asking' = 0
    /\ IF challenge = c THEN DropChallenge ELSE UNCHANGED <<challenge, changed>>
    /\ UNCHANGED <<runtimeGeneration, health, serviceVars, client, clientGen, streamVars>>

\* The platform cancels the challenge it was shown.
CancelRuntimeChallenge ==
    /\ challenge # 0
    /\ DropChallenge
    /\ UNCHANGED <<runtimeGeneration, health, serviceVars, instanceVars, streamVars>>

-----------------------------------------------------------------------------
\* SubscribeRuntimeEvents: fetch the channel,
StreamSubscribes ==
    /\ stream = "subscribe"
    /\ stream' = "health"
    /\ changed' = FALSE
    /\ UNCHANGED <<storeVars, serviceVars, instanceVars, observed, sent>>

\* read the health and the generation in CurrentTransportHealth,
StreamReadsHealth ==
    /\ stream = "health"
    /\ stream' = "challenge"
    /\ observed' = [state |-> health.state, gen |-> runtimeGeneration]
    /\ UNCHANGED <<storeVars, changed, serviceVars, instanceVars, sent>>

\* then, in a second critical section, the challenge; and send.
StreamReadsChallenge ==
    /\ stream = "challenge"
    /\ stream' = "waiting"
    /\ sent' = IF challenge # 0 THEN [observed EXCEPT !.state = "waitingUser"] ELSE observed
    /\ UNCHANGED <<storeVars, changed, serviceVars, instanceVars, observed>>

\* The select: the channel was closed, or something else has happened.
StreamWakes ==
    /\ stream = "waiting"
    /\ stream' = "subscribe"
    /\ UNCHANGED <<storeVars, changed, serviceVars, instanceVars, observed, sent>>

CallStep(c) ==
    \/ \E k \in Kinds : CallCancelsChallenge(c, k)
    \/ CallResets(c)
    \/ SetRuntimeGeneration(c)
    \/ InterruptStart(c)
    \/ LockLifecycle(c)
    \/ CloseOldInstance(c)
    \/ CreateInstance(c)
    \/ StartReturns(c)
    \/ StartAborts(c)
    \/ ProbeEnds(c)

ClientStep(c) ==
    \/ ClientConnects(c)
    \/ \E state \in States : PublishTransportHealth(c, state)
    \/ ClientStops(c)
    \/ PublishRuntimeChallenge(c)
    \/ ClearRuntimeChallenge(c)

StreamStep == StreamSubscribes \/ StreamReadsHealth \/ StreamReadsChallenge \/ StreamWakes

RuntimeNext ==
    \/ \E c \in Calls : CallStep(c) \/ ClientStep(c)
    \/ CancelRuntimeChallenge
    \/ StreamStep

RuntimeSpec == RuntimeInit /\ [][RuntimeNext]_runtimeVars

-----------------------------------------------------------------------------
\* What CurrentTransportHealth reports: a challenge hides the health.
CurrentState == IF challenge # 0 THEN "waitingUser" ELSE health.state

(***************************************************************************)
(* No change of the health is lost on the stream: while it waits on a      *)
(* channel that is still open, the state it sent last is the state now,    *)
(* although it fetched the channel, read the health and read the challenge *)
(* at three different moments.  The generation it sent may be behind, for  *)
(* SetRuntimeGeneration closes no channel; but not after a client has      *)
(* published under that generation (as long as calls do not overlap).      *)
(***************************************************************************)
StreamIsCurrent ==
    stream = "waiting" /\ ~changed =>
        /\ sent.state = CurrentState
        /\ ~overlap /\ health.gen = runtimeGeneration => sent.gen = runtimeGeneration

\* A URL test began after call c, and its reset before the client of c had
\* read the generation.
ResetEarly(c) == clientGen[c] < c /\ \E d \in Calls : d > c /\ kind[d] = "probe"

(***************************************************************************)
(* The client of a start that passed a generation is heard: as long as     *)
(* calls are made one after the other and no URL test resets the state     *)
(* before it connects, no generation that a leftover client has published  *)
(* keeps its health out.  A start that passes none has no such protection. *)
(***************************************************************************)
RuntimeIsHeard ==
    ~overlap /\ (\A c \in Calls : callPc[c] \in {"idle", "probing", "returned"}) =>
        \A c \in Calls :
            instance = c /\ kind[c] = "start" /\ client[c] = "running" /\ ~ResetEarly(c) =>
                clientGen[c] >= runtimeGeneration
=============================================================================
