-------------------------- MODULE Generation_proofs --------------------------
(***************************************************************************)
(* Proofs about the two generations: the one the platform gives a start of *)
(* the service, with the process-wide transport state that is kept under   *)
(* it, for any number of calls of any kind, overlapping or not, and any    *)
(* states a client may observe (RuntimeTransport); and the one a server    *)
(* gives a session, by which the lanes of a client end in one session, for *)
(* any workers, connections and faults (SessionGeneration).                *)
(***************************************************************************)
EXTENDS RuntimeTransport, SessionGeneration, TLAPS

-----------------------------------------------------------------------------
(* The generation of a start                                               *)

\* Closing an instance leaves the clients what they may be, and changes only
\* the one of that instance.
LEMMA CloseKeepsType ==
    ASSUME RuntimeTypeOK, NEW i \in Calls \cup {0}, CloseInstance(i)
    PROVE  /\ client' \in [Calls -> {"none", "running", "closing", "gone"}]
           /\ \A d \in Calls : client'[d] # client[d] => d = i
BY DEF RuntimeTypeOK, CloseInstance, Closed

\* A service call keeps the types.
LEMMA CallTyped ==
    ASSUME RuntimeTypeOK, NEW c \in Calls, CallStep(c)
    PROVE  RuntimeTypeOK'
<1> USE DEF RuntimeTypeOK, requestVars
<1>1. ASSUME NEW k \in Kinds, CallCancelsChallenge(c, k) PROVE RuntimeTypeOK'
  BY <1>1 DEF CallCancelsChallenge, DropChallenge, Notify, instanceVars, streamVars
<1>2. CASE CallResets(c)
  <2>1. AfterReset(c) \in {"set", "probing", "interrupt"}
    BY DEF AfterReset
  <2>2. health' \in Snapshots(States) /\ runtimeGeneration' \in 0..MaxCalls
    BY <1>2, RuntimeAssumption DEF CallResets, Snapshots
  <2> QED BY <1>2, <2>1, <2>2 DEF CallResets, Notify, instanceVars, streamVars
<1>3. CASE SetRuntimeGeneration(c)
  BY <1>3 DEF SetRuntimeGeneration, instanceVars, streamVars, Calls
<1>4. CASE InterruptStart(c)
  BY <1>4 DEF InterruptStart, storeVars, streamVars
<1>5. CASE LockLifecycle(c)
  BY <1>5 DEF LockLifecycle, storeVars, instanceVars, streamVars
<1>6. CASE CloseOldInstance(c)
  <2>1. client' \in [Calls -> {"none", "running", "closing", "gone"}]
    BY <1>6, CloseKeepsType DEF CloseOldInstance
  <2> QED BY <1>6, <2>1 DEF CloseOldInstance, storeVars, streamVars
<1>7. CASE CreateInstance(c)
  BY <1>7 DEF CreateInstance, storeVars, instanceVars, streamVars
<1>8. CASE StartReturns(c)
  BY <1>8 DEF StartReturns, storeVars, instanceVars, streamVars
<1>9. CASE StartAborts(c) \/ ProbeEnds(c)
  <2>1. client' \in [Calls -> {"none", "running", "closing", "gone"}]
    BY <1>9, CloseKeepsType DEF StartAborts, ProbeEnds
  <2> QED BY <1>9, <2>1 DEF StartAborts, ProbeEnds, storeVars, streamVars
<1> QED BY <1>1, <1>2, <1>3, <1>4, <1>5, <1>6, <1>7, <1>8, <1>9 DEF CallStep

\* So does a step of a client, a leftover one included.
LEMMA ClientTyped ==
    ASSUME RuntimeTypeOK, NEW c \in Calls, ClientStep(c)
    PROVE  RuntimeTypeOK'
<1> USE DEF RuntimeTypeOK
<1>1. CASE ClientConnects(c)
  BY <1>1 DEF ClientConnects, storeVars, serviceVars, streamVars
<1>2. ASSUME NEW state \in States, PublishTransportHealth(c, state) PROVE RuntimeTypeOK'
  <2>1. health' \in Snapshots(States) /\ runtimeGeneration' \in 0..MaxCalls
    BY <1>2 DEF PublishTransportHealth, Snapshots
  <2>2. changed' \in BOOLEAN
    BY <1>2 DEF PublishTransportHealth, Notify
  <2> QED BY <1>2, <2>1, <2>2 DEF PublishTransportHealth, serviceVars, instanceVars, streamVars
<1>3. CASE ClientStops(c)
  BY <1>3 DEF ClientStops, storeVars, serviceVars, streamVars
<1>4. CASE PublishRuntimeChallenge(c)
  BY <1>4 DEF PublishRuntimeChallenge, Notify, serviceVars, streamVars
<1>5. CASE ClearRuntimeChallenge(c)
  BY <1>5 DEF ClearRuntimeChallenge, DropChallenge, Notify, serviceVars, streamVars
<1> QED BY <1>1, <1>2, <1>3, <1>4, <1>5 DEF ClientStep

\* And the platform's own steps: a cancellation, and the stream's reads.
LEMMA PlatformTyped ==
    ASSUME RuntimeTypeOK, CancelRuntimeChallenge \/ StreamStep
    PROVE  RuntimeTypeOK'
<1> USE DEF RuntimeTypeOK
<1>1. CASE CancelRuntimeChallenge
  BY <1>1 DEF CancelRuntimeChallenge, DropChallenge, Notify, serviceVars, instanceVars, streamVars
<1>2. CASE StreamSubscribes
  BY <1>2 DEF StreamSubscribes, storeVars, serviceVars, instanceVars
<1>3. CASE StreamReadsHealth
  <2>1. observed' \in Snapshots(States)
    BY <1>3 DEF StreamReadsHealth, Snapshots
  <2> QED BY <1>3, <2>1 DEF StreamReadsHealth, storeVars, serviceVars, instanceVars
<1>4. CASE StreamReadsChallenge
  <2>1. sent' \in Snapshots(States \cup {"waitingUser"})
    BY <1>4 DEF StreamReadsChallenge, Snapshots
  <2> QED BY <1>4, <2>1 DEF StreamReadsChallenge, storeVars, serviceVars, instanceVars
<1>5. CASE StreamWakes
  BY <1>5 DEF StreamWakes, storeVars, serviceVars, instanceVars
<1> QED BY <1>1, <1>2, <1>3, <1>4, <1>5 DEF StreamStep

-----------------------------------------------------------------------------
\* No call was made after c.
NothingAfter(c) == \A d \in Calls : d > c => callPc[d] = "idle"

\* A generation that the store, its health or some client has.
InUse(g) == runtimeGeneration = g \/ health.gen = g \/ \E d \in Calls : clientGen[d] = g

(***************************************************************************)
(* What makes the running client heard, while calls follow one another.    *)
(* Every earlier call has returned, or is a URL test past its reset; a     *)
(* generation in use was set by its start; the health is not ahead of the  *)
(* generation it is kept under; the instance is that of the last start,    *)
(* which only a later call of the same service takes away; and from the    *)
(* moment the last start has set its generation, it and the client it      *)
(* connects carry at least that number.                                    *)
(***************************************************************************)
CallsInOrder ==
    \A c, d \in Calls : d < c /\ callPc[c] # "idle" => callPc[d] \in {"probing", "returned"}

GensAreSet ==
    \A g \in Calls : InUse(g) => kind[g] = "start" /\ callPc[g] \notin {"idle", "reset", "set"}

HealthNotAhead == health.gen <= runtimeGeneration

InstanceIsLast ==
    \A c \in Calls : instance = c =>
        /\ callPc[c] \in {"starting", "returned"}
        /\ kind[c] \in {"start", "bare"}
        /\ \A d \in Calls : d > c =>
               \/ callPc[d] \in {"idle", "reset", "set", "interrupt", "lock", "locked"}
               \/ kind[d] = "probe"

KindsFit ==
    \A c \in Calls :
        /\ callPc[c] = "set" => kind[c] = "start"
        /\ callPc[c] \in {"interrupt", "lock", "locked"} => kind[c] # "probe"
        /\ callPc[c] \in {"create", "starting"} => kind[c] \in {"start", "bare"}
        /\ callPc[c] = "probing" => kind[c] = "probe"

NoClientYet ==
    \A c \in Calls : callPc[c] \notin {"starting", "probing", "returned"} => client[c] = "none"

GenerationIsSet ==
    \A c \in Calls :
        kind[c] = "start" /\ callPc[c] \notin {"idle", "reset", "set"} /\ NothingAfter(c) =>
            runtimeGeneration >= c

ClientIsSet ==
    \A c \in Calls :
        instance = c /\ kind[c] = "start" /\ client[c] # "none" /\ NothingAfter(c) => clientGen[c] >= c

Heard ==
    /\ CallsInOrder
    /\ GensAreSet
    /\ HealthNotAhead
    /\ InstanceIsLast
    /\ KindsFit
    /\ NoClientYet
    /\ GenerationIsSet
    /\ ClientIsSet

HeardInv == ~overlap => Heard

\* A step that hands out no generation and takes no call back before its own
\* leaves the generations in use set.
LEMMA GensStay ==
    ASSUME Heard, UNCHANGED <<runtimeGeneration, health, clientGen, kind>>,
           \A g \in Calls : callPc[g] \notin {"idle", "reset", "set"} =>
               callPc'[g] \notin {"idle", "reset", "set"}
    PROVE  GensAreSet' /\ HealthNotAhead'
<1>1. \A g : InUse(g)' <=> InUse(g)
  BY DEF InUse
<1>2. GensAreSet'
  BY <1>1 DEF Heard, GensAreSet
<1>3. HealthNotAhead'
  BY DEF Heard, HealthNotAhead
<1> QED BY <1>2, <1>3

\* A service call keeps Heard as long as it has not overlapped another one: the
\* call that begins is then the only one in progress, but for URL tests.
LEMMA CallHeard ==
    ASSUME RuntimeTypeOK, Heard, NEW c \in Calls, ~overlap', CallStep(c)
    PROVE  Heard'
<1> USE RuntimeAssumption DEF RuntimeTypeOK, Calls, requestVars, instanceVars, storeVars, Heard,
        CallsInOrder, InstanceIsLast, KindsFit, NoClientYet, GenerationIsSet, ClientIsSet, NothingAfter
<1>1. ASSUME NEW k \in Kinds, CallCancelsChallenge(c, k) PROVE Heard'
  <2>1. /\ callPc[c] = "idle" /\ callPc' = [callPc EXCEPT ![c] = "reset"]
        /\ kind' = [kind EXCEPT ![c] = k]
        /\ UNCHANGED <<runtimeGeneration, health, instance, client, clientGen>>
    BY <1>1 DEF CallCancelsChallenge
  <2>2. \A d \in Calls : d < c => callPc[d] \in {"probing", "returned"}
    <3>1. ~\E d \in 1..c-1 : callPc[d] \notin {"probing", "returned"}
      BY <1>1 DEF CallCancelsChallenge
    <3> QED BY <3>1
  <2>3. \A d \in Calls : d > c => callPc[d] = "idle"
    BY <2>1
  <2>4. CallsInOrder'
    BY <2>1, <2>2, <2>3
  <2>5. InstanceIsLast' /\ KindsFit' /\ NoClientYet'
    BY <2>1, <2>2, <2>3
  <2>6. GenerationIsSet' /\ ClientIsSet'
    BY <2>1, <2>2, <2>3
  <2>7. GensAreSet' /\ HealthNotAhead'
    <3>1. \A g : InUse(g)' <=> InUse(g)
      BY <2>1 DEF InUse
    <3>2. ~InUse(c)
      BY <2>1 DEF GensAreSet
    <3> QED BY <2>1, <3>1, <3>2 DEF GensAreSet, HealthNotAhead
  <2> QED BY <2>4, <2>5, <2>6, <2>7
<1>2. CASE CallResets(c)
  <2>1. /\ callPc[c] = "reset"
        /\ callPc' = [callPc EXCEPT ![c] = AfterReset(c)]
        /\ runtimeGeneration' = 0 /\ health'.gen = 0
        /\ UNCHANGED <<kind, instance, client, clientGen>>
    BY <1>2 DEF CallResets
  <2>2. \/ AfterReset(c) = "set" /\ kind[c] = "start"
        \/ AfterReset(c) = "probing" /\ kind[c] = "probe"
        \/ AfterReset(c) = "interrupt" /\ kind[c] \in {"bare", "stop"}
    BY DEF AfterReset, Kinds
  <2> HIDE DEF AfterReset
  <2>3. CallsInOrder'
    BY <2>1, <2>2
  <2>4. InstanceIsLast' /\ KindsFit'
    BY <2>1, <2>2
  <2>5. NoClientYet' /\ ClientIsSet'
    BY <2>1, <2>2
  <2>6. GenerationIsSet'
    BY <2>1, <2>2
  <2>7. GensAreSet' /\ HealthNotAhead'
    <3>1. \A g \in Calls : InUse(g)' => InUse(g) /\ g # c
      BY <2>1 DEF InUse, GensAreSet
    <3> QED BY <2>1, <3>1 DEF GensAreSet, HealthNotAhead
  <2> QED BY <2>3, <2>4, <2>5, <2>6, <2>7
<1>3. CASE SetRuntimeGeneration(c)
  <2>1. /\ callPc[c] = "set" /\ callPc' = [callPc EXCEPT ![c] = "interrupt"]
        /\ runtimeGeneration' = c
        /\ UNCHANGED <<kind, health, instance, client, clientGen>>
    BY <1>3 DEF SetRuntimeGeneration
  <2>2. CallsInOrder'
    BY <2>1
  <2>3. InstanceIsLast' /\ KindsFit'
    BY <2>1
  <2>4. NoClientYet' /\ ClientIsSet'
    BY <2>1
  <2>5. GenerationIsSet'
    BY <2>1
  <2>6. GensAreSet'
    <3>1. \A g \in Calls : InUse(g)' => InUse(g) \/ g = c
      BY <2>1 DEF InUse
    <3> QED BY <2>1, <3>1 DEF GensAreSet
  <2>7. HealthNotAhead'
    <3>1. health.gen \in 0..MaxCalls
      BY DEF Snapshots
    <3>2. health.gen \in Calls => callPc[health.gen] \notin {"idle", "reset", "set"}
      BY DEF GensAreSet, InUse
    <3>3. \A d \in Calls : d > c => callPc[d] = "idle"
      BY <2>1
    <3> QED BY <2>1, <3>1, <3>2, <3>3 DEF HealthNotAhead
  <2> QED BY <2>2, <2>3, <2>4, <2>5, <2>6, <2>7
<1>4. CASE InterruptStart(c)
  <2>1. /\ callPc[c] = "interrupt" /\ callPc' = [callPc EXCEPT ![c] = "lock"]
        /\ UNCHANGED <<kind, runtimeGeneration, health, instance, clientGen>>
        /\ client' = client \/ (client[instance] = "running" /\ client' = [client EXCEPT ![instance] = "closing"])
    BY <1>4 DEF InterruptStart
  <2>2. CallsInOrder' /\ KindsFit' /\ InstanceIsLast' /\ GenerationIsSet'
    BY <2>1
  <2>3. \A d \in Calls : client'[d] # client[d] => client[d] = "running" /\ instance = d
    BY <2>1
  <2>4. NoClientYet'
    BY <2>1, <2>3
  <2>5. ClientIsSet'
    BY <2>1, <2>3
  <2>6. GensAreSet' /\ HealthNotAhead'
    BY <2>1, GensStay
  <2> QED BY <2>2, <2>4, <2>5, <2>6
<1>5. CASE LockLifecycle(c)
  <2>1. /\ callPc[c] = "lock" /\ callPc' = [callPc EXCEPT ![c] = "locked"]
        /\ UNCHANGED <<kind, runtimeGeneration, health, instance, client, clientGen>>
    BY <1>5 DEF LockLifecycle
  <2>2. CallsInOrder'
    BY <2>1
  <2>3. InstanceIsLast' /\ KindsFit'
    BY <2>1
  <2>4. NoClientYet' /\ ClientIsSet'
    BY <2>1
  <2>5. GenerationIsSet'
    BY <2>1
  <2>6. GensAreSet' /\ HealthNotAhead'
    BY <2>1, GensStay
  <2> QED BY <2>2, <2>3, <2>4, <2>5, <2>6
<1>6. CASE CloseOldInstance(c)
  <2>1. /\ callPc[c] = "locked" /\ instance' = 0
        /\ callPc' = [callPc EXCEPT ![c] = IF kind[c] = "stop" THEN "returned" ELSE "create"]
        /\ UNCHANGED <<kind, runtimeGeneration, health, clientGen>>
    BY <1>6 DEF CloseOldInstance
  <2>2. \A d \in Calls : client'[d] # client[d] => instance = d
    BY <1>6, CloseKeepsType DEF CloseOldInstance
  <2>3. kind[c] # "stop" => kind[c] \in {"start", "bare"}
    BY <2>1 DEF Kinds
  <2>4. CallsInOrder'
    BY <2>1
  <2>5. KindsFit' /\ InstanceIsLast'
    BY <2>1, <2>3
  <2>6. GenerationIsSet'
    BY <2>1
  <2>7. NoClientYet' /\ ClientIsSet'
    BY <2>1, <2>2
  <2>8. GensAreSet' /\ HealthNotAhead'
    BY <2>1, GensStay
  <2> QED BY <2>4, <2>5, <2>6, <2>7, <2>8
<1>7. CASE CreateInstance(c)
  <2>1. /\ callPc[c] = "create" /\ UNCHANGED <<kind, runtimeGeneration, health, client, clientGen>>
        /\ \/ instance' = c /\ callPc' = [callPc EXCEPT ![c] = "starting"]
           \/ instance' = instance /\ callPc' = [callPc EXCEPT ![c] = "returned"]
    BY <1>7 DEF CreateInstance
  <2>2. NothingAfter(c)
    BY <2>1
  <2>3. /\ callPc'[c] \in {"starting", "returned"}
        /\ \A d \in Calls : d # c => callPc'[d] = callPc[d]
    BY <2>1
  <2>4. instance' = c \/ (instance' = instance /\ callPc'[c] = "returned")
    BY <2>1
  <2>5. kind' = kind /\ runtimeGeneration' = runtimeGeneration /\ client' = client /\ clientGen' = clientGen
    BY <2>1
  <2>6. CallsInOrder'
    <3> SUFFICES ASSUME NEW d \in Calls, NEW e \in Calls, e < d, callPc'[d] # "idle"
                 PROVE  callPc'[e] \in {"probing", "returned"}
      OBVIOUS
    <3>1. e # c /\ callPc[e] \in {"probing", "returned"}
      BY <2>1, <2>2, <2>3
    <3> QED BY <2>3, <3>1
  <2>7. KindsFit'
    BY <2>1, <2>3, <2>5
  <2>8. GenerationIsSet'
    <3> SUFFICES ASSUME NEW d \in Calls, kind'[d] = "start", NothingAfter(d)',
                        callPc'[d] \notin {"idle", "reset", "set"}
                 PROVE  runtimeGeneration' >= d
      OBVIOUS
    <3>1. ~(d < c) BY <2>3
    <3>2. ~(d > c) BY <2>2, <2>3
    <3>3. kind[c] = "start" => runtimeGeneration >= c
      BY <2>1, <2>2
    <3> QED BY <2>5, <3>1, <3>2, <3>3
  <2>9. InstanceIsLast'
    <3>1. CASE instance' = c
      BY <2>1, <2>2, <3>1
    <3>2. CASE instance' = instance /\ callPc'[c] = "returned"
      <4>1. callPc[c] = "create" /\ kind[c] # "probe"
        BY <2>1
      <4>2. ~(instance \in Calls /\ instance > c) /\ instance # c
        BY <2>2, <4>1
      <4>3. ~(instance \in Calls /\ instance < c)
        BY <4>1
      <4> QED BY <3>2, <4>2, <4>3
    <3> QED BY <2>4, <3>1, <3>2
  <2>10. NoClientYet'
    BY <2>3, <2>5
  <2>11. ClientIsSet'
    <3> SUFFICES ASSUME NEW d \in Calls, instance' = d, kind'[d] = "start",
                        client'[d] # "none", NothingAfter(d)'
                 PROVE  clientGen'[d] >= d
      OBVIOUS
    <3>1. d # c
      BY <2>1, <2>5
    <3>2. instance = d /\ NothingAfter(d)
      BY <2>3, <2>4, <3>1
    <3> QED BY <2>5, <3>2
  <2>12. GensAreSet' /\ HealthNotAhead'
    BY <2>1, GensStay
  <2> QED BY <2>6, <2>7, <2>8, <2>9, <2>10, <2>11, <2>12
<1>8. CASE StartReturns(c)
  <2>1. /\ callPc[c] = "starting" /\ callPc' = [callPc EXCEPT ![c] = "returned"]
        /\ UNCHANGED <<kind, runtimeGeneration, health, instance, client, clientGen>>
    BY <1>8 DEF StartReturns
  <2>2. CallsInOrder' /\ InstanceIsLast' /\ KindsFit'
    BY <2>1
  <2>3. NoClientYet' /\ ClientIsSet' /\ GenerationIsSet'
    BY <2>1
  <2>4. GensAreSet' /\ HealthNotAhead'
    BY <2>1, GensStay
  <2> QED BY <2>2, <2>3, <2>4
<1>9. CASE StartAborts(c) \/ ProbeEnds(c)
  <2>1. /\ callPc[c] \in {"starting", "probing"} /\ callPc' = [callPc EXCEPT ![c] = "returned"]
        /\ instance' = 0 \/ (instance' = instance /\ callPc[c] = "probing")
        /\ UNCHANGED <<kind, runtimeGeneration, health, clientGen>>
    BY <1>9 DEF StartAborts, ProbeEnds
  <2>2. \A d \in Calls : client'[d] # client[d] => d = c
    BY <1>9, CloseKeepsType DEF StartAborts, ProbeEnds
  <2>3. CallsInOrder'
    BY <2>1
  <2>4. InstanceIsLast' /\ KindsFit'
    BY <2>1
  <2>5. NoClientYet' /\ ClientIsSet'
    BY <2>1, <2>2
  <2>6. GenerationIsSet'
    BY <2>1
  <2>7. GensAreSet' /\ HealthNotAhead'
    BY <2>1, GensStay
  <2> QED BY <2>3, <2>4, <2>5, <2>6, <2>7
<1> QED BY <1>1, <1>2, <1>3, <1>4, <1>5, <1>6, <1>7, <1>8, <1>9 DEF CallStep

\* A client keeps it: it publishes no generation newer than the one it was
\* connected under, and the store keeps the larger of the two.
LEMMA ClientHeard ==
    ASSUME RuntimeTypeOK, Heard, NEW c \in Calls, ClientStep(c)
    PROVE  Heard'
<1> USE RuntimeAssumption DEF RuntimeTypeOK, Calls, serviceVars, instanceVars, storeVars, Heard,
        CallsInOrder, InstanceIsLast, KindsFit, NoClientYet, GenerationIsSet, ClientIsSet, NothingAfter
<1>1. CASE ClientConnects(c)
  <2>1. /\ instance = c \/ callPc[c] = "probing"
        /\ client' = [client EXCEPT ![c] = IF interrupted /\ instance = c THEN "closing" ELSE "running"]
        /\ clientGen' = [clientGen EXCEPT ![c] = runtimeGeneration]
        /\ UNCHANGED <<kind, callPc, runtimeGeneration, health, instance>>
    BY <1>1 DEF ClientConnects, HasInstance
  <2>2. CallsInOrder' /\ InstanceIsLast' /\ KindsFit' /\ GenerationIsSet'
    BY <2>1
  <2>3. NoClientYet'
    BY <2>1
  <2>4. ClientIsSet'
    <3>1. instance = c /\ kind[c] = "start" /\ NothingAfter(c) => runtimeGeneration >= c
      OBVIOUS
    <3> QED BY <2>1, <3>1
  <2>5. GensAreSet' /\ HealthNotAhead'
    <3>1. \A g \in Calls : InUse(g)' => InUse(g)
      BY <2>1 DEF InUse
    <3> QED BY <2>1, <3>1 DEF GensAreSet, HealthNotAhead
  <2> QED BY <2>2, <2>3, <2>4, <2>5
<1>2. ASSUME NEW state \in States, PublishTransportHealth(c, state) PROVE Heard'
  <2>1. /\ clientGen[c] >= runtimeGeneration
        /\ runtimeGeneration' = clientGen[c] /\ health'.gen = clientGen[c]
        /\ UNCHANGED <<kind, callPc, instance, client, clientGen>>
    BY <1>2 DEF PublishTransportHealth
  <2>2. CallsInOrder' /\ InstanceIsLast' /\ KindsFit'
    BY <2>1
  <2>3. NoClientYet' /\ ClientIsSet'
    BY <2>1
  <2>4. GenerationIsSet'
    BY <2>1
  <2>5. GensAreSet' /\ HealthNotAhead'
    <3>1. \A g \in Calls : InUse(g)' => InUse(g)
      BY <2>1 DEF InUse
    <3> QED BY <2>1, <3>1 DEF GensAreSet, HealthNotAhead
  <2> QED BY <2>2, <2>3, <2>4, <2>5
<1>3. CASE ClientStops(c) \/ PublishRuntimeChallenge(c) \/ ClearRuntimeChallenge(c)
  <2>1. UNCHANGED <<kind, callPc, runtimeGeneration, health, instance, clientGen>>
    BY <1>3 DEF ClientStops, PublishRuntimeChallenge, ClearRuntimeChallenge
  <2>2. \A d \in Calls : client'[d] # client[d] => client[d] = "closing"
    BY <1>3 DEF ClientStops, PublishRuntimeChallenge, ClearRuntimeChallenge
  <2>3. CallsInOrder' /\ InstanceIsLast' /\ KindsFit' /\ GenerationIsSet'
    BY <2>1
  <2>4. NoClientYet' /\ ClientIsSet'
    BY <2>1, <2>2
  <2>5. GensAreSet' /\ HealthNotAhead'
    BY <2>1, GensStay
  <2> QED BY <2>3, <2>4, <2>5
<1> QED BY <1>1, <1>2, <1>3 DEF ClientStep

\* Calls that have overlapped stay so: the flag is only ever raised.
LEMMA OverlapStays ==
    ASSUME RuntimeTypeOK, RuntimeNext, overlap
    PROVE  overlap'
<1>1. ASSUME NEW c \in Calls, NEW k \in Kinds, CallCancelsChallenge(c, k)
      PROVE  overlap'
  BY <1>1 DEF CallCancelsChallenge
<1>2. ASSUME NEW c \in Calls, CallStep(c) PROVE overlap'
  BY <1>1, <1>2 DEF CallStep, CallResets, SetRuntimeGeneration, InterruptStart, LockLifecycle,
     CloseOldInstance, CreateInstance, StartReturns, StartAborts, ProbeEnds, requestVars
<1>3. ASSUME NEW c \in Calls, ClientStep(c) PROVE overlap'
  BY <1>3 DEF ClientStep, ClientConnects, PublishTransportHealth, ClientStops,
     PublishRuntimeChallenge, ClearRuntimeChallenge, serviceVars, requestVars
<1>4. CASE CancelRuntimeChallenge
  BY <1>4 DEF CancelRuntimeChallenge, serviceVars, requestVars
<1>5. CASE StreamStep
  BY <1>5 DEF StreamStep, StreamSubscribes, StreamReadsHealth, StreamReadsChallenge,
     StreamWakes, serviceVars, requestVars
<1> QED BY <1>2, <1>3, <1>4, <1>5 DEF RuntimeNext

\* The platform's own steps read and write nothing that Heard speaks of.
LEMMA PlatformHeard ==
    ASSUME Heard, CancelRuntimeChallenge \/ StreamStep \/ UNCHANGED runtimeVars
    PROVE  Heard'
<1>1. UNCHANGED <<runtimeGeneration, health, callPc, kind, instance, client, clientGen>>
  <2>1. CASE CancelRuntimeChallenge
    BY <2>1 DEF CancelRuntimeChallenge, serviceVars, instanceVars
  <2>2. CASE StreamStep
    BY <2>2 DEF StreamStep, StreamSubscribes, StreamReadsHealth, StreamReadsChallenge,
       StreamWakes, serviceVars, requestVars, instanceVars, storeVars
  <2>3. CASE UNCHANGED runtimeVars
    BY <2>3 DEF runtimeVars
  <2> QED BY <2>1, <2>2, <2>3
<1>2. GensAreSet' /\ HealthNotAhead'
  BY <1>1, GensStay
<1>3. (CallsInOrder /\ InstanceIsLast /\ KindsFit /\ NoClientYet)'
  BY <1>1 DEF Heard, CallsInOrder, InstanceIsLast, KindsFit, NoClientYet, Calls
<1>4. (GenerationIsSet /\ ClientIsSet)'
  BY <1>1 DEF Heard, GenerationIsSet, ClientIsSet, NothingAfter, Calls
<1> QED
  BY <1>2, <1>3, <1>4 DEF Heard

-----------------------------------------------------------------------------
(***************************************************************************)
(* Between its two reads the stream already knows the health as it is now, *)
(* and the generation it is kept under, unless its channel was closed:     *)
(* without this StreamIsCurrent would not be inductive.                    *)
(***************************************************************************)
ReadIsCurrent ==
    stream = "challenge" /\ ~changed =>
        /\ observed.state = health.state
        /\ ~overlap /\ health.gen = runtimeGeneration => observed.gen = runtimeGeneration

StreamInv == StreamIsCurrent /\ ReadIsCurrent

\* A step that wakes the stream, or changes nothing of what it has read, leaves
\* it as current as it was.
LEMMA StreamStays ==
    ASSUME StreamInv, UNCHANGED streamVars, ~overlap' => ~overlap,
           Notify \/ UNCHANGED <<changed, health, runtimeGeneration, challenge>>
    PROVE  StreamInv'
BY DEF StreamInv, StreamIsCurrent, ReadIsCurrent, CurrentState, Notify, streamVars

\* A service call wakes the stream when it resets the health and when it takes a
\* challenge down; the generation it sets is not yet that of the health.
LEMMA CallCurrent ==
    ASSUME RuntimeTypeOK, HeardInv, StreamInv, NEW c \in Calls, ~overlap' => ~overlap, CallStep(c)
    PROVE  StreamInv'
<1>1. CASE SetRuntimeGeneration(c)
  <2>1. /\ callPc[c] = "set" /\ runtimeGeneration' = c
        /\ UNCHANGED <<health, challenge, changed, overlap, stream, observed, sent>>
    BY <1>1 DEF SetRuntimeGeneration, requestVars, streamVars
  <2>2. ~overlap => health.gen # c
    BY <2>1 DEF HeardInv, Heard, GensAreSet, InUse
  <2> QED BY <2>1, <2>2 DEF StreamInv, StreamIsCurrent, ReadIsCurrent, CurrentState
<1>2. CASE ~SetRuntimeGeneration(c)
  <2>1. UNCHANGED streamVars
    BY <1>2 DEF CallStep, CallCancelsChallenge, CallResets, InterruptStart, LockLifecycle,
       CloseOldInstance, CreateInstance, StartReturns, StartAborts, ProbeEnds
  <2>2. Notify \/ UNCHANGED <<changed, health, runtimeGeneration, challenge>>
    BY <1>2 DEF CallStep, CallCancelsChallenge, DropChallenge, CallResets, InterruptStart,
       LockLifecycle, CloseOldInstance, CreateInstance, StartReturns, StartAborts, ProbeEnds, storeVars
  <2> QED BY <2>1, <2>2, StreamStays
<1> QED BY <1>1, <1>2

\* A client that publishes the state and the generation that stand already wakes
\* nobody, and does not move the store's generation.
LEMMA ClientCurrent ==
    ASSUME RuntimeTypeOK, HeardInv, StreamInv, NEW c \in Calls, ClientStep(c)
    PROVE  StreamInv'
<1>1. ASSUME NEW state \in States, PublishTransportHealth(c, state) PROVE StreamInv'
  <2>1. /\ clientGen[c] >= runtimeGeneration /\ runtimeGeneration' = clientGen[c]
        /\ health' = [state |-> state, gen |-> clientGen[c]]
        /\ UNCHANGED <<challenge, overlap, stream, observed, sent>>
    BY <1>1 DEF PublishTransportHealth, serviceVars, streamVars
  <2>2. CASE Notify
    BY <2>1, <2>2 DEF StreamInv, StreamIsCurrent, ReadIsCurrent, Notify
  <2>3. CASE health.state = state /\ health.gen = clientGen[c] /\ UNCHANGED changed
    <3>1. health'.state = health.state /\ health'.gen = health.gen
      BY <2>1, <2>3
    <3>2. ~overlap => runtimeGeneration' = runtimeGeneration
      <4>1. runtimeGeneration \in 0..MaxCalls /\ clientGen[c] \in 0..MaxCalls
        BY DEF RuntimeTypeOK
      <4> QED BY <2>1, <2>3, <4>1, RuntimeAssumption DEF HeardInv, Heard, HealthNotAhead
    <3> QED BY <2>1, <2>3, <3>1, <3>2 DEF StreamInv, StreamIsCurrent, ReadIsCurrent, CurrentState
  <2> QED BY <1>1, <2>2, <2>3 DEF PublishTransportHealth, EqualMaterial
<1>2. CASE \/ ClientConnects(c) \/ ClientStops(c)
           \/ PublishRuntimeChallenge(c) \/ ClearRuntimeChallenge(c)
  <2>1. UNCHANGED streamVars /\ UNCHANGED overlap
    BY <1>2 DEF ClientConnects, ClientStops, PublishRuntimeChallenge, ClearRuntimeChallenge, serviceVars
  <2>2. Notify \/ UNCHANGED <<changed, health, runtimeGeneration, challenge>>
    BY <1>2 DEF ClientConnects, ClientStops, PublishRuntimeChallenge, ClearRuntimeChallenge,
       DropChallenge, storeVars
  <2> QED BY <2>1, <2>2, StreamStays
<1> QED BY <1>1, <1>2 DEF ClientStep

\* The stream's own reads: what it read last is what there is.
LEMMA PlatformCurrent ==
    ASSUME RuntimeTypeOK, StreamInv, CancelRuntimeChallenge \/ StreamStep
    PROVE  StreamInv'
<1>1. CASE CancelRuntimeChallenge
  <2>1. UNCHANGED streamVars /\ UNCHANGED overlap
    BY <1>1 DEF CancelRuntimeChallenge, serviceVars
  <2>2. Notify \/ UNCHANGED <<changed, health, runtimeGeneration, challenge>>
    BY <1>1 DEF CancelRuntimeChallenge, DropChallenge
  <2> QED BY <2>1, <2>2, StreamStays
<1>2. CASE StreamStep
  <2> USE DEF StreamInv, StreamIsCurrent, ReadIsCurrent, CurrentState, storeVars, serviceVars
  <2>1. CASE StreamSubscribes
    BY <2>1 DEF StreamSubscribes
  <2>2. CASE StreamReadsHealth
    BY <2>2 DEF StreamReadsHealth
  <2>3. CASE StreamReadsChallenge
    <3>1. /\ stream = "challenge" /\ stream' = "waiting"
          /\ UNCHANGED <<health, runtimeGeneration, challenge, changed, overlap>>
      BY <2>3 DEF StreamReadsChallenge
    <3>2. /\ sent'.gen = observed.gen
          /\ sent'.state = IF challenge # 0 THEN "waitingUser" ELSE observed.state
      BY <2>3 DEF StreamReadsChallenge, RuntimeTypeOK, Snapshots
    <3> QED BY <3>1, <3>2
  <2>4. CASE StreamWakes
    BY <2>4 DEF StreamWakes
  <2> QED BY <1>2, <2>1, <2>2, <2>3, <2>4 DEF StreamStep
<1> QED BY <1>1, <1>2

-----------------------------------------------------------------------------
\* The inductive invariant of the transport state: its types, how a start's
\* generation travels while calls do not overlap, and the stream's two reads.
RuntimeInv == RuntimeTypeOK /\ HeardInv /\ StreamInv

(***************************************************************************)
(* It holds in every state: a call carries the generation it was given to  *)
(* the store and the store to its client, past clients of earlier calls    *)
(* that publish still, and no change passes the stream by.                 *)
(***************************************************************************)
THEOREM RuntimeInvariance == RuntimeSpec => []RuntimeInv
<1>1. RuntimeInit => RuntimeInv
  <2> SUFFICES ASSUME RuntimeInit PROVE RuntimeInv
    OBVIOUS
  <2>1. 0 \in 0..MaxCalls
    BY RuntimeAssumption
  <2>2. health \in Snapshots(States) /\ observed \in Snapshots(States) /\ sent \in Snapshots(States \cup {"waitingUser"})
    BY <2>1, RuntimeAssumption DEF RuntimeInit, Snapshots
  <2>3. RuntimeTypeOK
    BY <2>1, <2>2 DEF RuntimeInit, RuntimeTypeOK, Kinds
  <2>4. HeardInv
    <3>1. HealthNotAhead /\ GensAreSet
      BY RuntimeAssumption DEF RuntimeInit, HealthNotAhead, GensAreSet, InUse, Calls
    <3>2. CallsInOrder /\ InstanceIsLast /\ KindsFit /\ NoClientYet /\ GenerationIsSet /\ ClientIsSet
      BY RuntimeAssumption DEF RuntimeInit, CallsInOrder, InstanceIsLast, KindsFit, NoClientYet,
         GenerationIsSet, ClientIsSet, Calls
    <3> QED BY <3>1, <3>2 DEF HeardInv, Heard
  <2>5. StreamInv
    BY DEF RuntimeInit, StreamInv, StreamIsCurrent, ReadIsCurrent
  <2> QED
    BY <2>3, <2>4, <2>5 DEF RuntimeInv
<1>2. RuntimeInv /\ [RuntimeNext]_runtimeVars => RuntimeInv'
  <2> SUFFICES ASSUME RuntimeInv, [RuntimeNext]_runtimeVars PROVE RuntimeInv'
    OBVIOUS
  <2> USE DEF RuntimeInv
  <2>1. CASE RuntimeNext
    <3>1. ~overlap' => ~overlap
      BY <2>1, OverlapStays
    <3>2. RuntimeTypeOK'
      BY <2>1, CallTyped, ClientTyped, PlatformTyped DEF RuntimeNext
    <3>3. HeardInv'
      BY <2>1, <3>1, CallHeard, ClientHeard, PlatformHeard DEF RuntimeNext, HeardInv
    <3>4. StreamInv'
      BY <2>1, <3>1, CallCurrent, ClientCurrent, PlatformCurrent DEF RuntimeNext
    <3> QED BY <3>2, <3>3, <3>4
  <2>2. CASE UNCHANGED runtimeVars
    <3>1. RuntimeTypeOK'
      BY <2>2 DEF runtimeVars, RuntimeTypeOK, Calls
    <3>2. HeardInv'
      BY <2>2, PlatformHeard DEF HeardInv, runtimeVars
    <3>3. StreamInv'
      BY <2>2, StreamStays DEF runtimeVars, streamVars
    <3> QED BY <3>1, <3>2, <3>3
  <2> QED BY <2>1, <2>2
<1> QED BY <1>1, <1>2, PTL DEF RuntimeSpec

\* The event stream of SubscribeRuntimeEvents loses no change of the state, and
\* none of the generation once a client has published under it (as long as no
\* two calls overlap).
THEOREM StreamIsCurrentHolds == RuntimeSpec => []StreamIsCurrent
<1>1. RuntimeInv => StreamIsCurrent
  BY DEF RuntimeInv, StreamInv
<1> QED BY <1>1, RuntimeInvariance, PTL

\* The client of a start that passed a generation is heard, however many calls of
\* whatever kind came before it, as long as no two of them overlapped and no
\* later URL test reset the state before it connected.
THEOREM RuntimeIsHeardHolds == RuntimeSpec => []RuntimeIsHeard
<1>1. RuntimeInv => RuntimeIsHeard
  <2> SUFFICES ASSUME RuntimeInv, ~overlap,
                      \A c \in Calls : callPc[c] \in {"idle", "probing", "returned"},
                      NEW c \in Calls, instance = c, kind[c] = "start", client[c] = "running",
                      ~ResetEarly(c)
               PROVE  clientGen[c] >= runtimeGeneration
    BY DEF RuntimeIsHeard
  <2>1. Heard
    BY DEF RuntimeInv, HeardInv
  <2>2. \A d \in Calls : d > c => callPc[d] = "idle" \/ kind[d] = "probe"
    BY <2>1 DEF Heard, InstanceIsLast
  <2>3. clientGen[c] \in 0..MaxCalls /\ runtimeGeneration \in 0..MaxCalls
    BY DEF RuntimeInv, RuntimeTypeOK
  <2>4. clientGen[c] >= c
    <3>1. CASE NothingAfter(c)
      BY <2>1, <3>1 DEF Heard, ClientIsSet
    <3>2. CASE ~NothingAfter(c)
      BY <2>2, <2>3, <3>2, RuntimeAssumption DEF NothingAfter, ResetEarly, Calls
    <3> QED BY <3>1, <3>2
  <2>5. \A g \in Calls : g > c => runtimeGeneration # g
    BY <2>1, <2>2 DEF Heard, GensAreSet, InUse
  <2> QED BY <2>3, <2>4, <2>5, RuntimeAssumption DEF Calls
<1> QED BY <1>1, RuntimeInvariance, PTL

-----------------------------------------------------------------------------
(* The generation of a session                                             *)

(***************************************************************************)
(* A worker that has a connection has it for itself; one that waits for    *)
(* its ack, or has used it, has a connection whose session is the one the  *)
(* ack spoke of.                                                           *)
(***************************************************************************)
LanesAreOwned ==
    /\ \A w \in Workers : dial[w] # "down" => lane[w] \in Connections
    /\ \A w \in Workers : dial[w] = "down" => lane[w] = NoConn
    /\ \A w, v \in Workers : lane[w] = lane[v] /\ lane[w] # NoConn => w = v

AckIsOfLane ==
    \A w \in Workers : dial[w] \in {"load", "swap", "up"} => got[w] = serves[lane[w]] /\ got[w] # 0

(***************************************************************************)
(* A lane that is up was acknowledged with the generation that is pinned.  *)
(* The session of a connection does not change while somebody holds it,    *)
(* and the pin never changes: so lanes that are up share their session.    *)
(***************************************************************************)
UpIsPinned == \A w \in Workers : dial[w] = "up" => got[w] = generation

\* A handler at work has the generation of some session in hand.
HandlerHasSession == \A c \in Connections : handler[c] # "free" => serves[c] # 0

GenerationInv == GenerationTypeOK /\ LanesAreOwned /\ AckIsOfLane /\ UpIsPinned /\ HandlerHasSession

\* A dial takes a connection that no worker has, so no lane changes session.
LEMMA DialInv ==
    ASSUME GenerationInv, NEW w \in Workers, NEW c \in Connections, Dial(w, c)
    PROVE  GenerationInv'
<1> USE GenerationAssumption DEF GenerationInv, Dial
<1>1. GenerationTypeOK'
  BY DEF GenerationTypeOK
<1>2. \A v \in Workers : lane[v] # c
  BY DEF Unused
<1>3. LanesAreOwned'
  BY <1>2 DEF GenerationTypeOK, LanesAreOwned
<1>4. \A v \in Workers \ {w} : dial[v] # "down" => serves'[lane[v]] = serves[lane[v]]
  BY <1>2 DEF GenerationTypeOK, LanesAreOwned
<1>5. AckIsOfLane' /\ UpIsPinned'
  BY <1>2, <1>4 DEF GenerationTypeOK, LanesAreOwned, AckIsOfLane, UpIsPinned
<1>6. HandlerHasSession'
  BY DEF GenerationTypeOK, HandlerHasSession
<1> QED BY <1>1, <1>3, <1>5, <1>6

\* A lane that is up has an acknowledged generation, so one is pinned by then:
\* pinning one when none is leaves the lanes that are up alone.
LEMMA PinIsKept ==
    ASSUME GenerationInv, NEW w \in Workers, dial[w] = "swap",
           generation' = IF generation = 0 THEN got[w] ELSE generation
    PROVE  /\ generation' \in Generations \cup {0}
           /\ \A v \in Workers : dial[v] = "up" => got[v] = generation'
<1>1. \A v \in Workers : dial[v] = "up" => got[v] = generation /\ generation # 0
  BY DEF GenerationInv, AckIsOfLane, UpIsPinned
<1> QED BY <1>1 DEF GenerationInv, GenerationTypeOK

\* What a dial may do with its lane once the generation to compare with is fixed:
\* drop the lane, or keep it and go on.
LEMMA SettleInv ==
    ASSUME GenerationInv, NEW w \in Workers, UNCHANGED <<handlerVars, paths, tableVars, faults>>,
           generation' \in Generations \cup {0},
           \A v \in Workers : dial[v] = "up" => got[v] = generation',
           \/ Drop(w)
           \/ /\ dial[w] \in {"load", "swap"} /\ UNCHANGED <<lane, got, alive>>
              /\ \/ dial' = [dial EXCEPT ![w] = "swap"]
                 \/ dial' = [dial EXCEPT ![w] = "up"] /\ got[w] = generation'
    PROVE  GenerationInv'
<1> USE GenerationAssumption DEF GenerationInv, GenerationTypeOK, LanesAreOwned, AckIsOfLane, UpIsPinned,
        HandlerHasSession, handlerVars, tableVars
<1>1. CASE Drop(w)
  <2>1. GenerationTypeOK'
    BY <1>1 DEF Drop
  <2>2. LanesAreOwned'
    BY <1>1 DEF Drop
  <2>3. AckIsOfLane' /\ UpIsPinned' /\ HandlerHasSession'
    BY <1>1 DEF Drop
  <2> QED BY <2>1, <2>2, <2>3
<1>2. CASE ~Drop(w)
  <2>1. GenerationTypeOK' /\ LanesAreOwned'
    BY <1>2
  <2>2. AckIsOfLane' /\ UpIsPinned' /\ HandlerHasSession'
    BY <1>2
  <2> QED BY <2>1, <2>2
<1> QED BY <1>1, <1>2

\* The rest of DialPath: what it pins is what the ack of its lane carried.
LEMMA WorkerInv ==
    ASSUME GenerationInv, NEW w \in Workers,
           \/ AckArrives(w) \/ AuthFails(w) \/ LoadGeneration(w)
           \/ SwapGeneration(w) \/ LaneLost(w)
    PROVE  GenerationInv'
<1>1. CASE AckArrives(w)
  BY <1>1, GenerationAssumption DEF AckArrives, GenerationInv, GenerationTypeOK, LanesAreOwned,
     AckIsOfLane, UpIsPinned, HandlerHasSession, handlerVars, tableVars
<1>2. /\ generation \in Generations \cup {0}
      /\ \A v \in Workers : dial[v] = "up" => got[v] = generation
  BY DEF GenerationInv, GenerationTypeOK, UpIsPinned
<1>3. CASE AuthFails(w) \/ LaneLost(w)
  <2>1. Drop(w) /\ UNCHANGED <<generation, handlerVars, paths, tableVars, faults>>
    BY <1>3 DEF AuthFails, LaneLost
  <2> QED BY <1>2, <2>1, SettleInv
<1>4. CASE LoadGeneration(w)
  <2>1. UNCHANGED <<generation, handlerVars, paths, tableVars, faults>>
    BY <1>4 DEF LoadGeneration
  <2>2. \/ Drop(w)
        \/ /\ dial[w] \in {"load", "swap"} /\ UNCHANGED <<lane, got, alive>>
           /\ \/ dial' = [dial EXCEPT ![w] = "swap"]
              \/ dial' = [dial EXCEPT ![w] = "up"] /\ got[w] = generation'
    BY <1>4, <2>1 DEF LoadGeneration, Settle
  <2> QED BY <1>2, <2>1, <2>2, SettleInv
<1>5. CASE SwapGeneration(w)
  <2>1. /\ dial[w] = "swap" /\ UNCHANGED <<handlerVars, paths, tableVars, faults>>
        /\ generation' = IF generation = 0 THEN got[w] ELSE generation
    BY <1>5 DEF SwapGeneration
  <2>2. \/ Drop(w)
        \/ /\ dial[w] \in {"load", "swap"} /\ UNCHANGED <<lane, got, alive>>
           /\ \/ dial' = [dial EXCEPT ![w] = "swap"]
              \/ dial' = [dial EXCEPT ![w] = "up"] /\ got[w] = generation'
    BY <1>5 DEF SwapGeneration, Settle
  <2>3. /\ generation' \in Generations \cup {0}
        /\ \A v \in Workers : dial[v] = "up" => got[v] = generation'
    BY <2>1, PinIsKept
  <2> QED BY <2>1, <2>2, <2>3, SettleInv
<1> QED BY <1>1, <1>3, <1>4, <1>5

\* Faults are counted up to their bound.
LEMMA FaultTyped ==
    ASSUME GenerationInv, NEW k, Fault(k)
    PROVE  faults' \in 0..MaxFaults
BY GenerationAssumption DEF Fault, GenerationInv, GenerationTypeOK

\* No step of the server and no fault changes the session of a connection.
LEMMA ServerInv ==
    ASSUME GenerationInv,
           \/ \E c \in Connections : HandlerStep(c) \/ PathRemoved(c) \/ ConnBreaks(c)
           \/ \E g \in Generations : EvictedCloses(g)
           \/ Reap \/ Evict \/ ServerRestarts
    PROVE  GenerationInv'
<1> USE GenerationAssumption DEF GenerationInv, GenerationTypeOK, LanesAreOwned, AckIsOfLane, UpIsPinned,
        HandlerHasSession, clientVars, handlerVars, tableVars
<1>1. ASSUME NEW c \in Connections, HandlerStep(c)
      PROVE  GenerationInv'
  <2>1. CASE WriteAck(c)
    BY <2>1 DEF WriteAck
  <2>2. CASE WriteAckFails(c)
    BY <2>2 DEF WriteAckFails, DeleteIfUnattached
  <2>3. CASE AttachServerConn(c)
    BY <2>3 DEF AttachServerConn
  <2>4. CASE HandlerReturns(c)
    BY <2>4 DEF HandlerReturns, DeleteIfUnattached
  <2> QED BY <1>1, <2>1, <2>2, <2>3, <2>4 DEF HandlerStep
<1>2. ASSUME NEW c \in Connections, PathRemoved(c) \/ ConnBreaks(c)
      PROVE  GenerationInv'
  <2>1. CASE PathRemoved(c)
    BY <2>1 DEF PathRemoved
  <2>2. CASE ConnBreaks(c)
    <3>1. GenerationTypeOK'
      BY <2>2, FaultTyped DEF ConnBreaks
    <3>2. LanesAreOwned' /\ AckIsOfLane' /\ UpIsPinned' /\ HandlerHasSession'
      BY <2>2 DEF ConnBreaks
    <3> QED BY <3>1, <3>2
  <2> QED BY <1>2, <2>1, <2>2
<1>3. ASSUME NEW g \in Generations, EvictedCloses(g)
      PROVE  GenerationInv'
  BY <1>3 DEF EvictedCloses
<1>4. CASE Reap
  BY <1>4 DEF Reap
<1>5. CASE Evict
  <2>1. GenerationTypeOK'
    BY <1>5, FaultTyped DEF Evict
  <2>2. LanesAreOwned' /\ AckIsOfLane' /\ UpIsPinned' /\ HandlerHasSession'
    BY <1>5 DEF Evict
  <2> QED BY <2>1, <2>2
<1>6. CASE ServerRestarts
  <2>1. GenerationTypeOK'
    BY <1>6, FaultTyped DEF ServerRestarts
  <2>2. LanesAreOwned' /\ AckIsOfLane' /\ UpIsPinned' /\ HandlerHasSession'
    BY <1>6 DEF ServerRestarts
  <2> QED BY <2>1, <2>2
<1> QED BY <1>1, <1>2, <1>3, <1>4, <1>5, <1>6

(***************************************************************************)
(* The inductive invariant of the client and its server: who holds a       *)
(* connection, which session it belongs to, and what was pinned.           *)
(***************************************************************************)
THEOREM GenerationInvariance == GenerationSpec => []GenerationInv
<1>1. GenerationInit => GenerationInv
  BY GenerationAssumption DEF GenerationInit, GenerationInv, GenerationTypeOK, LanesAreOwned, AckIsOfLane, UpIsPinned,
     HandlerHasSession
<1>2. GenerationInv /\ [GenerationNext]_generationVars => GenerationInv'
  <2> SUFFICES ASSUME GenerationInv, [GenerationNext]_generationVars PROVE GenerationInv'
    OBVIOUS
  <2>1. CASE GenerationNext
    BY <2>1, DialInv, WorkerInv, ServerInv DEF GenerationNext, WorkerStep
  <2>2. CASE UNCHANGED generationVars
    BY <2>2 DEF generationVars, GenerationInv, GenerationTypeOK, LanesAreOwned, AckIsOfLane, UpIsPinned, HandlerHasSession
  <2> QED BY <2>1, <2>2
<1> QED BY <1>1, <1>2, PTL DEF GenerationSpec

\* The comparison in DialPath does what it is for: the lanes a client uses
\* never end in two sessions of the server.
THEOREM OneSessionHolds == GenerationSpec => []OneSession
<1>1. GenerationInv => OneSession
  BY DEF GenerationInv, AckIsOfLane, UpIsPinned, OneSession
<1> QED BY <1>1, GenerationInvariance, PTL
=============================================================================
