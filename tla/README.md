# TLA+ specifications of HydraCore's call transport

HydraCore is a sing-box fork. Its own core is `vk_parasite`, a transport that
carries QUIC connections over the TURN relays of a VK call. This directory
models the concurrent parts of that transport and of the state it shares with
the platform, checks them with TLC on small instances, and proves their safety
properties with TLAPS, for every value of the constants.

Every definition is translated from the Go source; `PROJECT.json` gives the
lines behind each one. In the modules, a step is what a goroutine does between
two points at which another goroutine can observe it: one critical section, one
atomic access, one call that may block.

## The system

| Part | Code | State | Operations |
|------|------|-------|------------|
| Call outbound | `protocol/call/outbound.go` | `started`, `closed`, `await`, `bridge` | `Start`, `startHandler`, `Close`, `InterfaceUpdated` |
| Client lane pool | `transport/call/vk-parasite/quic_relay.go` (`QUICRelay`) | `paths`, generation context, `appliedNetworkGeneration`, `initialPathsPending`, `closed` | `initPath`, `reconnectPath`, `watchPath`, `addCurrentPath`, `RebindNetwork`, `Close` |
| Dial of a lane | `client.go` (`DialPath`), `supervisor.go`, `turn.go` | the process-wide TURN gate | credentials, permit, spacing, allocation, release |
| TURN credentials | `transport/call/vk/turn_credentials.go` | cache, shared fetch, `authFailures`, join limiter | `Fetch`, `Invalidate` |
| Captcha flow | `transport/call/vk/vk_auth.go`, `captcha_proxy.go` | gate for one flow, local proxy, challenge | solve, cancel, stop |
| Server session table | `server.go` | `sessions`, `userSessions`, `pendingAttaches`, `pending` slots | `handleQUICConn`, `getOrCreateSession`, `evictSuperseded`, reaper, `Close` |
| Session generation | `client.go` (`DialPath`), `server.go` | the generation a client pins, the generation of a session | dial, ack, compare and swap, deletion and restart of sessions |
| Datagram associations | `datagram.go` | map of associations; per association a store of fragments and a queue | `route`, `newAssociation`, `closeConn`, `Write`, `deliverFragment`, `Read`, `Close` |
| Health supervisor | `supervisor.go`, `client.go` | `lastFailure`, `sawPath`, `sawChallenge`, `healthWake` | `healthLoop`, `healthSnapshot`, `dialTrackedPath` |
| Process-wide transport state | `common/hydracore/runtime_transport.go`, `daemon/` | health, challenge, runtime generation, change channel | publish, reset, set generation, challenges, service calls, event stream |
| Lane selection | `quic_relay.go` (`pickPath`) | load and RTT per path | choice of a path |
| Packet framing | `obfs.go`, `packet_conn.go` | codec table, sequence numbers | wrap, unwrap, reap |

How they interact: the outbound creates a client; the client's pool dials one
lane per worker, each dial passing credentials, perhaps a captcha, and a TURN
permit; the server authenticates each connection and attaches it to the session
of its client; datagrams are routed over the lanes; the supervisor turns what
happens to the lanes into one health value, which the process-wide state passes
on to the platform.

What makes this hard: a rebind of the network and a close race with dials and
with an asynchronous start; one join serves many dials, any of which may be
cancelled while its result is dropped; the reaper, evictions and failed
handshakes race for one session; the health is computed from four separate
reads; service calls reset a state that clients of earlier services still write;
a client and a server remember different things about a session after a fault.

What correct means: a worker is served by one goroutine and never lost; no
connection, bridge, permit or gate leaks; limits and counts of the server are
exact; a worker that was accepted finds its session; the platform is told of
lanes and of refusals, and of no refusal too early; no datagram is mixed up or
lost by the receiver; all lanes of a client end in one session.

## Modules

A component is a module. `MC...` modules are its instances for TLC, `..._proofs`
and `..._lemmas` hold theorems.

### Lanes, LanePool and Outbound

LanePool follows `QUICRelay`. `pc[w]` is where `initPath` or `reconnectPath` of a
worker stands, `watcher[c]` where `watchPath` of a connection stands,
`rebindPc[r]` where a call of `RebindNetwork` stands. `shutdown` counts the
three steps of a close: the cancellation of the client's context, the closed
flag, the drained pool. A dial is one step with a result; `addCurrentPath`
compares the generation the dial began under. Backoff is a timer that may fire
at any time. The order of `r.paths` matters only to `pickPath` and is left out.

Lanes is what the pool promises: a worker's lane is down, up or given up; it
comes up only under the generation current at that moment, never after the
worker was given up and never once the client is being closed. LanePool
instantiates it (`Promise`), and `LanesImplemented` is its specification under
the refinement mapping.

Outbound puts the life of a call outbound around the pool: `Start` hands the
connecting to a goroutine, `Close` may come before, during and after it, and
`InterfaceUpdated` passes networks on to `RebindNetwork`. The goroutines of the
pool run as soon as `call.Connect` has created the relay (`relayUp`), whether or
not the outbound holds the bridge yet.

### TurnCredentials and DialPath

TurnCredentials is the cache of a client and the process-wide limiter of joins.
A flight is a call of the singleflight group: the first caller of a link starts
it, under its own context, the others wait in `waiters`. Credentials are numbered
as VK issues them. The windows the code compares times with (expiry, minimum
reuse, `authFailures`, flood control, spacing) are flags that pass at any moment.
`dropped` and `floor` are history variables: what the last finished `Invalidate`
dropped, and that value when a call of `Fetch` began.

DialPath is one dial of each worker: credentials, the TURN gate, the spacing, the
allocation, and `Invalidate` if the TURN server rejects the credentials, with the
release of the permit on every way out. What follows an allocation (QUIC,
authentication) shares nothing with other dials.

### Captcha

`place[f]` is where `solveVKCaptcha` of a flow stands. The local proxy is one
process-wide record; besides the flow that holds `captchaFlowGate`, the goroutine
of a server that stopped serving and `VKJoiner.Close` touch it. The challenge is
cancelled by the person, or by `ResetRuntimeTransportState`; the history variable
`closer` says by whom.

### SessionTable

A handler is a QUIC connection with its goroutine. `pc[h]` runs through
`handleQUICConn` with all its early returns: it accepts a stream under
`HandshakeTimeout` and then reads the request without a deadline. The lookup of
`getOrCreateSession` is one critical section that finds, refuses, evicts and
creates. The setup by
`SessionHandler` runs outside the lock and may fail. `reaping` is the list the
reaper made under the lock and works off later. `old` marks sessions older than
the idle timeout. `PromptSetup` says that a `SessionHandler` returns before its
session is that old (30 seconds at least); the two properties that need it name
it. The random generation of a session is the identity of its object; the error
path of `randomSessionGeneration` is left out, because `crypto/rand` does not
fail in the Go version the repository requires.

### SessionGeneration

The composition of client and server for one session id. It takes from
SessionTable that a handshake protects its session until its lane is attached,
and from LanePool that a worker has one task, which dials until it has a lane.
It adds what neither has: `DialPath` pins the generation of the first ack and
drops lanes whose ack carries another. `Fault(kind)` counts the faults: a
connection that breaks, an eviction, a restart of the server. `Reap` may take
any session without lanes, which over-approximates its age. An ack reaches the
client only while the connection is alive. A new generation is the smallest
value nobody refers to, which loses nothing, as values are only compared.

### DatagramRouter and DatagramAssociation

DatagramRouter is the map of associations at either end: `accept` says whether
an unknown id opens an association (the server) or only `ListenPacket` does (the
client). `via` records that all datagrams of an id travel over one connection.
DatagramAssociation is one association, from `Write` to `Read`. A datagram is a
sequence of tagged positions, so that a mix-up is visible. Fragments are lost
(never delivered), reordered, and may arrive more than once; expiry removes a
prefix of the store; `Read` gets a buffer that is large enough. One of the two
ends was opened by `acceptAssociation`, and the next frame opens it again after
its `Close`, under the same id: a new object with an empty store, that numbers
its packets from 1 (`SenderReopens`, `ReceiverReopens`). `reopened` and `calm`
are history variables: which end that was, and that nothing expired, was crowded
out or closed yet.

### TransportHealth

`healthSnapshot` takes no lock, so `loop` stops between each of its reads and
`seen` holds what it has read. A worker dials, fails, asks the user, comes up and
dies; rebinds and `Close` are LanePool's subject. Of a failure its `Terminal`
flag is kept. Terminal failures come from a captcha the user closed; that
several workers may share one credential fetch is TurnCredentials' subject.

### RuntimeTransport

Calls of `StartOrReloadService` and `CloseService` are numbered. `kind` says what
a call is: a start that passes a runtime generation, which is then its number
(libbox), a start that passes none (boxdd), a stop, or the start of a standalone
URL test, which passes none either and has a service of its own in the same
process. A client outlives the close of its instance until it notices.
`CallResets` and `SetRuntimeGeneration` are two steps, as in the code, and only
the first wakes the stream. The stream fetches the change channel, reads health
with its generation, then the challenge, sends and waits. `overlap` is a history
variable: a call was made while another was in progress. `StartedService.Close`
is not modelled.

## Runs

| Run | Instance | Checks | States |
|-----|----------|--------|--------|
| `outbound` | 1 worker, 2 connections, 2 rebinds at once, 2 network generations | invariants of pool and outbound, refinement of Lanes, liveness | 124 thousand |
| `join` | 2 workers of 1 link, 1 TURN permit, 2 issued credentials; 2 captcha flows, 2 proxies; 2 service calls, 2 states | gates, credentials, waiters, captcha, process-wide state and stream | 1.8 million |
| `session_table` | 2 handlers, 2 users, 3 requests, a table of 1 session | accounts, limits, fate of lanes, eviction | 604 thousand |
| `session_live` | 2 handlers of 1 session | counts of attaches and slots, handshakes end, idle sessions go | 241 thousand |
| `session_generation` | 2 workers, 3 connections, 1 fault of 3 kinds | one session, recovery | 337 thousand |
| `datagrams` | 2 lanes, 2 ids, 3 associations; 3 datagrams of at most 2 fragments, 1 repeated frame, store of 2, queue of 1 | routing and reassembly | 2.9 million |
| `transport_health` | 2 workers | what is published, and what is published in the end | 477 thousand |
| `health_terminal` | 2 workers | finding, see below | violation |
| `health_refusal` | 2 workers | finding, see below | violation |
| `session_reset` | 2 workers, 1 broken connection | finding, see below | violation |
| `captcha_reset` | 2 flows, 2 proxies | finding, see below | violation |
| `session_handshake` | 1 handler | finding, see below | violation |

`join` and `datagrams` check layers that share no variable in one run: a
behaviour moves one of them, chosen at the start (`layer`).

Why the bounds are enough. In the pool, workers meet only in the generation, the
pool and `Close`; the invariants speak of one worker each, and two rebinds with
two network generations contain a call that is overtaken by a newer network. Two
dials of one link contain a leader and a waiter of one flight, a flight forgotten
while it is waited for, and a second flight next to it; two credentials allow one
to be dropped and replaced. In the table, one session makes every second request
a matter of eviction or refusal, two session objects allow an old and a new one
under the same id, and three requests give a second device, a second user and a
session id under another identity. Two workers suffice for a snapshot that sees
one failing and another coming up. Two calls are a service and its successor, of
any of the four kinds, that overlap or not, with a leftover client of the first;
the exception `ResetEarly` of `RuntimeIsHeard` takes three, and is covered by the
theorem only. Three datagrams overfill a store of two; two fragments are the
least that can be mixed up, lost one by one or doubled, and the lengths give
datagrams without bytes, of one fragment, of two, and of too many. One fault is
enough to delete a session between the handshakes of two workers; three
connections allow one to be dialled while an old one is still being cleaned up.
For the safety properties the theorems below remove the bounds altogether.

Deadlock is checked for `join` and `transport_health`. The others come to rest legitimately: after `Close`, when all datagrams have been
read, or when all lanes are up and all faults have happened.

Every property of a passing run has a mutant in `PROJECT.json`: a plausible
mistake in the code under which TLC finds the property violated.

## Fairness

- Outbound: goroutines that can run do, timers fire and `call.Connect` returns
  (weak fairness). A dial that is tried again and again succeeds in the end
  (strong fairness of `DialSucceeds`): `reconnectPath` retries without limit, and
  the network is assumed to come back. It also assumes that the server still has
  the session; SessionGeneration is about what happens when it has not. Nothing
  obliges a connection to die, the platform to report a network, or the user to
  start or close the outbound.
- SessionTable: `AcceptStream` returns, for it has a deadline; the read of the
  request fails once the connection has ended; the setup returns; the reaper's
  ticker fires as long as the server is open. Nothing obliges a peer to come, to
  send its request or to disconnect, or the server to be closed. So
  `HandshakesEnd` leaves out the handler whose peer stays connected and silent.
- TransportHealth: workers and the health loop run. The heartbeat gets no
  fairness, so the liveness properties rest on the wake-ups alone.
- SessionGeneration: strong fairness of a worker's steps for the reason given
  for Outbound; weak fairness of the server's goroutines. Faults get none.

## Proofs

All theorems hold for any value of the constants that satisfies the named
`ASSUME` of the module: distinct null values, natural bounds, and finite sets of
handlers, ids, workers and flights where something is counted. Every invariant,
action property and refinement that a passing run checks has a theorem. Each is
proved from an inductive invariant, with one lemma per action or group of
actions.

**Outbound_proofs** (LanePool, Lanes, Outbound). `PoolInv` adds to the three
properties of the pool that pooled connections are watched (`PoolIsWatched`),
that watched ones have an owner (`WatchedAreOwned`), that a goroutine holds only
connections nobody else has (`HeldAreFresh`), and what the local copy of a
rebind contains (`RebindLocals`). `PoolImplementsLanes` maps every step of the
pool to a step of Lanes or a stutter. `OutboundImplementsPool` shows that the
outbound drives the pool within the pool's own specification, so
`OutboundKeepsPoolSafe` carries all of this over. `OutboundInv` is what
`NoBridgeOutlivesClose` needs: of `Close` and `startHandler`, the one who comes
second sees the flag of the first, so a bridge is about to be published only
while `Close` is still going to look for it.

**SessionTable_proofs**. `TableInv`. The counts are cardinalities, so a first
layer of lemmas says what taking and releasing a slot or an attach does to them.
`AttachIsProtected` needs `AttachAccounting` (the count the reaper reads is the
number of handshakes), `SetupIsExclusive` and `SetupIsProtected` (only the
creator closes `ready`, and its session is not removed before). The action
property `NoEvictionInVain` follows from the order of the checks before the
eviction.

**DialPath_lemmas, DialPath_proofs** (TurnCredentials, DialPath). `DialInv`.
`DroppedStaysDropped` speaks of the answers that callers hold; `Fresh` extends it
to what could become one: the cache, a flight that is about to store, and the
result of a flight that is done, to whoever still waits for it. `Numbered` says
that what VK issued last is newest, `Linked` ties callers, flights and links
together, and `Paced` says that what a flight found under the gate is still so
while it holds the gate. `PermitBalance` is inductive by itself, as soon as the
stages of a dial have their types.

**TransportHealth_proofs** (TransportHealth, Captcha). `HealthInv` adds
`DecidedIsLate`: what the switch has decided is still true when it is published,
because first attempts that are over stay over. `CaptchaInv` rests on two facts:
whoever stops the proxy or reports it failed takes no server from its owner
(`ActiveIsOwned`, `WatchedIsOwn`), and an outcome is kept from the end of a wait
to the end of the flow (`OutcomeIsKept`).

**Generation_proofs** (RuntimeTransport, SessionGeneration). `RuntimeInv` has two
parts. `StreamInv` says that between its two reads the stream knows the health as
it is, unless its channel was closed (`ReadIsCurrent`), and what that says of the
generation. `HeardInv` is the history argument behind `RuntimeIsHeard`: while
calls do not overlap, every number still to come is larger than any generation in
use (`NothingAfter`, `GensAreSet`), the instance belongs to the last call that got
as far as making one (`InstanceIsLast`), and the store and the client of a start
that passed its generation carry at least its number (`GenerationIsSet`,
`ClientIsSet`).
`GenerationInv`: a lane that is up was acknowledged with the pinned generation
(`UpIsPinned`), and the session of a connection does not change while a worker
holds it (`LanesAreOwned`, `AckIsOfLane`); so two lanes that are up share their
session.

**Datagram_lemmas, Datagram_proofs** (DatagramRouter, DatagramAssociation).
`RouterInv` adds `LiveIsRouted`, which covers associations whose `Close` has
begun: deletion by id hits no other association only because the one being
closed is itself still in the map. `FragmentsRebuild` says that the fragments
`Write` cuts, put together the way `deliverFragment` does, are the datagram, for
any length and budget; being about a recursive function it is proved by the least
counterexample (`WFMin` of the well-founded order on the naturals), which needs
no operator parameter. `AssociationInv` has two parts. `SoundInv` holds always:
whatever the packet numbers, the store has one entry for each, with the right
number of fragments missing. `OwnInv` holds until the sender is opened again:
packet ids count what was written (`Numbered`), what is in hand, queued or read
was written (`HandIsOwn`), and an entry of the store holds fragments of one
datagram that was written (`StoreIsOwn`). `NoDatagramVanishes` is not inductive:
that *some* fragment of a datagram is still to come does not say that the others
are safe. `Accounted` says of *every* fragment that it is in the network, in hand
or in the store, unless the datagram is complete.

### Only model-checked

Liveness, because the provers cannot reason about `ENABLED`: `LaneRecovers`,
`StartupSettles`, `CloseReleasesAll` (outbound), `IdleSessionsGo`,
`HandshakesEnd` (session_live), `LanesAreReported`, `RefusalIsReported`
(transport_health), `KeptSessionRecovers` (session_generation). The five
violations are counterexamples of TLC.

## Findings

- `health_terminal`: after the user has closed a captcha, the snapshot that
  notices the end of the challenge erases the terminal failure
  (`supervisor.go:183`). With every worker given up, the state stays Starting or
  Recovering. `docs/architecture.md:108` lists a terminal failure as `Failed`.
- `health_refusal`: a first attempt that succeeds between the read of the pool
  and the read of the pending attempts leaves a snapshot without lanes, without
  pending attempts and with the failure of a sibling: Failed is published with a
  lane up, against the comments at `supervisor.go:199-203`.
- `session_reset`: a session is deleted when the connection that created it
  breaks before another lane is attached. The client keeps its pinned generation
  for its whole life and refuses every lane of the next session. It dials for
  ever, although `docs/architecture.md:31` says a dropped lane reconnects.
- `captcha_reset`: `ResetRuntimeTransportState`, which a starting service calls
  first, cancels the challenge of a flow whose own context goes on. The flow
  reports a terminal `vk.captcha.cancelled`, although `vk_auth.go:259` says "Only
  a question the person actually closed ends the attempt."
- `session_handshake`: `HandshakeTimeout` bounds `AcceptStream` only
  (`server.go:282-284`); the read of the request after it has no deadline, and
  keep-alives hold the connection of a silent peer. Its handler waits for ever,
  with its slot, although `docs/configuration.md:52` calls the option
  "per-handshake deadline".

Observations without a run of their own:

- A datagram already received can open an association after `closeConn` swept
  its dead lane (`RouteUnknown`, `ConnDies`, `CloseConn`, `AcceptAssociation` of
  DatagramRouter). It stays until its user or the router closes it; and if the
  association that was swept is closed only then, its `removeAssociation` deletes
  the entry of the new one, and the router does not find it either. Hence
  `RoutedIffInUse` speaks of lanes that were not swept. The comment at
  `datagram.go:147-148` has the sweep end all associations of a dead lane.
- An end that is closed and opened again numbers its packets from 1 again, and
  `pendingFor` takes an entry of the other end with the same number, even one
  that has expired, for the same datagram (`datagram.go:312`): fragments of two
  datagrams with as many fragments are put together. Hence the exception in
  `WholeDatagrams`.
- `captchaProxyFailed` marks whichever proxy is active, so the goroutine of an
  old server may mark a newer one as failed; and `VKJoiner.Close` stops the proxy
  of any flow. Both only end a wait early: `QuestionIsOwn` and
  `TerminalWasCancelled` hold all the same.
- `StartOrReloadService` resets the generation to 0 and sets the new one in two
  critical sections (`started_service.go:271`). A leftover client may publish in
  between. `RuntimeIsHeard` shows that this is harmless for a start that passes
  a generation, while calls do not overlap. It does not hold when they do: the
  one with the smaller generation may be the last to run, and is then not heard.
  Nor does it for a start that passes none (`started_service.go:272`): a leftover
  client may put its own generation back after the reset, and the new client,
  which has read 0, is not heard. `CHANGELOG.md:148-151` says that a publish of
  the old client is dropped.
- `SetRuntimeGeneration` closes no channel: the stream learns of a new generation
  with the first health that is published under it (`StreamIsCurrent`).
- `docs/architecture.md:106` describes `Healthy` as "at least one active path";
  the code requires a lane of every worker and reports degraded otherwise.

## Not modelled

Listed with reasons in `PROJECT.json`: lane selection, the order and penalties of
TURN endpoints, the distance that the spacing keeps between two allocations, the
signalling with outside services, cryptography and byte layouts, QUIC and socket
configuration, failover and bond, the upstream sing-box core, and protocols the
call transport does not use. The hazards listed there without a property say why
they have none.

## Plan

1. **CodecTable**: the server's table of codecs per peer with its reaper, and the
   wrap of the 16-bit sequence numbers.
2. Lane selection as an operator, against a definition of the least loaded path.
3. TransportHealth and SessionGeneration over Lanes, in place of workers of
   their own.

## Running

```
tlc -config Outbound.cfg MCOutbound
tlapm Outbound_proofs.tla
```

The other runs follow the table in `PROJECT.json`. Each takes less than five
minutes. The proofs of SessionTable take about fifteen minutes, those of the
datagrams and of DialPath about ten each, the others a few.
