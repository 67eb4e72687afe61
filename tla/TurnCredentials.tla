--------------------------- MODULE TurnCredentials ---------------------------
(***************************************************************************)
(* The cache of TURN credentials of a client (TURNCredentialProvider of    *)
(* transport/call/vk/turn_credentials.go) and the process-wide limiter of  *)
(* the joins it makes at VK.                                               *)
(*                                                                         *)
(* Fetch shares one join between all callers of a link: the first of them  *)
(* starts a flight (a call of singleflight.Group), under its own context,  *)
(* and the others wait for its result.  Invalidate drops credentials that  *)
(* TURN servers reject, and makes the group forget the flight.             *)
(*                                                                         *)
(* Times are left out but for the windows the code compares them with: the *)
(* expiry of an entry, its minimum reuse, the window of authFailures, the  *)
(* cooldown after flood control, the spacing of the joins.  What a join    *)
(* does at VK is Captcha's subject: here it returns any outcome.           *)
(***************************************************************************)
EXTENDS Integers, FiniteSets

CONSTANTS
    Workers,      \* the callers of Fetch: one dial per worker at a time
    Links,        \* join links
    LinkOf,       \* joinLinkForWorker
    Flights,      \* calls of the singleflight group there can be at one time
    NoFlight,     \* no call
    AuthFailureThreshold,  \* authFailureThreshold
    MaxJoins      \* bound: credentials VK issues

ASSUME CredentialsAssumption ==
    /\ Links # {} /\ LinkOf \in [Workers -> Links]
    /\ IsFiniteSet(Workers) /\ IsFiniteSet(Flights)
    /\ NoFlight \notin Flights
    /\ AuthFailureThreshold \in Nat \ {0}
    /\ MaxJoins \in Nat

VARIABLES
    cache,        \* p.cache: the credentials of a link by their number, or 0
    recent,       \* links whose last join is younger than the minimum reuse
    authFailures, \* how many failures of a link are in the window
    flood,        \* floodUntil is in the future
    spaced,       \* the spacing since lastFetch has passed
    fetchGate,    \* tokens in limiter.fetchGate
    group,        \* p.group: the flight of a link
    flight,       \* its place, its link, its result, and whether its context is done
    waiters,      \* the calls of Fetch that wait for it
    call,         \* where a call of Fetch stands
    answer,       \* what its channel holds, or what it has returned
    done,         \* the callers whose context is done
    issued,       \* how many credentials VK has issued
    dropping,     \* the credentials a call of Invalidate has deleted
    dropped,      \* history: the last ones that a finished Invalidate deleted
    floor         \* history: dropped, when the call of Fetch began

limiterVars == <<flood, spaced, fetchGate>>
cacheVars == <<cache, recent, authFailures>>
callVars == <<call, answer, floor>>
dropVars == <<dropping, dropped>>
credVars == <<cacheVars, limiterVars, group, flight, waiters, callVars, issued, dropVars>>

Results == [kind : {"none", "ok", "error", "terminal"}, cred : 0..MaxJoins]
Pending == [kind |-> "none", cred |-> 0]
Ok(k) == [kind |-> "ok", cred |-> k]
Failed(kind) == [kind |-> kind, cred |-> 0]

NotFlying == [pc |-> "free", link |-> CHOOSE l \in Links : TRUE, done |-> FALSE, result |-> Pending]

FlightPcs == {"free", "begin", "gate", "checking", "spacing", "joining", "storing", "done"}

\* Where a flight holds the token of fetchGate.
GatePcs == {"checking", "spacing", "joining", "storing"}

(***************************************************************************)
(* The types of the provider, the limiter and the calls in progress.       *)
(***************************************************************************)
CredentialsTypeOK ==
    /\ cache \in [Links -> 0..MaxJoins]
    /\ recent \subseteq Links
    /\ authFailures \in [Links -> 0..AuthFailureThreshold-1]
    /\ flood \in BOOLEAN /\ spaced \in BOOLEAN
    /\ fetchGate \in Nat
    /\ group \in [Links -> Flights \cup {NoFlight}]
    /\ flight \in [Flights -> [pc : FlightPcs, link : Links, done : BOOLEAN, result : Results]]
    /\ waiters \in [Flights -> SUBSET Workers]
    /\ call \in [Workers -> {"out", "missed", "waiting", "returned"}]
    /\ answer \in [Workers -> Results]
    /\ done \subseteq Workers
    /\ issued \in 0..MaxJoins
    /\ dropping \in [Workers -> 0..MaxJoins]
    /\ dropped \in [Links -> 0..MaxJoins]
    /\ floor \in [Workers -> 0..MaxJoins]

CredentialsInit ==
    /\ cache = [l \in Links |-> 0]
    /\ recent = {}
    /\ authFailures = [l \in Links |-> 0]
    /\ flood = FALSE /\ spaced = TRUE
    /\ fetchGate = 1
    /\ group = [l \in Links |-> NoFlight]
    /\ flight = [f \in Flights |-> NotFlying]
    /\ waiters = [f \in Flights |-> {}]
    /\ call = [w \in Workers |-> "out"]
    /\ answer = [w \in Workers |-> Pending]
    /\ done = {}
    /\ issued = 0
    /\ dropping = [w \in Workers |-> 0]
    /\ dropped = [l \in Links |-> 0]
    /\ floor = [w \in Workers |-> 0]

-----------------------------------------------------------------------------
(* Fetch                                                                   *)

Return(w, result) ==
    /\ call' = [call EXCEPT ![w] = "returned"]
    /\ answer' = [answer EXCEPT ![w] = result]

\* The first look at the cache
FetchLooks(w) ==
    LET l == LinkOf[w] IN
    /\ call[w] = "out"
    /\ floor' = [floor EXCEPT ![w] = dropped[l]]
    /\ IF cache[l] # 0
         THEN Return(w, Ok(cache[l]))
         ELSE call' = [call EXCEPT ![w] = "missed"] /\ UNCHANGED answer
    /\ UNCHANGED <<cacheVars, limiterVars, group, flight, waiters, issued, dropVars>>

\* floodControlError
FetchRefused(w) ==
    /\ call[w] = "missed"
    /\ flood
    /\ Return(w, Failed("error"))
    /\ UNCHANGED <<cacheVars, limiterVars, group, flight, waiters, floor, issued, dropVars>>

Wait(w, f) ==
    /\ call' = [call EXCEPT ![w] = "waiting"]
    /\ answer' = [answer EXCEPT ![w] = Pending]
    /\ waiters' = [waiters EXCEPT ![f] = @ \cup {w}]
    /\ UNCHANGED <<cacheVars, limiterVars, floor, issued, dropVars>>

\* group.DoChan, for a link that has a flight
FetchJoins(w) ==
    LET f == group[LinkOf[w]] IN
    /\ call[w] = "missed"
    /\ ~flood
    /\ f # NoFlight
    /\ Wait(w, f)
    /\ UNCHANGED <<group, flight>>

\* group.DoChan, for one that has none: it flies under the caller's context.
FetchLeads(w, f) ==
    LET l == LinkOf[w] IN
    /\ call[w] = "missed"
    /\ ~flood
    /\ group[l] = NoFlight
    /\ flight[f].pc = "free"
    /\ group' = [group EXCEPT ![l] = f]
    /\ flight' = [flight EXCEPT ![f] = [pc |-> "begin", link |-> l, done |-> w \in done, result |-> Pending]]
    /\ Wait(w, f)

\* The select: the result is there, or the caller's own context is done.
FetchReturns(w) ==
    /\ call[w] = "waiting"
    /\ \/ answer[w] # Pending /\ Return(w, answer[w])
       \/ w \in done /\ Return(w, Failed("error"))
    /\ waiters' = [f \in Flights |-> waiters[f] \ {w}]
    /\ UNCHANGED <<cacheVars, limiterVars, group, flight, floor, issued, dropVars>>

-----------------------------------------------------------------------------
(* The flight                                                              *)

Goto(f, place) == flight' = [flight EXCEPT ![f].pc = place]
Finish(f, result) == flight' = [flight EXCEPT ![f].pc = "done", ![f].result = result]

\* The deferred function gives the token back, whatever the result.
Leave(f, result) == fetchGate' = fetchGate + 1 /\ Finish(f, result)

FlightLooks(f) ==
    LET l == flight[f].link IN
    /\ flight[f].pc = "begin"
    /\ IF cache[l] # 0 THEN Finish(f, Ok(cache[l])) ELSE Goto(f, "gate")
    /\ UNCHANGED <<cacheVars, limiterVars, group, waiters, callVars, issued, dropVars>>

FlightEnters(f) ==
    /\ flight[f].pc = "gate"
    /\ \/ fetchGate > 0 /\ fetchGate' = fetchGate - 1 /\ Goto(f, "checking")
       \/ flight[f].done /\ Finish(f, Failed("error")) /\ UNCHANGED fetchGate
    /\ UNCHANGED <<cacheVars, flood, spaced, group, waiters, callVars, issued, dropVars>>

\* Under the gate: look at the cache and at flood control again.
FlightLooksAgain(f) ==
    LET l == flight[f].link IN
    /\ flight[f].pc = "checking"
    /\ \/ cache[l] # 0 /\ Leave(f, Ok(cache[l]))
       \/ cache[l] = 0 /\ flood /\ Leave(f, Failed("error"))
       \/ cache[l] = 0 /\ ~flood /\ Goto(f, "spacing") /\ UNCHANGED fetchGate
    /\ UNCHANGED <<cacheVars, flood, spaced, group, waiters, callVars, issued, dropVars>>

\* waitForFetchSpacing
FlightWaits(f) ==
    /\ flight[f].pc = "spacing"
    /\ \/ spaced /\ spaced' = FALSE /\ Goto(f, "joining") /\ UNCHANGED fetchGate
       \/ flight[f].done /\ Leave(f, Failed("error")) /\ UNCHANGED spaced
    /\ UNCHANGED <<cacheVars, flood, group, waiters, callVars, issued, dropVars>>

\* FetchTURNCredentials returns credentials,
JoinSucceeds(f) ==
    /\ flight[f].pc = "joining"
    /\ issued < MaxJoins
    /\ issued' = issued + 1
    /\ flight' = [flight EXCEPT ![f].pc = "storing", ![f].result = Ok(issued + 1)]
    /\ UNCHANGED <<cacheVars, limiterVars, group, waiters, callVars, dropVars>>

\* Mutant: flood control returns before the deferred function is in place.
JoinFailsHolding(f) ==
    /\ flight[f].pc = "joining"
    /\ \/ \E kind \in {"error", "terminal"} : Leave(f, Failed(kind)) /\ UNCHANGED flood
       \/ flood' = TRUE /\ Finish(f, Failed("error")) /\ UNCHANGED fetchGate
    /\ UNCHANGED <<cacheVars, spaced, group, waiters, callVars, issued, dropVars>>

\* or an error; flood control is remembered for all clients.
JoinFails(f) ==
    /\ flight[f].pc = "joining"
    /\ \/ \E kind \in {"error", "terminal"} : Leave(f, Failed(kind)) /\ UNCHANGED flood
       \/ flood' = TRUE /\ Leave(f, Failed("error"))
    /\ UNCHANGED <<cacheVars, spaced, group, waiters, callVars, issued, dropVars>>

\* The credentials enter the cache, whatever Invalidate did meanwhile.
FlightStores(f) ==
    LET l == flight[f].link IN
    /\ flight[f].pc = "storing"
    /\ cache' = [cache EXCEPT ![l] = flight[f].result.cred]
    /\ recent' = recent \cup {l}
    /\ Leave(f, flight[f].result)
    /\ UNCHANGED <<authFailures, flood, spaced, group, waiters, callVars, issued, dropVars>>

\* Mutant: the result reaches only one of those who wait.
FlightTellsOne(f) ==
    LET l == flight[f].link IN
    /\ flight[f].pc = "done"
    /\ flight' = [flight EXCEPT ![f] = NotFlying]
    /\ group' = [group EXCEPT ![l] = IF @ = f THEN NoFlight ELSE @]
    /\ \/ waiters[f] = {} /\ UNCHANGED answer
       \/ \E w \in waiters[f] : answer' = [answer EXCEPT ![w] = flight[f].result]
    /\ waiters' = [waiters EXCEPT ![f] = {}]
    /\ UNCHANGED <<cacheVars, limiterVars, call, floor, issued, dropVars>>

\* singleflight hands the result to all who wait, and forgets the flight.
FlightTells(f) ==
    LET l == flight[f].link IN
    /\ flight[f].pc = "done"
    /\ flight' = [flight EXCEPT ![f] = NotFlying]
    /\ group' = [group EXCEPT ![l] = IF @ = f THEN NoFlight ELSE @]
    /\ answer' = [w \in Workers |-> IF w \in waiters[f] THEN flight[f].result ELSE answer[w]]
    /\ waiters' = [waiters EXCEPT ![f] = {}]
    /\ UNCHANGED <<cacheVars, limiterVars, call, floor, issued, dropVars>>

-----------------------------------------------------------------------------
(* Invalidate                                                              *)

\* Not enough failures yet, or an entry that is too young to be dropped
InvalidateKeeps(w) ==
    LET l == LinkOf[w] IN
    /\ \/ /\ authFailures[l] + 1 < AuthFailureThreshold
          /\ authFailures' = [authFailures EXCEPT ![l] = @ + 1]
       \/ /\ authFailures[l] + 1 = AuthFailureThreshold
          /\ cache[l] # 0 /\ l \in recent
          /\ authFailures' = [authFailures EXCEPT ![l] = 0]
    /\ UNCHANGED <<cache, recent, limiterVars, group, flight, waiters, callVars, issued, dropVars>>

\* Mutant: the minimum reuse is not looked at.
InvalidateDropsAny(w) ==
    LET l == LinkOf[w] IN
    /\ authFailures[l] + 1 = AuthFailureThreshold
    /\ authFailures' = [authFailures EXCEPT ![l] = 0]
    /\ cache' = [cache EXCEPT ![l] = 0]
    /\ dropping' = [dropping EXCEPT ![w] = cache[l]]
    /\ UNCHANGED <<recent, limiterVars, group, flight, waiters, callVars, issued, dropped>>

\* The entry goes, under p.mu ...
InvalidateDrops(w) ==
    LET l == LinkOf[w] IN
    /\ authFailures[l] + 1 = AuthFailureThreshold
    /\ cache[l] = 0 \/ l \notin recent
    /\ authFailures' = [authFailures EXCEPT ![l] = 0]
    /\ cache' = [cache EXCEPT ![l] = 0]
    /\ dropping' = [dropping EXCEPT ![w] = cache[l]]
    /\ UNCHANGED <<recent, limiterVars, group, flight, waiters, callVars, issued, dropped>>

Later(a, b) == IF a > b THEN a ELSE b

\* Mutant: the flight stays in the group.
InvalidateRemembers(w) ==
    LET l == LinkOf[w] IN
    /\ dropped' = [dropped EXCEPT ![l] = Later(@, dropping[w])]
    /\ dropping' = [dropping EXCEPT ![w] = 0]
    /\ UNCHANGED <<cacheVars, limiterVars, group, flight, waiters, callVars, issued>>

\* ... and then the flight of the link, whichever it is by now.
InvalidateForgets(w) ==
    LET l == LinkOf[w] IN
    /\ group' = [group EXCEPT ![l] = NoFlight]
    /\ dropped' = [dropped EXCEPT ![l] = Later(@, dropping[w])]
    /\ dropping' = [dropping EXCEPT ![w] = 0]
    /\ UNCHANGED <<cacheVars, limiterVars, flight, waiters, callVars, issued>>

-----------------------------------------------------------------------------
(* Time, and the contexts                                                  *)

ReuseEnds(l) ==
    /\ l \in recent
    /\ recent' = recent \ {l}
    /\ UNCHANGED <<cache, authFailures, limiterVars, group, flight, waiters, callVars, issued, dropVars>>

\* An expired entry is one that is not there: every reader tests the time.
EntryExpires(l) ==
    /\ cache[l] # 0 /\ l \notin recent
    /\ cache' = [cache EXCEPT ![l] = 0]
    /\ UNCHANGED <<recent, authFailures, limiterVars, group, flight, waiters, callVars, issued, dropVars>>

FailureAges(l) ==
    /\ authFailures[l] > 0
    /\ authFailures' = [authFailures EXCEPT ![l] = @ - 1]
    /\ UNCHANGED <<cache, recent, limiterVars, group, flight, waiters, callVars, issued, dropVars>>

CooldownEnds ==
    /\ flood
    /\ flood' = FALSE
    /\ UNCHANGED <<cacheVars, spaced, fetchGate, group, flight, waiters, callVars, issued, dropVars>>

SpacingEnds ==
    /\ ~spaced
    /\ spaced' = TRUE
    /\ UNCHANGED <<cacheVars, flood, fetchGate, group, flight, waiters, callVars, issued, dropVars>>

\* RebindNetwork of the pool: the context that the dials in progress share is done.
ContextEnds(callers) ==
    /\ done' = callers
    /\ flight' = [f \in Flights |-> [flight[f] EXCEPT !.done = (@ \/ flight[f].pc # "free")]]
    /\ UNCHANGED <<cacheVars, limiterVars, group, waiters, callVars, issued, dropVars>>

FlightStep(f) ==
    \/ FlightLooks(f) \/ FlightEnters(f) \/ FlightLooksAgain(f) \/ FlightWaits(f)
    \/ JoinSucceeds(f) \/ JoinFails(f) \/ FlightStores(f) \/ FlightTells(f)

TimeStep ==
    \/ \E l \in Links : ReuseEnds(l) \/ EntryExpires(l) \/ FailureAges(l)
    \/ CooldownEnds
    \/ SpacingEnds
=============================================================================
