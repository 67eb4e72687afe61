--------------------------- MODULE DialPath_lemmas ---------------------------
(***************************************************************************)
(* The inductive invariant of DialPath, for any workers, links and         *)
(* flights, any threshold and any capacity of the TURN gate, and why the   *)
(* steps of a flight keep it.  The other steps and the theorems are in     *)
(* DialPath_proofs.                                                        *)
(***************************************************************************)
EXTENDS DialPath, TLAPS

\* A flight in the group, and one that is waited for, flies for the right link;
\* a caller waits for one flight, and has no answer before it waits; a flight that
\* is done has a result.
Linked ==
    /\ \A l \in Links : group[l] # NoFlight =>
          flight[group[l]].pc # "free" /\ flight[group[l]].link = l
    /\ \A f \in Flights : \A w \in waiters[f] :
          /\ flight[f].pc # "free" /\ flight[f].link = LinkOf[w]
          /\ call[w] = "waiting"
          /\ \A g \in Flights : w \in waiters[g] => g = f
    /\ \A w \in Workers : call[w] \in {"out", "missed"} => answer[w] = Pending
    /\ \A f \in Flights : flight[f].pc \in {"storing", "done"} => flight[f].result.kind # "none"

(***************************************************************************)
(* What a flight found under the gate is still so while it holds the gate: *)
(* only the holder stores credentials or turns flood control on.  Young    *)
(* credentials are there.                                                  *)
(***************************************************************************)
Paced ==
    /\ \A f \in Flights : flight[f].pc \in {"spacing", "joining", "storing"} => cache[flight[f].link] = 0
    /\ \A f \in Flights : flight[f].pc \in {"spacing", "joining"} => ~flood
    /\ \A l \in recent : cache[l] # 0

\* The credentials VK has issued are the newest there are.
Numbered ==
    /\ \A l \in Links : cache[l] <= issued /\ dropped[l] <= issued
    /\ \A w \in Workers : dropping[w] <= issued /\ floor[w] <= dropped[LinkOf[w]]
    /\ \A f \in Flights : flight[f].pc = "storing" => flight[f].result.cred <= issued

\* Credentials k of link l are newer than all that were dropped, or are about to be.
NewerThanDropped(k, l) ==
    /\ k > dropped[l]
    /\ \A w \in Workers : LinkOf[w] = l => k > dropping[w]

(***************************************************************************)
(* What is in the cache or about to enter it, and what a flight of the     *)
(* group brings, was not dropped; nor was what a flight brings to those    *)
(* who wait for it, before they called Fetch.                              *)
(***************************************************************************)
Fresh ==
    /\ \A l \in Links : cache[l] # 0 => NewerThanDropped(cache[l], l)
    /\ \A f \in Flights : flight[f].pc = "storing" => NewerThanDropped(flight[f].result.cred, flight[f].link)
    /\ \A f \in Flights : flight[f].pc = "done" /\ flight[f].result.kind = "ok" =>
          /\ group[flight[f].link] = f => flight[f].result.cred > dropped[flight[f].link]
          /\ \A w \in waiters[f] : flight[f].result.cred > floor[w]

DialInv ==
    /\ TypeOK
    /\ TokenBalance
    /\ Linked
    /\ NoWaiterLeftBehind
    /\ Paced
    /\ Numbered
    /\ Fresh
    /\ DroppedStaysDropped

-----------------------------------------------------------------------------
(* Gates and results                                                       *)

LEMMA ResultTypes ==
    /\ Pending \in Results
    /\ \A k \in 0..MaxJoins : Ok(k) \in Results
    /\ \A kind \in {"error", "terminal"} : Failed(kind) \in Results
    /\ NotFlying \in [pc : FlightPcs, link : Links, done : BOOLEAN, result : Results]
<1> USE CredentialsAssumption
<1>1. 0 \in 0..MaxJoins OBVIOUS
<1>2. Pending \in Results BY <1>1 DEF Pending, Results
<1>3. (CHOOSE l \in Links : TRUE) \in Links OBVIOUS
<1>4. NotFlying \in [pc : FlightPcs, link : Links, done : BOOLEAN, result : Results]
  BY <1>2, <1>3 DEF NotFlying, FlightPcs
<1> QED BY <1>1, <1>2, <1>4 DEF Ok, Failed, Results

\* A flight f that takes the token, gives it back, or does neither
LEMMA TokenMoves ==
    ASSUME TokenBalance, NEW f \in Flights,
           \A g \in Flights \ {f} : flight'[g].pc = flight[g].pc,
           \/ /\ flight[f].pc \in GatePcs <=> flight'[f].pc \in GatePcs
              /\ fetchGate' = fetchGate
           \/ /\ flight[f].pc \notin GatePcs /\ flight'[f].pc \in GatePcs
              /\ fetchGate > 0 /\ fetchGate' = fetchGate - 1
           \/ /\ flight[f].pc \in GatePcs /\ flight'[f].pc \notin GatePcs
              /\ fetchGate' = fetchGate + 1
    PROVE  TokenBalance' /\ fetchGate' \in Nat
<1>1. CASE (flight[f].pc \in GatePcs <=> flight'[f].pc \in GatePcs) /\ fetchGate' = fetchGate
  <2>1. Holders' = Holders BY <1>1 DEF Holders
  <2> QED BY <1>1, <2>1 DEF TokenBalance
<1>2. CASE /\ flight[f].pc \notin GatePcs /\ flight'[f].pc \in GatePcs
           /\ fetchGate > 0 /\ fetchGate' = fetchGate - 1
  <2>1. Holders = {} BY <1>2 DEF TokenBalance
  <2>2. Holders' = {f} BY <1>2, <2>1 DEF Holders
  <2> QED BY <1>2, <2>1, <2>2 DEF TokenBalance
<1>3. CASE /\ flight[f].pc \in GatePcs /\ flight'[f].pc \notin GatePcs
           /\ fetchGate' = fetchGate + 1
  <2>1. f \in Holders BY <1>3 DEF Holders
  <2>2. Holders' = {} BY <1>3, <2>1 DEF Holders, TokenBalance
  <2> QED BY <1>3, <2>1, <2>2 DEF TokenBalance
<1> QED BY <1>1, <1>2, <1>3

\* The token is one: two holders are the same flight.
LEMMA OneHolder ==
    ASSUME TokenBalance, NEW f \in Flights, NEW g \in Flights,
           flight[f].pc \in GatePcs, flight[g].pc \in GatePcs
    PROVE  f = g
BY DEF TokenBalance, Holders

-----------------------------------------------------------------------------
(* The flight                                                              *)

(***************************************************************************)
(* The step of a flight that goes on to r and leaves the cache alone: what *)
(* it takes from the cache, if it is done with that, was not dropped.      *)
(***************************************************************************)
FlightGoesOn(f, r) ==
    /\ flight' = [flight EXCEPT ![f] = r]
    /\ flight[f].pc # "free" /\ r.pc \notin {"free", "storing"} /\ r.link = flight[f].link
    /\ r.pc \in {"spacing", "joining"} => cache[r.link] = 0 /\ ~flood'
    /\ r.pc = "done" => \/ r.result.kind \in {"error", "terminal"}
                        \/ r.result = Ok(cache[r.link]) /\ cache[r.link] # 0
    /\ \/ (flight[f].pc \in GatePcs <=> r.pc \in GatePcs) /\ fetchGate' = fetchGate
       \/ /\ flight[f].pc \notin GatePcs /\ r.pc \in GatePcs
          /\ fetchGate > 0 /\ fetchGate' = fetchGate - 1
       \/ flight[f].pc \in GatePcs /\ r.pc \notin GatePcs /\ fetchGate' = fetchGate + 1
    /\ flood' \in BOOLEAN /\ spaced' \in BOOLEAN
    /\ flood' => flood \/ flight[f].pc \in GatePcs
    /\ UNCHANGED <<cacheVars, group, waiters, callVars, issued, dropVars>>

LEMMA FlightMoves ==
    ASSUME DialInv, UNCHANGED dialVars, NEW f \in Flights,
           NEW r \in [pc : FlightPcs, link : Links, done : BOOLEAN, result : Results],
           FlightGoesOn(f, r)
    PROVE  DialInv'
<1>0. TypeOK /\ TokenBalance /\ Linked /\ NoWaiterLeftBehind /\ Paced /\ Numbered /\ Fresh /\ DroppedStaysDropped
  BY DEF DialInv
<1> USE <1>0
<1>1. /\ flight'[f] = r /\ \A g \in Flights \ {f} : flight'[g] = flight[g]
      /\ flight' \in [Flights -> [pc : FlightPcs, link : Links, done : BOOLEAN, result : Results]]
  BY DEF TypeOK, CredentialsTypeOK, FlightGoesOn
<1>2. UNCHANGED <<cache, recent, authFailures, group, waiters, call, answer, floor, issued, dropping, dropped, done, stage, turnGate>>
  BY DEF FlightGoesOn, cacheVars, callVars, dropVars, dialVars
<1>3. /\ flight[f].pc # "free" /\ r.pc \notin {"free", "storing"} /\ r.link = flight[f].link
      /\ r.pc \in {"spacing", "joining"} => cache[r.link] = 0 /\ ~flood'
      /\ r.pc = "done" => \/ r.result.kind \in {"error", "terminal"}
                          \/ r.result = Ok(cache[r.link]) /\ cache[r.link] # 0
  BY DEF FlightGoesOn
<1>4. flood' \in BOOLEAN /\ spaced' \in BOOLEAN /\ (flood' => flood \/ flight[f].pc \in GatePcs)
  BY DEF FlightGoesOn
<1>5. TokenBalance' /\ fetchGate' \in Nat
  <2>1. \A g \in Flights \ {f} : flight'[g].pc = flight[g].pc BY <1>1
  <2>2. \/ (flight[f].pc \in GatePcs <=> flight'[f].pc \in GatePcs) /\ fetchGate' = fetchGate
        \/ /\ flight[f].pc \notin GatePcs /\ flight'[f].pc \in GatePcs
           /\ fetchGate > 0 /\ fetchGate' = fetchGate - 1
        \/ flight[f].pc \in GatePcs /\ flight'[f].pc \notin GatePcs /\ fetchGate' = fetchGate + 1
    BY <1>1 DEF FlightGoesOn
  <2> QED BY <2>1, <2>2, TokenMoves
<1>7. TypeOK' BY <1>1, <1>2, <1>4, <1>5 DEF TypeOK, CredentialsTypeOK
<1>8. Linked'
  <2>1. r.pc = "done" => r.result.kind # "none" BY <1>3 DEF Ok
  <2>2. \A l \in Links : group[l] # NoFlight => group[l] \in Flights BY DEF TypeOK, CredentialsTypeOK
  <2>3. \A g \in Flights : flight'[g].pc # "free" <=> flight[g].pc # "free" BY <1>1, <1>3
  <2>4. \A g \in Flights : flight'[g].link = flight[g].link BY <1>1, <1>3
  <2>5. \A g \in Flights : flight'[g].pc \in {"storing", "done"} => flight'[g].result.kind # "none"
    BY <1>1, <1>3, <2>1 DEF Linked
  <2> QED BY <1>2, <2>2, <2>3, <2>4, <2>5 DEF Linked
<1>9. NoWaiterLeftBehind' BY <1>1, <1>2, <1>3 DEF NoWaiterLeftBehind
<1>10. Paced'
  <2>1. \A g \in Flights \ {f} : flight[g].pc \in {"spacing", "joining"} => ~flood'
    BY <1>4, OneHolder DEF Paced, GatePcs
  <2>2. \A g \in Flights : flight'[g].pc \in {"spacing", "joining", "storing"} => cache[flight'[g].link] = 0
    BY <1>1, <1>3 DEF Paced
  <2>3. \A g \in Flights : flight'[g].pc \in {"spacing", "joining"} => ~flood' BY <1>1, <1>3, <2>1
  <2> QED BY <1>2, <2>2, <2>3 DEF Paced
<1>11. Numbered' BY <1>1, <1>2, <1>3 DEF Numbered
<1>12. Fresh'
  <2>1. ASSUME r.pc = "done", r.result.kind = "ok"
        PROVE  r.result.cred > dropped[r.link] /\ \A w \in waiters[f] : r.result.cred > floor[w]
    <3>1. r.result.cred = cache[r.link] /\ cache[r.link] # 0 BY <1>3, <2>1 DEF Ok
    <3>2. cache[r.link] > dropped[r.link] BY <3>1 DEF Fresh, NewerThanDropped
    <3>3. \A w \in waiters[f] : w \in Workers /\ LinkOf[w] = r.link /\ floor[w] <= dropped[r.link]
      BY <1>3 DEF Linked, Numbered, TypeOK, CredentialsTypeOK
    <3>4. /\ cache[r.link] \in Nat /\ dropped[r.link] \in Nat
          /\ \A w \in Workers : floor[w] \in Nat
      BY DEF TypeOK, CredentialsTypeOK
    <3> QED BY <3>1, <3>2, <3>3, <3>4
  <2>2. \A g \in Flights : flight'[g].pc = "storing" => NewerThanDropped(flight[g].result.cred, flight[g].link)'
    BY <1>1, <1>2, <1>3 DEF Fresh, NewerThanDropped
  <2>3. \A l \in Links : cache'[l] # 0 => NewerThanDropped(cache[l], l)' BY <1>2 DEF Fresh, NewerThanDropped
  <2>4. \A g \in Flights : flight'[g].pc = "done" /\ flight'[g].result.kind = "ok" =>
          /\ group'[flight'[g].link] = g => flight'[g].result.cred > dropped'[flight'[g].link]
          /\ \A w \in waiters'[g] : flight'[g].result.cred > floor'[w]
    BY <1>1, <1>2, <2>1 DEF Fresh
  <2> QED BY <2>2, <2>3, <2>4 DEF Fresh
<1>13. DroppedStaysDropped' BY <1>2 DEF DroppedStaysDropped
<1> QED BY <1>5, <1>7, <1>8, <1>9, <1>10, <1>11, <1>12, <1>13 DEF DialInv

LEMMA FlightLooksInv ==
    ASSUME DialInv, NEW f \in Flights, UNCHANGED dialVars,
           FlightLooks(f) \/ FlightEnters(f) \/ FlightLooksAgain(f) \/ FlightWaits(f) \/ JoinFails(f)
    PROVE  DialInv'
<1> DEFINE l == flight[f].link
           At(place) == [flight[f] EXCEPT !.pc = place]
           With(result) == [flight[f] EXCEPT !.pc = "done", !.result = result]
           FlightType == [pc : FlightPcs, link : Links, done : BOOLEAN, result : Results]
<1> USE CredentialsAssumption DEF DialInv
<1>1. /\ flight \in [Flights -> FlightType] /\ flight[f] \in FlightType /\ l \in Links /\ cache[l] \in 0..MaxJoins
      /\ flood \in BOOLEAN /\ spaced \in BOOLEAN
  BY DEF TypeOK, CredentialsTypeOK
<1>2. ASSUME NEW place \in FlightPcs
      PROVE  At(place) \in FlightType /\ At(place).pc = place /\ At(place).link = l
  BY <1>1
<1>3. ASSUME NEW result \in Results
      PROVE  /\ With(result) \in FlightType /\ With(result).pc = "done"
             /\ With(result).link = l /\ With(result).result = result
  BY <1>1, Zenon DEF FlightPcs
<1>4. ASSUME NEW place, Goto(f, place) PROVE flight' = [flight EXCEPT ![f] = At(place)]
  BY <1>1, <1>4 DEF Goto
<1>5. ASSUME NEW result, Finish(f, result) PROVE flight' = [flight EXCEPT ![f] = With(result)]
  BY <1>1, <1>5, Zenon DEF Finish
<1>6. Ok(cache[l]) \in Results /\ \A kind \in {"error", "terminal"} : Failed(kind) \in Results /\ Failed(kind).kind = kind
  BY <1>1, ResultTypes DEF Failed
<1>7. UNCHANGED <<cacheVars, group, waiters, callVars, issued, dropVars>>
  BY DEF FlightLooks, FlightEnters, FlightLooksAgain, FlightWaits, JoinFails
<1> HIDE DEF At, With, DialInv, FlightType
<1>8. CASE FlightLooks(f)
  <2>1. UNCHANGED <<fetchGate, flood, spaced>> /\ flight[f].pc = "begin" BY <1>8 DEF FlightLooks, limiterVars
  <2>2. CASE cache[l] # 0 /\ Finish(f, Ok(cache[l]))
    BY <1>1, <1>3, <1>5, <1>6, <1>7, <2>1, <2>2, FlightMoves DEF FlightGoesOn, GatePcs, FlightType
  <2>3. CASE Goto(f, "gate")
    BY <1>1, <1>2, <1>4, <1>7, <2>1, <2>3, FlightMoves DEF FlightGoesOn, GatePcs, FlightPcs, FlightType
  <2> QED BY <1>8, <2>2, <2>3 DEF FlightLooks
<1>9. CASE FlightEnters(f)
  <2>1. UNCHANGED <<flood, spaced>> /\ flight[f].pc = "gate" BY <1>9 DEF FlightEnters
  <2>2. CASE fetchGate > 0 /\ fetchGate' = fetchGate - 1 /\ Goto(f, "checking")
    BY <1>1, <1>2, <1>4, <1>7, <2>1, <2>2, FlightMoves DEF FlightGoesOn, GatePcs, FlightPcs, FlightType
  <2>3. CASE Finish(f, Failed("error")) /\ UNCHANGED fetchGate
    BY <1>1, <1>3, <1>5, <1>6, <1>7, <2>1, <2>3, FlightMoves DEF FlightGoesOn, GatePcs, FlightType
  <2> QED BY <1>9, <2>2, <2>3 DEF FlightEnters
<1>10. CASE FlightLooksAgain(f)
  <2>1. UNCHANGED <<flood, spaced>> /\ flight[f].pc = "checking" BY <1>10 DEF FlightLooksAgain
  <2>2. CASE cache[l] # 0 /\ Leave(f, Ok(cache[l]))
    BY <1>1, <1>3, <1>5, <1>6, <1>7, <2>1, <2>2, FlightMoves DEF FlightGoesOn, GatePcs, FlightType, Leave
  <2>3. CASE Leave(f, Failed("error"))
    BY <1>1, <1>3, <1>5, <1>6, <1>7, <2>1, <2>3, FlightMoves DEF FlightGoesOn, GatePcs, FlightType, Leave
  <2>4. CASE cache[l] = 0 /\ ~flood /\ Goto(f, "spacing") /\ UNCHANGED fetchGate
    BY <1>1, <1>2, <1>4, <1>7, <2>1, <2>4, FlightMoves DEF FlightGoesOn, GatePcs, FlightPcs, FlightType
  <2> QED BY <1>10, <2>2, <2>3, <2>4 DEF FlightLooksAgain
<1>11. CASE FlightWaits(f)
  <2>1. UNCHANGED flood /\ flight[f].pc = "spacing" BY <1>11 DEF FlightWaits
  <2>2. cache[l] = 0 /\ ~flood BY <2>1 DEF Paced, DialInv
  <2>3. CASE spaced' = FALSE /\ Goto(f, "joining") /\ UNCHANGED fetchGate
    <3>1. At("joining") \in FlightType /\ At("joining").pc = "joining" /\ At("joining").link = l BY <1>2 DEF FlightPcs
    <3>2. flight' = [flight EXCEPT ![f] = At("joining")] BY <1>4, <2>3
    <3>3. FlightGoesOn(f, At("joining")) BY <1>1, <1>7, <2>1, <2>2, <2>3, <3>1, <3>2, Zenon DEF FlightGoesOn, GatePcs
    <3> QED BY <3>1, <3>3, FlightMoves DEF FlightType
  <2>4. CASE Leave(f, Failed("error")) /\ UNCHANGED spaced
    BY <1>1, <1>3, <1>5, <1>6, <1>7, <2>1, <2>4, FlightMoves DEF FlightGoesOn, GatePcs, FlightType, Leave
  <2> QED BY <1>11, <2>3, <2>4, Zenon DEF FlightWaits
<1>12. CASE JoinFails(f)
  <2>1. PICK kind \in {"error", "terminal"} : Leave(f, Failed(kind)) BY <1>12 DEF JoinFails
  <2>2. UNCHANGED spaced /\ flood' \in BOOLEAN /\ flight[f].pc = "joining" BY <1>1, <1>12, Zenon DEF JoinFails
  <2> QED BY <1>1, <1>3, <1>5, <1>6, <1>7, <2>1, <2>2, FlightMoves DEF FlightGoesOn, GatePcs, FlightType, Leave
<1> QED BY <1>8, <1>9, <1>10, <1>11, <1>12

\* What VK issues is newer than all that was ever dropped.
LEMMA JoinSucceedsInv ==
    ASSUME DialInv, NEW f \in Flights, JoinSucceeds(f), UNCHANGED dialVars
    PROVE  DialInv'
<1> DEFINE l == flight[f].link
           FlightType == [pc : FlightPcs, link : Links, done : BOOLEAN, result : Results]
<1>0. TypeOK /\ TokenBalance /\ Linked /\ NoWaiterLeftBehind /\ Paced /\ Numbered /\ Fresh /\ DroppedStaysDropped
  BY DEF DialInv
<1> USE <1>0
<1>1. /\ flight[f].pc = "joining" /\ issued < MaxJoins /\ issued' = issued + 1
      /\ UNCHANGED <<cache, recent, authFailures, flood, spaced, fetchGate, group, waiters, call, answer, floor, dropping, dropped, done, stage, turnGate>>
  BY DEF JoinSucceeds, dialVars, cacheVars, limiterVars, callVars, dropVars
<1>a. flight' = [flight EXCEPT ![f].pc = "storing", ![f].result = Ok(issued + 1)]
  BY DEF JoinSucceeds
<1>2. /\ flight \in [Flights -> FlightType] /\ flight[f] \in FlightType /\ l \in Links
      /\ issued \in 0..MaxJoins /\ issued + 1 \in 0..MaxJoins
  BY <1>1, CredentialsAssumption DEF TypeOK, CredentialsTypeOK
<1>3. /\ flight'[f].pc = "storing" /\ flight'[f].link = l /\ flight'[f].result = Ok(issued + 1)
      /\ \A g \in Flights \ {f} : flight'[g] = flight[g]
  BY <1>a, <1>2
<1>5. TokenBalance' BY <1>1, <1>3, TokenMoves DEF GatePcs
<1>6. TypeOK'
  <2>1. Ok(issued + 1) \in Results BY <1>2, ResultTypes
  <2>2. flight' \in [Flights -> FlightType] BY <1>a, <1>2, <2>1, Zenon DEF FlightPcs
  <2> QED BY <1>1, <1>2, <2>2 DEF TypeOK, CredentialsTypeOK
<1>7. Linked'
  <2>1. \A m \in Links : group[m] # NoFlight => group[m] \in Flights BY DEF TypeOK, CredentialsTypeOK
  <2>2. \A g \in Flights : flight'[g].pc # "free" <=> flight[g].pc # "free" BY <1>1, <1>3
  <2>3. \A g \in Flights : flight'[g].link = flight[g].link BY <1>3
  <2>4. \A g \in Flights : flight'[g].pc \in {"storing", "done"} => flight'[g].result.kind # "none"
    BY <1>3 DEF Linked, Ok
  <2> QED BY <1>1, <2>1, <2>2, <2>3, <2>4 DEF Linked
<1>8. NoWaiterLeftBehind' BY <1>1, <1>3 DEF NoWaiterLeftBehind
<1>9. Paced' BY <1>1, <1>3 DEF Paced
<1>10. Ok(issued + 1).cred = issued + 1 BY DEF Ok
<1>11. /\ \A k \in Links : cache[k] \in Nat /\ dropped[k] \in Nat /\ cache[k] <= issued /\ dropped[k] <= issued
       /\ \A w \in Workers : dropping[w] \in Nat /\ dropping[w] <= issued
       /\ issued \in Nat
  BY DEF TypeOK, CredentialsTypeOK, Numbered
<1>b. UNCHANGED <<cache, floor, dropping, dropped>> /\ issued' = issued + 1 BY <1>1
<1>12. Numbered'
  <2>1. /\ \A k \in Links : cache'[k] <= issued' /\ dropped'[k] <= issued'
        /\ \A w \in Workers : dropping'[w] <= issued'
    BY <1>b, <1>11
  <2>2. \A w \in Workers : floor'[w] <= dropped'[LinkOf[w]] BY <1>b DEF Numbered
  <2>3. ASSUME NEW g \in Flights, flight'[g].pc = "storing" PROVE flight'[g].result.cred <= issued'
    <3>1. CASE g = f BY <1>3, <1>10, <1>11, <1>b, <3>1
    <3>2. CASE g # f
      <4>1. flight[g].result.cred \in Nat BY DEF TypeOK, CredentialsTypeOK, Results
      <4>2. flight'[g] = flight[g] BY <1>3, <3>2
      <4>3. flight[g].result.cred <= issued BY <2>3, <4>2 DEF Numbered
      <4> QED BY <1>11, <1>b, <4>1, <4>2, <4>3
    <3> QED BY <3>1, <3>2
  <2> QED BY <2>1, <2>2, <2>3 DEF Numbered
<1>13. NewerThanDropped(issued + 1, l)
  <2>1. l \in Links BY <1>2
  <2> QED BY <1>11, <2>1 DEF NewerThanDropped
<1>14. Fresh'
  <2>1. \A m \in Links : cache'[m] # 0 => NewerThanDropped(cache[m], m)' BY <1>1 DEF Fresh, NewerThanDropped
  <2>2. \A g \in Flights \ {f} : flight'[g].pc = "storing" => NewerThanDropped(flight[g].result.cred, flight[g].link)'
    BY <1>1, <1>3 DEF Fresh, NewerThanDropped
  <2>3. NewerThanDropped(flight[f].result.cred, flight[f].link)' BY <1>1, <1>3, <1>10, <1>13 DEF NewerThanDropped
  <2>4. \A g \in Flights : flight'[g].pc = "done" => g # f /\ flight'[g] = flight[g] BY <1>3
  <2> QED BY <1>1, <2>1, <2>2, <2>3, <2>4 DEF Fresh
<1>15. DroppedStaysDropped' BY <1>1 DEF DroppedStaysDropped
<1> QED BY <1>5, <1>6, <1>7, <1>8, <1>9, <1>12, <1>14, <1>15 DEF DialInv

\* The flight that stores is the only one under the gate.
LEMMA FlightStoresInv ==
    ASSUME DialInv, NEW f \in Flights, FlightStores(f), UNCHANGED dialVars
    PROVE  DialInv'
<1> DEFINE l == flight[f].link
           k == flight[f].result.cred
           FlightType == [pc : FlightPcs, link : Links, done : BOOLEAN, result : Results]
<1>0. TypeOK /\ TokenBalance /\ Linked /\ NoWaiterLeftBehind /\ Paced /\ Numbered /\ Fresh /\ DroppedStaysDropped
  BY DEF DialInv
<1> USE <1>0
<1>1. /\ flight[f].pc = "storing" /\ cache' = [cache EXCEPT ![l] = k] /\ recent' = recent \cup {l}
      /\ fetchGate' = fetchGate + 1
      /\ UNCHANGED <<authFailures, flood, spaced, group, waiters, call, answer, floor, issued, dropping, dropped, done, stage, turnGate>>
  BY DEF FlightStores, Leave, dialVars, callVars, dropVars
<1>a. flight' = [flight EXCEPT ![f].pc = "done", ![f].result = flight[f].result]
  BY DEF FlightStores, Leave, Finish
<1>2. /\ flight \in [Flights -> FlightType] /\ flight[f] \in FlightType /\ l \in Links /\ k \in 0..MaxJoins
      /\ cache \in [Links -> 0..MaxJoins]
  BY DEF TypeOK, CredentialsTypeOK, Results
<1>3. /\ flight'[f].pc = "done" /\ flight'[f].link = l /\ flight'[f].result = flight[f].result
      /\ \A g \in Flights \ {f} : flight'[g] = flight[g]
      /\ cache'[l] = k /\ \A m \in Links \ {l} : cache'[m] = cache[m]
  BY <1>1, <1>a, <1>2
<1>4. /\ NewerThanDropped(k, l) /\ k <= issued /\ flight[f].result.kind # "none"
  BY <1>1 DEF Fresh, Numbered, Linked
<1>5. dropped[l] \in Nat /\ \A w \in Workers : floor[w] \in Nat BY <1>2 DEF TypeOK, CredentialsTypeOK
<1>6. k # 0 BY <1>2, <1>4, <1>5 DEF NewerThanDropped
<1>7. \A g \in Flights \ {f} : flight[g].pc \notin GatePcs BY <1>1, OneHolder DEF GatePcs
<1>9. TokenBalance' /\ fetchGate' \in Nat BY <1>1, <1>3, TokenMoves DEF GatePcs
<1>10. TypeOK'
  <2>1. cache' \in [Links -> 0..MaxJoins] /\ recent' \subseteq Links
    BY <1>1, <1>2 DEF TypeOK, CredentialsTypeOK
  <2>2. flight' \in [Flights -> FlightType] BY <1>a, <1>2, Zenon DEF FlightPcs
  <2> QED BY <1>1, <1>9, <2>1, <2>2 DEF TypeOK, CredentialsTypeOK
<1>11. Linked'
  <2>1. \A m \in Links : group[m] # NoFlight => group[m] \in Flights BY DEF TypeOK, CredentialsTypeOK
  <2>2. \A g \in Flights : flight'[g].pc # "free" <=> flight[g].pc # "free" BY <1>1, <1>3
  <2>3. \A g \in Flights : flight'[g].link = flight[g].link BY <1>3
  <2>4. \A g \in Flights : flight'[g].pc \in {"storing", "done"} => flight'[g].result.kind # "none"
    BY <1>3, <1>4 DEF Linked
  <2>5. UNCHANGED <<group, waiters, call, answer>> BY <1>1
  <2> QED BY <2>1, <2>2, <2>3, <2>4, <2>5 DEF Linked
<1>12. NoWaiterLeftBehind' BY <1>1, <1>3 DEF NoWaiterLeftBehind
<1>13. Paced'
  <2>1. \A m \in recent : m \in Links BY DEF TypeOK, CredentialsTypeOK
  <2>2. \A m \in recent' : cache'[m] # 0 BY <1>1, <1>3, <1>6, <2>1 DEF Paced
  <2>3. \A g \in Flights : flight'[g].pc \notin GatePcs BY <1>3, <1>7 DEF GatePcs
  <2> QED BY <2>2, <2>3 DEF Paced, GatePcs
<1>14. Numbered' BY <1>1, <1>3, <1>4, <1>7 DEF Numbered, GatePcs
<1>15. Fresh'
  <2>1. \A w \in waiters[f] : w \in Workers /\ LinkOf[w] = l /\ floor[w] <= dropped[l]
    BY DEF Linked, Numbered, TypeOK, CredentialsTypeOK
  <2>2. k > dropped[l] /\ \A w \in waiters[f] : k > floor[w]
    BY <1>2, <1>4, <1>5, <2>1 DEF NewerThanDropped
  <2>3. \A m \in Links : cache'[m] # 0 => NewerThanDropped(cache[m], m)'
    BY <1>1, <1>3, <1>4 DEF Fresh, NewerThanDropped
  <2>4. \A g \in Flights : flight'[g].pc # "storing" BY <1>3, <1>7 DEF GatePcs
  <2>5. \A g \in Flights : flight'[g].pc = "done" /\ flight'[g].result.kind = "ok" =>
          /\ group'[flight'[g].link] = g => flight'[g].result.cred > dropped'[flight'[g].link]
          /\ \A w \in waiters'[g] : flight'[g].result.cred > floor'[w]
    BY <1>1, <1>3, <2>2 DEF Fresh
  <2> QED BY <2>3, <2>4, <2>5 DEF Fresh
<1>16. DroppedStaysDropped' BY <1>1 DEF DroppedStaysDropped
<1> QED BY <1>9, <1>10, <1>11, <1>12, <1>13, <1>14, <1>15, <1>16 DEF DialInv

LEMMA FlightTellsInv ==
    ASSUME DialInv, NEW f \in Flights, FlightTells(f), UNCHANGED dialVars
    PROVE  DialInv'
<1> DEFINE l == flight[f].link
           FlightType == [pc : FlightPcs, link : Links, done : BOOLEAN, result : Results]
<1>0. TypeOK /\ TokenBalance /\ Linked /\ NoWaiterLeftBehind /\ Paced /\ Numbered /\ Fresh /\ DroppedStaysDropped
  BY DEF DialInv
<1> USE <1>0
<1>1. /\ flight[f].pc = "done" /\ flight' = [flight EXCEPT ![f] = NotFlying]
      /\ group' = [group EXCEPT ![l] = IF @ = f THEN NoFlight ELSE @]
      /\ answer' = [w \in Workers |-> IF w \in waiters[f] THEN flight[f].result ELSE answer[w]]
      /\ waiters' = [waiters EXCEPT ![f] = {}]
      /\ UNCHANGED <<cache, recent, authFailures, flood, spaced, fetchGate, call, floor, issued, dropping, dropped, done, stage, turnGate>>
  BY DEF FlightTells, dialVars, cacheVars, limiterVars, dropVars
<1>2. /\ flight \in [Flights -> FlightType] /\ flight[f] \in FlightType /\ l \in Links
      /\ waiters \in [Flights -> SUBSET Workers] /\ group \in [Links -> Flights \cup {NoFlight}]
  BY DEF TypeOK, CredentialsTypeOK
<1>3. /\ flight'[f].pc = "free" /\ \A g \in Flights \ {f} : flight'[g] = flight[g]
      /\ waiters'[f] = {} /\ \A g \in Flights \ {f} : waiters'[g] = waiters[g]
      /\ \A m \in Links : group'[m] # f /\ (group'[m] # NoFlight => group'[m] = group[m])
  <2>a. f # NoFlight BY CredentialsAssumption
  <2>1. \A m \in Links \ {l} : group[m] # f BY <2>a DEF Linked
  <2> QED BY <1>1, <1>2, <2>1, CredentialsAssumption DEF NotFlying
<1>5. TokenBalance' BY <1>1, <1>3, TokenMoves DEF GatePcs
<1>6. TypeOK'
  <2>1. /\ flight' \in [Flights -> FlightType] /\ waiters' \in [Flights -> SUBSET Workers]
        /\ group' \in [Links -> Flights \cup {NoFlight}]
    BY <1>1, <1>2, ResultTypes
  <2>2. answer' \in [Workers -> Results] BY <1>1, <1>2 DEF TypeOK, CredentialsTypeOK
  <2> QED BY <1>1, <2>1, <2>2 DEF TypeOK, CredentialsTypeOK
<1>7. \A w \in Workers : w \in waiters[f] => call[w] = "waiting" BY DEF Linked
<1>a. UNCHANGED <<cache, recent, flood, call, floor, issued, dropping, dropped>> BY <1>1
<1>8. Linked'
  <2>1. ASSUME NEW m \in Links, group'[m] # NoFlight
        PROVE  flight'[group'[m]].pc # "free" /\ flight'[group'[m]].link = m
    <3>1. group'[m] = group[m] /\ group[m] # f BY <1>3, <2>1
    <3>2. group[m] \in Flights BY <1>2, <2>1, <3>1
    <3>3. flight'[group[m]] = flight[group[m]] BY <1>3, <3>1, <3>2
    <3> QED BY <2>1, <3>1, <3>3 DEF Linked
  <2>2. ASSUME NEW g \in Flights, NEW w \in waiters'[g]
        PROVE  /\ flight'[g].pc # "free" /\ flight'[g].link = LinkOf[w]
               /\ call'[w] = "waiting" /\ \A h \in Flights : w \in waiters'[h] => h = g
    <3>1. flight'[g] = flight[g] /\ w \in waiters[g] BY <1>3
    <3>2. \A h \in Flights : w \in waiters'[h] => w \in waiters[h] BY <1>3
    <3> QED BY <1>a, <3>1, <3>2 DEF Linked
  <2>3. \A w \in Workers : call'[w] \in {"out", "missed"} => answer'[w] = Pending
    BY <1>1, <1>7 DEF Linked
  <2>4. \A g \in Flights : flight'[g].pc \in {"storing", "done"} => flight'[g].result.kind # "none"
    BY <1>3 DEF Linked
  <2> QED BY <2>1, <2>2, <2>3, <2>4 DEF Linked
<1>9. NoWaiterLeftBehind'
  <2>1. flight[f].result # Pending BY <1>1 DEF Linked, Pending
  <2> QED BY <1>1, <1>3, <2>1 DEF NoWaiterLeftBehind
<1>10. Paced' /\ Numbered'
  <2>1. Paced' BY <1>a, <1>3 DEF Paced
  <2>2. Numbered' BY <1>a, <1>3 DEF Numbered
  <2> QED BY <2>1, <2>2
<1>11. Fresh'
  <2>1. \A m \in Links : cache'[m] # 0 => NewerThanDropped(cache[m], m)' BY <1>a DEF Fresh, NewerThanDropped
  <2>2. \A g \in Flights : flight'[g].pc = "storing" => NewerThanDropped(flight[g].result.cred, flight[g].link)'
    <3>1. \A g \in Flights : flight'[g].pc = "storing" => g # f /\ flight'[g] = flight[g] BY <1>3
    <3> QED BY <1>a, <3>1 DEF Fresh, NewerThanDropped
  <2>3. ASSUME NEW g \in Flights, flight'[g].pc = "done", flight'[g].result.kind = "ok"
        PROVE  /\ group'[flight'[g].link] = g => flight'[g].result.cred > dropped'[flight'[g].link]
               /\ \A w \in waiters'[g] : flight'[g].result.cred > floor'[w]
    <3>1. g # f /\ flight'[g] = flight[g] /\ waiters'[g] = waiters[g] BY <1>3, <2>3
    <3>2. flight[g].link \in Links BY <1>2
    <3>3. group'[flight[g].link] = g => group[flight[g].link] = g BY <1>3, <3>2, CredentialsAssumption
    <3> QED BY <1>1, <2>3, <3>1, <3>3 DEF Fresh
  <2> QED BY <2>1, <2>2, <2>3 DEF Fresh
<1>12. DroppedStaysDropped'
  <2>1. \A w \in waiters[f] : flight[f].result.kind = "ok" => flight[f].result.cred > floor[w]
    BY <1>1 DEF Fresh
  <2> QED BY <1>1, <2>1 DEF DroppedStaysDropped
<1> QED BY <1>5, <1>6, <1>8, <1>9, <1>10, <1>11, <1>12 DEF DialInv
=============================================================================
