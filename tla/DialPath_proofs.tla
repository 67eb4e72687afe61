--------------------------- MODULE DialPath_proofs ---------------------------
(***************************************************************************)
(* The five safety properties of DialPath hold for any workers, links      *)
(* and flights, any threshold and any capacity of the TURN gate.           *)
(***************************************************************************)
EXTENDS DialPath_lemmas, FiniteSetTheorems

-----------------------------------------------------------------------------
(* The dial                                                                *)

\* What is said of the provider and of the calls does not depend on the dials.
LEMMA CredentialsKept ==
    ASSUME DialInv, UNCHANGED credVars
    PROVE  /\ Linked' /\ NoWaiterLeftBehind' /\ Paced' /\ Numbered' /\ Fresh' /\ DroppedStaysDropped'
           /\ Holders' = Holders /\ fetchGate' = fetchGate
           /\ done' \subseteq Workers => CredentialsTypeOK'
<1> USE DEF DialInv, credVars, cacheVars, limiterVars, callVars, dropVars
<1>1. Linked' /\ NoWaiterLeftBehind' BY DEF Linked, NoWaiterLeftBehind
<1>2. Paced' /\ Numbered' BY DEF Paced, Numbered
<1>3. Fresh' /\ DroppedStaysDropped' BY DEF Fresh, NewerThanDropped, DroppedStaysDropped
<1>4. Holders' = Holders BY DEF Holders
<1>5. done' \subseteq Workers => CredentialsTypeOK' BY DEF TypeOK, CredentialsTypeOK
<1> QED BY <1>1, <1>2, <1>3, <1>4, <1>5

LEMMA PermitStepInv ==
    ASSUME DialInv, NEW w \in Workers,
           DialBegins(w) \/ AcquirePermit(w) \/ AwaitSpacing(w) \/ Allocates(w)
    PROVE  DialInv'
<1>1. UNCHANGED credVars BY DEF DialBegins, AcquirePermit, AwaitSpacing, Allocates
<1>2. done' \subseteq Workers /\ stage' \in [Workers -> Stages] /\ turnGate' \in Int
  BY DEF DialInv, TypeOK, CredentialsTypeOK, DialBegins, AcquirePermit, AwaitSpacing, Allocates, Move, Returns, Stages
<1>3. TokenBalance' BY <1>1, CredentialsKept DEF DialInv, TokenBalance
<1>4. TypeOK' BY <1>1, <1>2, CredentialsKept DEF TypeOK
<1> QED BY <1>1, <1>3, <1>4, CredentialsKept DEF DialInv

\* A step that leaves the gate and the places of the flights alone keeps TokenBalance.
LEMMA BalanceKept ==
    ASSUME TokenBalance, UNCHANGED fetchGate, \A f \in Flights : flight'[f].pc = flight[f].pc
    PROVE  TokenBalance'
<1>1. Holders' = Holders BY DEF Holders
<1> QED BY <1>1 DEF TokenBalance

-----------------------------------------------------------------------------
(* Fetch                                                                   *)

LEMMA FetchLooksInv ==
    ASSUME DialInv, NEW w \in Workers, FetchLooks(w), UNCHANGED dialVars
    PROVE  DialInv'
<1> DEFINE l == LinkOf[w]
<1>0. TypeOK /\ TokenBalance /\ Linked /\ NoWaiterLeftBehind /\ Paced /\ Numbered /\ Fresh /\ DroppedStaysDropped
  BY DEF DialInv
<1> USE <1>0
<1>1. l \in Links BY CredentialsAssumption
<1>2. /\ call[w] = "out" /\ floor' = [floor EXCEPT ![w] = dropped[l]]
      /\ UNCHANGED <<cache, recent, authFailures, flood, spaced, fetchGate, group, flight, waiters, issued, dropping, dropped, done, stage, turnGate>>
  BY DEF FetchLooks, dialVars, cacheVars, limiterVars, dropVars
<1>3. \/ /\ cache[l] # 0 /\ call' = [call EXCEPT ![w] = "returned"]
         /\ answer' = [answer EXCEPT ![w] = Ok(cache[l])]
      \/ call' = [call EXCEPT ![w] = "missed"] /\ UNCHANGED answer
  BY DEF FetchLooks, Return, dialVars, cacheVars, limiterVars, dropVars
<1>4. TokenBalance' BY <1>2, BalanceKept
<1>5. TypeOK'
  <2>1. Ok(cache[l]) \in Results BY <1>1, ResultTypes DEF TypeOK, CredentialsTypeOK
  <2>2. floor' \in [Workers -> 0..MaxJoins] BY <1>1, <1>2 DEF TypeOK, CredentialsTypeOK
  <2>3. /\ call' \in [Workers -> {"out", "missed", "waiting", "returned"}]
        /\ answer' \in [Workers -> Results]
    BY <1>3, <2>1 DEF TypeOK, CredentialsTypeOK
  <2> QED BY <1>2, <2>2, <2>3 DEF TypeOK, CredentialsTypeOK
<1>6. Linked'
  <2>1. \A f \in Flights : w \notin waiters[f] BY <1>2 DEF Linked
  <2> QED BY <1>2, <1>3, <2>1 DEF Linked, TypeOK, CredentialsTypeOK
<1>7. NoWaiterLeftBehind' BY <1>2, <1>3 DEF NoWaiterLeftBehind, TypeOK, CredentialsTypeOK
<1>8. Paced' /\ Numbered' BY <1>1, <1>2 DEF Paced, Numbered, TypeOK, CredentialsTypeOK
<1>9. Fresh'
  <2>1. \A f \in Flights : w \notin waiters[f] BY <1>2 DEF Linked
  <2> QED BY <1>2, <2>1 DEF Fresh, NewerThanDropped, TypeOK, CredentialsTypeOK
<1>10. DroppedStaysDropped'
  <2>1. cache[l] # 0 => cache[l] > dropped[l] BY <1>1 DEF Fresh, NewerThanDropped
  <2>2. answer[w] = Pending BY <1>2 DEF Linked
  <2> QED BY <1>1, <1>2, <1>3, <2>1, <2>2 DEF DroppedStaysDropped, TypeOK, CredentialsTypeOK, Ok, Pending
<1> QED BY <1>4, <1>5, <1>6, <1>7, <1>8, <1>9, <1>10 DEF DialInv

\* A caller comes back with an error, or with the answer of its flight.
LEMMA FetchEndsInv ==
    ASSUME DialInv, NEW w \in Workers, FetchRefused(w) \/ FetchReturns(w), UNCHANGED dialVars
    PROVE  DialInv'
<1>0. TypeOK /\ TokenBalance /\ Linked /\ NoWaiterLeftBehind /\ Paced /\ Numbered /\ Fresh /\ DroppedStaysDropped
  BY DEF DialInv
<1> USE <1>0
<1>1. /\ call[w] \in {"missed", "waiting"} /\ call' = [call EXCEPT ![w] = "returned"]
      /\ UNCHANGED <<cache, recent, authFailures, flood, spaced, fetchGate, group, flight, floor, issued, dropping, dropped, done, stage, turnGate>>
  BY DEF FetchRefused, FetchReturns, Return, dialVars, cacheVars, limiterVars, dropVars
<1>2. answer' = [answer EXCEPT ![w] = Failed("error")] \/ answer' = [answer EXCEPT ![w] = answer[w]]
  BY DEF FetchRefused, FetchReturns, Return, dialVars, cacheVars, limiterVars, dropVars
<1>3. waiters' = [f \in Flights |-> waiters[f] \ {w}]
  <2>1. CASE FetchReturns(w) BY <2>1 DEF FetchReturns, dialVars, cacheVars, limiterVars, dropVars
  <2>2. CASE FetchRefused(w)
    <3>1. waiters' = waiters /\ \A f \in Flights : w \notin waiters[f] BY <2>2 DEF FetchRefused, Linked, dialVars, cacheVars, limiterVars, dropVars
    <3>2. \A f \in Flights : waiters[f] = waiters[f] \ {w} BY <3>1
    <3> QED BY <3>1, <3>2 DEF TypeOK, CredentialsTypeOK
  <2> QED BY <2>1, <2>2
<1>4. TokenBalance' BY <1>1, BalanceKept
<1>5. TypeOK' BY <1>1, <1>2, <1>3, ResultTypes DEF TypeOK, CredentialsTypeOK
<1>6. Linked' BY <1>1, <1>2, <1>3 DEF Linked, TypeOK, CredentialsTypeOK
<1>7. NoWaiterLeftBehind' BY <1>1, <1>2, <1>3 DEF NoWaiterLeftBehind, TypeOK, CredentialsTypeOK
<1>8. Paced' /\ Numbered' BY <1>1 DEF Paced, Numbered
<1>9. Fresh' BY <1>1, <1>3 DEF Fresh, NewerThanDropped, TypeOK, CredentialsTypeOK
<1>10. DroppedStaysDropped'
  BY <1>1, <1>2 DEF DroppedStaysDropped, TypeOK, CredentialsTypeOK, Failed
<1> QED BY <1>4, <1>5, <1>6, <1>7, <1>8, <1>9, <1>10 DEF DialInv

\* Whoever joins a flight of the group calls Fetch after all that was dropped.
LEMMA FetchJoinsInv ==
    ASSUME DialInv, NEW w \in Workers, FetchJoins(w), UNCHANGED dialVars
    PROVE  DialInv'
<1> DEFINE f == group[LinkOf[w]]
<1>0. TypeOK /\ TokenBalance /\ Linked /\ NoWaiterLeftBehind /\ Paced /\ Numbered /\ Fresh /\ DroppedStaysDropped
  BY DEF DialInv
<1> USE <1>0
<1>1. /\ f \in Flights /\ LinkOf[w] \in Links /\ flight[f].pc # "free" /\ flight[f].link = LinkOf[w]
      /\ group[LinkOf[w]] = f
  BY CredentialsAssumption DEF FetchJoins, Linked, TypeOK, CredentialsTypeOK
<1> HIDE DEF f
<1>2. /\ call[w] = "missed" /\ call' = [call EXCEPT ![w] = "waiting"]
      /\ answer' = [answer EXCEPT ![w] = Pending]
      /\ waiters' = [waiters EXCEPT ![f] = @ \cup {w}]
      /\ UNCHANGED <<cache, recent, authFailures, flood, spaced, fetchGate, group, flight, floor, issued, dropping, dropped, done, stage, turnGate>>
  BY DEF FetchJoins, Wait, f, dialVars, cacheVars, limiterVars, dropVars
<1>3. \A g \in Flights : w \notin waiters[g] BY <1>2 DEF Linked
<1>4. TokenBalance' BY <1>2, BalanceKept
<1>5. TypeOK' BY <1>1, <1>2, ResultTypes DEF TypeOK, CredentialsTypeOK
<1>6. Linked' BY <1>1, <1>2, <1>3 DEF Linked, TypeOK, CredentialsTypeOK
<1>7. NoWaiterLeftBehind' BY <1>1, <1>2 DEF NoWaiterLeftBehind, TypeOK, CredentialsTypeOK
<1>8. Paced' /\ Numbered' BY <1>2 DEF Paced, Numbered
<1>9. Fresh'
  <2>1. flight[f].pc = "done" /\ flight[f].result.kind = "ok" => flight[f].result.cred > dropped[LinkOf[w]]
    BY <1>1 DEF Fresh
  <2>2. floor[w] <= dropped[LinkOf[w]] BY DEF Numbered
  <2>3. flight[f].result.cred \in Nat /\ floor[w] \in Nat /\ dropped[LinkOf[w]] \in Nat
    BY <1>1 DEF TypeOK, CredentialsTypeOK, Results
  <2>4. flight[f].pc = "done" /\ flight[f].result.kind = "ok" => flight[f].result.cred > floor[w]
    BY <2>1, <2>2, <2>3
  <2> QED BY <1>1, <1>2, <2>4 DEF Fresh, NewerThanDropped, TypeOK, CredentialsTypeOK
<1>10. DroppedStaysDropped' BY <1>2 DEF DroppedStaysDropped, TypeOK, CredentialsTypeOK, Pending
<1> QED BY <1>4, <1>5, <1>6, <1>7, <1>8, <1>9, <1>10 DEF DialInv

LEMMA FetchLeadsInv ==
    ASSUME DialInv, NEW w \in Workers, NEW f \in Flights, FetchLeads(w, f), UNCHANGED dialVars
    PROVE  DialInv'
<1> DEFINE l == LinkOf[w]
<1>0. TypeOK /\ TokenBalance /\ Linked /\ NoWaiterLeftBehind /\ Paced /\ Numbered /\ Fresh /\ DroppedStaysDropped
  BY DEF DialInv
<1> USE <1>0
<1>1. /\ call[w] = "missed" /\ call' = [call EXCEPT ![w] = "waiting"]
      /\ answer' = [answer EXCEPT ![w] = Pending]
      /\ waiters' = [waiters EXCEPT ![f] = @ \cup {w}]
      /\ group' = [group EXCEPT ![l] = f]
      /\ UNCHANGED <<cache, recent, authFailures, flood, spaced, fetchGate, floor, issued, dropping, dropped, done, stage, turnGate>>
  BY DEF FetchLeads, Wait, dialVars, cacheVars, limiterVars, dropVars
<1>2. /\ l \in Links /\ group[l] = NoFlight /\ flight[f].pc = "free"
      /\ flight' = [flight EXCEPT ![f] = [pc |-> "begin", link |-> l, done |-> w \in done, result |-> Pending]]
  BY CredentialsAssumption DEF FetchLeads
<1>3. /\ flight'[f].pc = "begin" /\ flight'[f].link = l
      /\ \A g \in Flights \ {f} : flight'[g] = flight[g]
  BY <1>2 DEF TypeOK, CredentialsTypeOK
<1>4. \A g \in Flights : w \notin waiters[g] BY <1>1 DEF Linked
<1>5. waiters[f] = {} /\ \A k \in Links : group[k] # f BY <1>2, CredentialsAssumption DEF Linked
<1>7. TokenBalance' BY <1>1, <1>2, <1>3, TokenMoves DEF GatePcs
<1>8. TypeOK'
  <2>1. [pc |-> "begin", link |-> l, done |-> w \in done, result |-> Pending]
          \in [pc : FlightPcs, link : Links, done : BOOLEAN, result : Results]
    BY <1>2, ResultTypes DEF FlightPcs
  <2>2. flight' \in [Flights -> [pc : FlightPcs, link : Links, done : BOOLEAN, result : Results]]
    BY <1>2, <2>1 DEF TypeOK, CredentialsTypeOK
  <2> QED BY <1>1, <1>2, <2>2, ResultTypes DEF TypeOK, CredentialsTypeOK
<1>9. Linked'
  <2>1. /\ group \in [Links -> Flights \cup {NoFlight}] /\ call \in [Workers -> {"out", "missed", "waiting", "returned"}]
        /\ waiters \in [Flights -> SUBSET Workers] /\ answer \in [Workers -> Results]
    BY DEF TypeOK, CredentialsTypeOK
  <2>2. \A k \in Links : group'[k] # NoFlight => flight'[group'[k]].pc # "free" /\ flight'[group'[k]].link = k
    BY <1>1, <1>2, <1>3, <1>5, <2>1 DEF Linked
  <2>3. waiters'[f] = {w} /\ \A g \in Flights \ {f} : waiters'[g] = waiters[g] BY <1>1, <1>5, <2>1
  <2>4. call'[w] = "waiting" /\ \A v \in Workers \ {w} : call'[v] = call[v] /\ answer'[v] = answer[v] BY <1>1, <2>1
  <2>5. \A g \in Flights : \A v \in waiters'[g] :
          /\ flight'[g].pc # "free" /\ flight'[g].link = LinkOf[v]
          /\ call'[v] = "waiting" /\ \A h \in Flights : v \in waiters'[h] => h = g
    BY <1>3, <1>4, <2>1, <2>3, <2>4 DEF Linked
  <2>6. \A v \in Workers : call'[v] \in {"out", "missed"} => answer'[v] = Pending BY <2>4 DEF Linked
  <2>7. \A g \in Flights : flight'[g].pc \in {"storing", "done"} => flight'[g].result.kind # "none"
    BY <1>3 DEF Linked
  <2> QED BY <2>2, <2>5, <2>6, <2>7 DEF Linked
<1>10. NoWaiterLeftBehind'
  BY <1>1, <1>2, <1>3 DEF NoWaiterLeftBehind, TypeOK, CredentialsTypeOK
<1>11. Paced' /\ Numbered' BY <1>1, <1>3 DEF Paced, Numbered
<1>12. Fresh' BY <1>1, <1>2, <1>3, <1>5 DEF Fresh, NewerThanDropped, TypeOK, CredentialsTypeOK
<1>13. DroppedStaysDropped' BY <1>1 DEF DroppedStaysDropped, TypeOK, CredentialsTypeOK, Pending
<1> QED BY <1>7, <1>8, <1>9, <1>10, <1>11, <1>12, <1>13 DEF DialInv

\* Credentials(ctx, joinLink) returns to the dial.
LEMMA DialFetchedInv ==
    ASSUME DialInv, NEW w \in Workers, DialFetched(w)
    PROVE  DialInv'
<1>0. TypeOK /\ TokenBalance /\ Linked /\ NoWaiterLeftBehind /\ Paced /\ Numbered /\ Fresh /\ DroppedStaysDropped
  BY DEF DialInv
<1> USE <1>0
<1>1. /\ call[w] = "returned" /\ call' = [call EXCEPT ![w] = "out"]
      /\ answer' = [answer EXCEPT ![w] = Pending] /\ floor' = [floor EXCEPT ![w] = 0]
      /\ UNCHANGED <<cache, recent, authFailures, flood, spaced, fetchGate, group, flight, waiters, issued, dropping, dropped, turnGate>>
  BY DEF DialFetched, cacheVars, limiterVars, dropVars
<1>2. PICK to \in {"permit", "idle"} : stage' = [stage EXCEPT ![w] = to]
  BY DEF DialFetched, Move, Returns, cacheVars, limiterVars, dropVars
<1>3. done' \subseteq Workers BY DEF DialFetched, Move, Returns, TypeOK, CredentialsTypeOK, cacheVars, limiterVars, dropVars
<1>4. \A f \in Flights : w \notin waiters[f] BY <1>1 DEF Linked
<1>5. stage' \in [Workers -> Stages] BY <1>2 DEF TypeOK, Stages
<1>7. TokenBalance' BY <1>1, BalanceKept
<1>8. TypeOK'
  <2>1. 0 \in 0..MaxJoins BY CredentialsAssumption
  <2>2. /\ call' \in [Workers -> {"out", "missed", "waiting", "returned"}]
        /\ answer' \in [Workers -> Results] /\ floor' \in [Workers -> 0..MaxJoins]
    BY <1>1, <2>1, ResultTypes DEF TypeOK, CredentialsTypeOK
  <2> QED BY <1>1, <1>3, <1>5, <2>2 DEF TypeOK, CredentialsTypeOK
<1>9. Linked' BY <1>1, <1>4 DEF Linked, TypeOK, CredentialsTypeOK
<1>10. NoWaiterLeftBehind' BY <1>1 DEF NoWaiterLeftBehind, TypeOK, CredentialsTypeOK
<1>11. Paced' /\ Numbered'
  <2>1. \A v \in Workers : dropped[LinkOf[v]] \in Nat BY CredentialsAssumption DEF TypeOK, CredentialsTypeOK
  <2>2. \A v \in Workers : floor'[v] <= dropped[LinkOf[v]] BY <1>1, <2>1 DEF Numbered, TypeOK, CredentialsTypeOK
  <2> QED BY <1>1, <2>2 DEF Paced, Numbered
<1>12. Fresh' BY <1>1, <1>4 DEF Fresh, NewerThanDropped, TypeOK, CredentialsTypeOK
<1>13. DroppedStaysDropped' BY <1>1 DEF DroppedStaysDropped, TypeOK, CredentialsTypeOK, Pending
<1> QED BY <1>7, <1>8, <1>9, <1>10, <1>11, <1>12, <1>13 DEF DialInv

-----------------------------------------------------------------------------
(* Invalidate, time and the network                                        *)

\* The dial moves on, or returns.
LEMMA StageMoves ==
    ASSUME DialInv, NEW w \in Workers, NEW to \in Stages, Move(w, to) \/ (to = "idle" /\ Returns(w)),
           UNCHANGED <<fetchGate, flight>>
    PROVE  TokenBalance' /\ stage' \in [Workers -> Stages] /\ done' \subseteq Workers
<1>1. stage' \in [Workers -> Stages] /\ done' \subseteq Workers
  BY DEF Move, Returns, DialInv, TypeOK, CredentialsTypeOK
<1>2. TokenBalance' BY BalanceKept DEF DialInv
<1> QED BY <1>1, <1>2

\* A flight that is about to store has found the cache empty: what is dropped is older.
LEMMA InvalidatesInv ==
    ASSUME DialInv, NEW w \in Workers, Invalidates(w)
    PROVE  DialInv'
<1> DEFINE l == LinkOf[w]
<1>0. TypeOK /\ TokenBalance /\ Linked /\ NoWaiterLeftBehind /\ Paced /\ Numbered /\ Fresh /\ DroppedStaysDropped
  BY DEF DialInv
<1> USE <1>0
<1>1. /\ l \in Links /\ stage[w] = "rejected" /\ cache[l] \in 0..MaxJoins
      /\ UNCHANGED <<recent, flood, spaced, fetchGate, group, flight, waiters, call, answer, floor, issued, dropped, turnGate>>
  BY CredentialsAssumption DEF Invalidates, InvalidateKeeps, InvalidateDrops, dropVars, TypeOK, CredentialsTypeOK, limiterVars, callVars
<1>2. TokenBalance' /\ stage' \in [Workers -> Stages] /\ done' \subseteq Workers
  <2>1. Returns(w) \/ Move(w, "forget") BY DEF Invalidates, limiterVars, callVars
  <2>2. CASE Returns(w) BY <1>1, <2>2, StageMoves DEF Stages
  <2>3. CASE Move(w, "forget") BY <1>1, <2>3, StageMoves DEF Stages
  <2> QED BY <2>1, <2>2, <2>3
<1>3. authFailures' \in [Links -> 0 .. AuthFailureThreshold - 1]
  BY <1>1, CredentialsAssumption DEF Invalidates, InvalidateKeeps, InvalidateDrops, TypeOK, CredentialsTypeOK
<1>4. \/ UNCHANGED <<cache, dropping>>
      \/ /\ cache[l] = 0 \/ l \notin recent
         /\ cache' = [cache EXCEPT ![l] = 0]
         /\ dropping' = [dropping EXCEPT ![w] = cache[l]]
  BY DEF Invalidates, InvalidateKeeps, InvalidateDrops, dropVars, limiterVars, callVars
<1>5. TypeOK'
  <2>1. cache' \in [Links -> 0..MaxJoins] /\ dropping' \in [Workers -> 0..MaxJoins]
    BY <1>1, <1>4, CredentialsAssumption DEF TypeOK, CredentialsTypeOK
  <2> QED BY <1>1, <1>2, <1>3, <2>1 DEF TypeOK, CredentialsTypeOK
<1>6. Linked' /\ NoWaiterLeftBehind' /\ DroppedStaysDropped'
  BY <1>1 DEF Linked, NoWaiterLeftBehind, DroppedStaysDropped
<1>7. CASE UNCHANGED <<cache, dropping>>
  <2>1. Paced' /\ Numbered' BY <1>1, <1>7 DEF Paced, Numbered
  <2>2. Fresh' BY <1>1, <1>7 DEF Fresh, NewerThanDropped
  <2> QED BY <1>2, <1>5, <1>6, <2>1, <2>2 DEF DialInv
<1>8. CASE /\ cache[l] = 0 \/ l \notin recent
           /\ cache' = [cache EXCEPT ![l] = 0]
           /\ dropping' = [dropping EXCEPT ![w] = cache[l]]
  <2>1. /\ cache'[l] = 0 /\ \A m \in Links \ {l} : cache'[m] = cache[m]
        /\ dropping'[w] = cache[l] /\ \A v \in Workers \ {w} : dropping'[v] = dropping[v]
    BY <1>1, <1>8 DEF TypeOK, CredentialsTypeOK
  <2>2. /\ \A f \in Flights : flight[f].link \in Links /\ flight[f].result.cred \in Nat
        /\ \A m \in Links : dropped[m] \in Nat
        /\ recent \subseteq Links /\ issued \in Nat
    BY DEF TypeOK, CredentialsTypeOK, Results
  <2>3. Paced' BY <1>1, <1>8, <2>1, <2>2 DEF Paced
  <2>4. Numbered' BY <1>1, <2>1, <2>2 DEF Numbered
  <2>5. \A m \in Links : cache'[m] # 0 => NewerThanDropped(cache[m], m)'
    BY <1>1, <2>1 DEF Fresh, NewerThanDropped
  <2>6. ASSUME NEW f \in Flights, flight[f].pc = "storing"
        PROVE  NewerThanDropped(flight[f].result.cred, flight[f].link)'
    <3>1. NewerThanDropped(flight[f].result.cred, flight[f].link) BY <2>6 DEF Fresh
    <3>2. flight[f].link = l => dropping'[w] = 0 BY <2>1, <2>6 DEF Paced
    <3>3. flight[f].result.cred > 0 BY <2>2, <3>1 DEF NewerThanDropped
    <3> QED BY <1>1, <2>1, <3>1, <3>2, <3>3 DEF NewerThanDropped
  <2>7. Fresh' BY <1>1, <2>5, <2>6 DEF Fresh
  <2> QED BY <1>2, <1>5, <1>6, <2>3, <2>4, <2>7 DEF DialInv
<1> QED BY <1>4, <1>7, <1>8 DEF DialInv

\* No flight of the group brings what is dropped: the group has none.
LEMMA ForgetsInv ==
    ASSUME DialInv, NEW w \in Workers, Forgets(w)
    PROVE  DialInv'
<1> DEFINE l == LinkOf[w]
<1>0. TypeOK /\ TokenBalance /\ Linked /\ NoWaiterLeftBehind /\ Paced /\ Numbered /\ Fresh /\ DroppedStaysDropped
  BY DEF DialInv
<1> USE <1>0
<1>1. /\ l \in Links /\ stage[w] = "forget"
      /\ group' = [group EXCEPT ![l] = NoFlight]
      /\ dropped' = [dropped EXCEPT ![l] = Later(@, dropping[w])]
      /\ dropping' = [dropping EXCEPT ![w] = 0]
      /\ UNCHANGED <<cache, recent, authFailures, flood, spaced, fetchGate, flight, waiters, call, answer, floor, issued, turnGate>>
  BY CredentialsAssumption DEF Forgets, InvalidateForgets, cacheVars, limiterVars, callVars
<1>2. TokenBalance' /\ stage' \in [Workers -> Stages] /\ done' \subseteq Workers
  BY <1>1, StageMoves DEF Forgets, Stages, cacheVars, limiterVars, callVars
<1>3. /\ dropping \in [Workers -> 0..MaxJoins] /\ dropped \in [Links -> 0..MaxJoins]
      /\ group \in [Links -> Flights \cup {NoFlight}] /\ issued \in Nat /\ floor \in [Workers -> 0..MaxJoins]
      /\ cache \in [Links -> 0..MaxJoins]
      /\ \A f \in Flights : flight[f].link \in Links /\ flight[f].result.cred \in Nat
  BY DEF TypeOK, CredentialsTypeOK, Results
<1>4. /\ Later(dropped[l], dropping[w]) \in 0..MaxJoins
      /\ Later(dropped[l], dropping[w]) >= dropped[l]
      /\ Later(dropped[l], dropping[w]) \in {dropped[l], dropping[w]}
  <2>1. dropped[l] \in 0..MaxJoins /\ dropping[w] \in 0..MaxJoins BY <1>1, <1>3
  <2> QED BY <2>1 DEF Later
<1> DEFINE d == Later(dropped[l], dropping[w])
<1>5. /\ group'[l] = NoFlight /\ \A m \in Links \ {l} : group'[m] = group[m]
      /\ dropped'[l] = d /\ \A m \in Links \ {l} : dropped'[m] = dropped[m]
      /\ dropping'[w] = 0 /\ \A v \in Workers \ {w} : dropping'[v] = dropping[v]
  BY <1>1, <1>3
<1>6. d \in 0..MaxJoins /\ d >= dropped[l] /\ d \in {dropped[l], dropping[w]} BY <1>4
<1> HIDE DEF d
<1>7. TypeOK'
  <2>1. 0 \in 0..MaxJoins BY CredentialsAssumption
  <2>2. dropping' \in [Workers -> 0..MaxJoins] BY <1>1, <1>3, <2>1
  <2>3. dropped' \in [Links -> 0..MaxJoins] BY <1>1, <1>3, <1>6 DEF d
  <2>4. group' \in [Links -> Flights \cup {NoFlight}] BY <1>1, <1>3
  <2> QED BY <1>1, <1>2, <2>2, <2>3, <2>4 DEF TypeOK, CredentialsTypeOK
<1>a. UNCHANGED <<cache, flight, waiters, call, answer, floor, issued>> BY <1>1
<1>8. Linked'
  <2>1. \A m \in Links : group'[m] # NoFlight => group'[m] = group[m] BY <1>5
  <2> QED BY <1>a, <2>1 DEF Linked
<1>9. NoWaiterLeftBehind' /\ DroppedStaysDropped' /\ Paced'
  BY <1>1 DEF NoWaiterLeftBehind, DroppedStaysDropped, Paced
<1>10. Numbered'
  <2>1. \A m \in Links : cache'[m] <= issued' /\ dropped'[m] <= issued'
    <3>1. d <= issued
      <4>1. l \in Links /\ dropped[l] <= issued /\ dropping[w] <= issued BY <1>1 DEF Numbered
      <4> QED BY <1>6, <4>1
    <3> QED BY <1>a, <1>5, <3>1 DEF Numbered
  <2>2. \A v \in Workers : dropping'[v] <= issued'
    <3>1. 0 <= issued BY <1>3
    <3> QED BY <1>a, <1>5, <3>1 DEF Numbered
  <2>3. \A v \in Workers : floor'[v] <= dropped'[LinkOf[v]]
    <3> TAKE v \in Workers
    <3>1. floor[v] <= dropped[LinkOf[v]] /\ LinkOf[v] \in Links BY CredentialsAssumption DEF Numbered
    <3> QED BY <1>1, <1>3, <1>5, <1>6, <3>1
  <2> QED BY <1>1, <2>1, <2>2, <2>3 DEF Numbered
<1>11. ASSUME NEW k \in Nat, NEW m \in Links, NewerThanDropped(k, m)
       PROVE  k > dropped'[m] /\ \A v \in Workers : LinkOf[v] = m => k > dropping'[v]
  <2>1. k > dropped'[m] BY <1>3, <1>5, <1>6, <1>11 DEF NewerThanDropped
  <2>2. k > 0 BY <1>3, <1>11 DEF NewerThanDropped
  <2> QED BY <1>5, <1>11, <2>1, <2>2 DEF NewerThanDropped
<1>12. Fresh'
  <2>1. \A m \in Links : cache'[m] # 0 => NewerThanDropped(cache[m], m)'
    <3>1. \A m \in Links : cache[m] \in Nat BY <1>3
    <3> QED BY <1>1, <1>11, <3>1 DEF Fresh, NewerThanDropped
  <2>2. \A f \in Flights : flight'[f].pc = "storing" => NewerThanDropped(flight[f].result.cred, flight[f].link)'
    BY <1>1, <1>3, <1>11 DEF Fresh, NewerThanDropped
  <2>3. \A f \in Flights : flight'[f].pc = "done" /\ flight'[f].result.kind = "ok" =>
          /\ group'[flight'[f].link] = f => flight'[f].result.cred > dropped'[flight'[f].link]
          /\ \A v \in waiters'[f] : flight'[f].result.cred > floor'[v]
    BY <1>1, <1>3, <1>5, CredentialsAssumption DEF Fresh
  <2> QED BY <2>1, <2>2, <2>3 DEF Fresh
<1> QED BY <1>2, <1>7, <1>8, <1>9, <1>10, <1>12 DEF DialInv

\* An entry that expires leaves an empty cache; flood control only ends.
LEMMA TimeStepInv ==
    ASSUME DialInv, TimeStep, UNCHANGED dialVars
    PROVE  DialInv'
<1>0. TypeOK /\ TokenBalance /\ Linked /\ NoWaiterLeftBehind /\ Paced /\ Numbered /\ Fresh /\ DroppedStaysDropped
  BY DEF DialInv
<1> USE <1>0
<1>1. UNCHANGED <<fetchGate, group, flight, waiters, call, answer, floor, issued, dropping, dropped, done, stage, turnGate>>
  BY DEF TimeStep, ReuseEnds, EntryExpires, FailureAges, CooldownEnds, SpacingEnds, dialVars, cacheVars, limiterVars, callVars, dropVars
<1>2. TokenBalance' BY <1>1, BalanceKept
<1>3. Linked' /\ NoWaiterLeftBehind' /\ DroppedStaysDropped'
  BY <1>1 DEF Linked, NoWaiterLeftBehind, DroppedStaysDropped
<1>4. /\ \A l \in Links : cache'[l] \in {0, cache[l]}
      /\ cache' \in [Links -> 0..MaxJoins]
      /\ recent' \subseteq recent /\ \A l \in recent' : cache'[l] # 0
      /\ flood' => flood
      /\ flood' \in BOOLEAN /\ spaced' \in BOOLEAN
      /\ authFailures' \in [Links -> 0 .. AuthFailureThreshold - 1]
  <2> USE CredentialsAssumption DEF TypeOK, CredentialsTypeOK, Paced, cacheVars, limiterVars
  <2>1. ASSUME NEW l \in Links, ReuseEnds(l) PROVE <1>4!: BY <2>1 DEF ReuseEnds
  <2>2. ASSUME NEW l \in Links, EntryExpires(l) PROVE <1>4!: BY <2>2 DEF EntryExpires
  <2>3. ASSUME NEW l \in Links, FailureAges(l) PROVE <1>4!: BY <2>3 DEF FailureAges
  <2>4. CASE CooldownEnds BY <2>4, Zenon DEF CooldownEnds
  <2>5. CASE SpacingEnds BY <2>5 DEF SpacingEnds
  <2> QED BY <2>1, <2>2, <2>3, <2>4, <2>5 DEF TimeStep, dialVars, cacheVars, limiterVars, callVars, dropVars
<1>5. TypeOK' BY <1>1, <1>4 DEF TypeOK, CredentialsTypeOK
<1>6. \A f \in Flights : flight[f].link \in Links BY DEF TypeOK, CredentialsTypeOK
<1>7. Paced' BY <1>1, <1>4, <1>6 DEF Paced
<1>8. Numbered'
  <2>1. issued \in Nat BY DEF TypeOK, CredentialsTypeOK
  <2> QED BY <1>1, <1>4, <2>1 DEF Numbered
<1>9. Fresh' BY <1>1, <1>4 DEF Fresh, NewerThanDropped
<1> QED BY <1>2, <1>3, <1>5, <1>7, <1>8, <1>9 DEF DialInv

\* A cancelled context moves nothing by itself.
LEMMA NetworkChangesInv ==
    ASSUME DialInv, NetworkChanges
    PROVE  DialInv'
<1>0. TypeOK /\ TokenBalance /\ Linked /\ NoWaiterLeftBehind /\ Paced /\ Numbered /\ Fresh /\ DroppedStaysDropped
  BY DEF DialInv
<1> USE <1>0
<1>1. /\ done' \subseteq Workers
      /\ UNCHANGED <<cache, recent, authFailures, flood, spaced, fetchGate, group, waiters, call, answer, floor, issued, dropping, dropped, stage, turnGate>>
  BY DEF NetworkChanges, ContextEnds, cacheVars, limiterVars, callVars, dropVars
<1>a. flight' = [f \in Flights |-> [flight[f] EXCEPT !.done = (@ \/ flight[f].pc # "free")]]
  BY DEF NetworkChanges, ContextEnds
<1>b. flight \in [Flights -> [pc : FlightPcs, link : Links, done : BOOLEAN, result : Results]]
  BY DEF TypeOK, CredentialsTypeOK
<1>2. \A f \in Flights : /\ flight'[f].pc = flight[f].pc /\ flight'[f].link = flight[f].link
                         /\ flight'[f].result = flight[f].result
  BY <1>a, <1>b
<1>3. TokenBalance' BY <1>1, <1>2, BalanceKept
<1>4. TypeOK'
  <2>1. flight' \in [Flights -> [pc : FlightPcs, link : Links, done : BOOLEAN, result : Results]]
    <3>1. \A f \in Flights : (flight[f].done \/ flight[f].pc # "free") \in BOOLEAN BY Zenon
    <3>2. \A f \in Flights : flight'[f] \in [pc : FlightPcs, link : Links, done : BOOLEAN, result : Results]
      BY <1>a, <1>b, <3>1, Zenon
    <3> QED BY <1>a, <3>2
  <2> QED BY <1>1, <2>1 DEF TypeOK, CredentialsTypeOK
<1>5. Linked'
  <2>1. group \in [Links -> Flights \cup {NoFlight}] BY DEF TypeOK, CredentialsTypeOK
  <2> QED BY <1>1, <1>2, <2>1 DEF Linked
<1>6. NoWaiterLeftBehind' /\ DroppedStaysDropped' BY <1>1, <1>2 DEF NoWaiterLeftBehind, DroppedStaysDropped
<1>7. Paced' /\ Numbered' BY <1>1, <1>2 DEF Paced, Numbered
<1>8. Fresh' BY <1>1, <1>2 DEF Fresh, NewerThanDropped
<1> QED BY <1>3, <1>4, <1>5, <1>6, <1>7, <1>8 DEF DialInv

-----------------------------------------------------------------------------
(* The permits                                                             *)

PermitHolders == {w \in Workers : stage[w] \in PermitStages}

\* A permit that is taken, one that goes back, and a step that touches neither.
LEMMA PermitMoves ==
    ASSUME PermitBalance, NEW w \in Workers,
           \/ PermitHolders' = PermitHolders /\ turnGate' = turnGate
           \/ w \notin PermitHolders /\ PermitHolders' = PermitHolders \cup {w} /\ turnGate' = turnGate + 1
           \/ w \in PermitHolders /\ PermitHolders' = PermitHolders \ {w} /\ turnGate' = turnGate - 1
    PROVE  PermitBalance'
<1>1. IsFiniteSet(PermitHolders)
  BY FS_Subset, CredentialsAssumption DEF PermitHolders
<1>2. turnGate = Cardinality(PermitHolders)
  BY DEF PermitBalance, PermitHolders
<1>3. turnGate' = Cardinality(PermitHolders')
  <2>1. CASE PermitHolders' = PermitHolders /\ turnGate' = turnGate
    BY <1>2, <2>1
  <2>2. CASE w \notin PermitHolders /\ PermitHolders' = PermitHolders \cup {w} /\ turnGate' = turnGate + 1
    <3>1. Cardinality(PermitHolders \cup {w}) = Cardinality(PermitHolders) + 1
      BY <1>1, <2>2, FS_AddElement
    <3> QED BY <1>2, <2>2, <3>1
  <2>3. CASE w \in PermitHolders /\ PermitHolders' = PermitHolders \ {w} /\ turnGate' = turnGate - 1
    <3>1. Cardinality(PermitHolders \ {w}) = Cardinality(PermitHolders) - 1
      BY <1>1, <2>3, FS_RemoveElement
    <3> QED BY <1>2, <2>3, <3>1
  <2> QED BY <2>1, <2>2, <2>3
<1> QED BY <1>3 DEF PermitBalance, PermitHolders

\* A dial that takes a permit enters PermitStages, one that gives it back leaves
\* them, and the moves between the other stages keep out of them.
LEMMA DialKeepsPermits ==
    ASSUME TypeOK, PermitBalance, NEW w \in Workers, DialBegins(w) \/ DialStep(w)
    PROVE  PermitBalance'
<1> USE DEF TypeOK, PermitHolders, PermitStages, Stages, Move, Returns
<1>1. CASE DialBegins(w) BY <1>1, PermitMoves DEF DialBegins
<1>2. CASE FetchStep(w) BY <1>2, PermitMoves DEF FetchStep, dialVars
<1>3. CASE DialFetched(w) BY <1>3, PermitMoves DEF DialFetched
<1>4. CASE AcquirePermit(w)
  <2>1. CASE turnGate' = turnGate + 1 /\ Move(w, "spacing")
    <3>1. w \notin PermitHolders /\ PermitHolders' = PermitHolders \cup {w} BY <1>4, <2>1 DEF AcquirePermit
    <3> QED BY <2>1, <3>1, PermitMoves
  <2>2. CASE Returns(w) /\ UNCHANGED turnGate
    <3>1. PermitHolders' = PermitHolders BY <1>4, <2>2 DEF AcquirePermit
    <3> QED BY <2>2, <3>1, PermitMoves
  <2> QED BY <1>4, <2>1, <2>2 DEF AcquirePermit
<1>5. CASE AwaitSpacing(w)
  <2>1. CASE Move(w, "allocating") /\ UNCHANGED turnGate
    <3>1. PermitHolders' = PermitHolders BY <1>5, <2>1 DEF AwaitSpacing
    <3> QED BY <2>1, <3>1, PermitMoves
  <2>2. CASE Returns(w) /\ turnGate' = turnGate - 1
    <3>1. w \in PermitHolders /\ PermitHolders' = PermitHolders \ {w} BY <1>5, <2>2 DEF AwaitSpacing
    <3> QED BY <2>2, <3>1, PermitMoves
  <2> QED BY <1>5, <2>1, <2>2 DEF AwaitSpacing
<1>6. CASE Allocates(w)
  <2>1. w \in PermitHolders /\ PermitHolders' = PermitHolders \ {w} BY <1>6 DEF Allocates
  <2> QED BY <1>6, <2>1, PermitMoves DEF Allocates
<1>7. CASE Invalidates(w) \/ Forgets(w)
  <2>1. PermitHolders' = PermitHolders /\ turnGate' = turnGate BY <1>7 DEF Invalidates, Forgets
  <2> QED BY <2>1, PermitMoves
<1> QED BY <1>1, <1>2, <1>3, <1>4, <1>5, <1>6, <1>7 DEF DialStep

\* Nothing but a dial touches the gate of permits.
LEMMA NextKeepsPermits == ASSUME TypeOK, PermitBalance, [Next]_vars PROVE PermitBalance'
<1>1. CASE UNCHANGED <<stage, turnGate>> BY <1>1 DEF PermitBalance
<1> QED BY <1>1, DialKeepsPermits DEF Next, NetworkChanges, vars, dialVars

\* Nobody dials at first, so nobody holds a permit.
LEMMA InitHasNoPermits == Init => PermitBalance
<1> SUFFICES ASSUME Init PROVE PermitBalance OBVIOUS
<1>1. PermitHolders = {} BY DEF Init, PermitHolders, PermitStages
<1> QED BY <1>1, FS_EmptySet DEF Init, PermitBalance, PermitHolders

-----------------------------------------------------------------------------
(* The theorems                                                            *)

LEMMA InitEstablishesDialInv == Init => DialInv
<1> SUFFICES ASSUME Init PROVE DialInv OBVIOUS
<1> USE CredentialsAssumption DEF Init, CredentialsInit
<1>1. TypeOK
  <2>1. 0 \in 0..MaxJoins /\ 0 \in 0 .. AuthFailureThreshold - 1 /\ 0 \in Int OBVIOUS
  <2> QED BY <2>1, ResultTypes, Zenon DEF TypeOK, CredentialsTypeOK, Stages
<1>2. \A f \in Flights : flight[f].pc = "free" BY DEF NotFlying
<1>3. TokenBalance
  <2>1. Holders = {} BY <1>2 DEF Holders, GatePcs
  <2> QED BY <2>1 DEF TokenBalance
<1>4. Linked BY <1>2 DEF Linked
<1>5. NoWaiterLeftBehind /\ DroppedStaysDropped BY DEF NoWaiterLeftBehind, DroppedStaysDropped, Pending
<1>6. Paced BY <1>2 DEF Paced
<1>8. Numbered
  <2>1. \A w \in Workers : LinkOf[w] \in Links OBVIOUS
  <2>2. \A w \in Workers : dropping[w] = 0 /\ floor[w] = 0 /\ dropped[LinkOf[w]] = 0 BY <2>1
  <2>3. \A l \in Links : cache[l] <= issued /\ dropped[l] <= issued OBVIOUS
  <2>4. issued = 0 OBVIOUS
  <2> HIDE DEF Init, CredentialsInit
  <2> QED BY <1>2, <2>2, <2>3, <2>4 DEF Numbered
<1>7. Fresh BY <1>2 DEF Fresh
<1> QED BY <1>1, <1>3, <1>4, <1>5, <1>6, <1>7, <1>8 DEF DialInv

LEMMA NextKeepsDialInv == ASSUME DialInv, [Next]_vars PROVE DialInv'
<1>1. ASSUME NEW w \in Workers, DialBegins(w) \/ DialStep(w) PROVE DialInv'
  <2>1. CASE DialBegins(w) \/ AcquirePermit(w) \/ AwaitSpacing(w) \/ Allocates(w) BY <2>1, PermitStepInv
  <2>2. CASE FetchStep(w)
    <3>1. UNCHANGED dialVars BY <2>2 DEF FetchStep
    <3>2. CASE FetchLooks(w) BY <3>1, <3>2, FetchLooksInv
    <3>3. CASE FetchRefused(w) \/ FetchReturns(w) BY <3>1, <3>3, FetchEndsInv
    <3>4. CASE FetchJoins(w) BY <3>1, <3>4, FetchJoinsInv
    <3>5. CASE \E f \in Flights : FetchLeads(w, f) BY <3>1, <3>5, FetchLeadsInv
    <3> QED BY <2>2, <3>2, <3>3, <3>4, <3>5 DEF FetchStep
  <2>3. CASE DialFetched(w) BY <2>3, DialFetchedInv
  <2>4. CASE Invalidates(w) BY <2>4, InvalidatesInv
  <2>5. CASE Forgets(w) BY <2>5, ForgetsInv
  <2> QED BY <1>1, <2>1, <2>2, <2>3, <2>4, <2>5 DEF DialStep
<1>2. ASSUME NEW f \in Flights, FlightStep(f), UNCHANGED dialVars PROVE DialInv'
  <2>1. CASE FlightLooks(f) \/ FlightEnters(f) \/ FlightLooksAgain(f) \/ FlightWaits(f) \/ JoinFails(f)
    BY <1>2, <2>1, FlightLooksInv
  <2>2. CASE JoinSucceeds(f) BY <1>2, <2>2, JoinSucceedsInv
  <2>3. CASE FlightStores(f) BY <1>2, <2>3, FlightStoresInv
  <2>4. CASE FlightTells(f) BY <1>2, <2>4, FlightTellsInv
  <2> QED BY <1>2, <2>1, <2>2, <2>3, <2>4 DEF FlightStep
<1>3. CASE TimeStep /\ UNCHANGED dialVars BY <1>3, TimeStepInv
<1>4. CASE NetworkChanges BY <1>4, NetworkChangesInv
<1>5. CASE UNCHANGED vars
  <2>1. UNCHANGED credVars /\ UNCHANGED <<done, stage, turnGate>> BY <1>5 DEF vars, dialVars
  <2>2. TokenBalance'
    BY <2>1, CredentialsKept DEF DialInv, TokenBalance
  <2>3. TypeOK' BY <2>1, CredentialsKept DEF DialInv, TypeOK, CredentialsTypeOK
  <2> QED BY <2>1, <2>2, <2>3, CredentialsKept DEF DialInv
<1> QED BY <1>1, <1>2, <1>3, <1>4, <1>5 DEF Next

(***************************************************************************)
(* The inductive invariant of the dials, their flights and the cache they  *)
(* share holds.                                                            *)
(***************************************************************************)
THEOREM DialInvariance == Spec => []DialInv
<1> QED BY InitEstablishesDialInv, NextKeepsDialInv, PTL DEF Spec

(***************************************************************************)
(* No error, done context or cancelled leader keeps the token of           *)
(* fetchGate, and no two flights have it (turn_credentials.go 88-93), for  *)
(* any number of workers, links and flights.                               *)
(***************************************************************************)
THEOREM TokenBalanceHolds == Spec => []TokenBalance
<1>1. DialInv => TokenBalance BY DEF DialInv
<1> QED BY <1>1, DialInvariance, PTL

(***************************************************************************)
(* The permits taken from turnGate are those of the dials that hold one,   *)
(* through errors, done contexts and rejected credentials                  *)
(* (supervisor.go 52-83, client.go 152-163).                               *)
(***************************************************************************)
THEOREM PermitBalanceHolds == Spec => []PermitBalance
<1>1. DialInv => TypeOK BY DEF DialInv
<1> QED BY <1>1, InitHasNoPermits, NextKeepsPermits, DialInvariance, PTL DEF Spec

(***************************************************************************)
(* VK is asked to join by one flight at a time, outside flood control, and *)
(* only for a link that has neither valid nor young credentials            *)
(* (turn_credentials.go 81-103, 181-208).                                  *)
(***************************************************************************)
THEOREM NoJoinBurstHolds == Spec => []NoJoinBurst
<1>1. DialInv => NoJoinBurst
  <2> SUFFICES ASSUME DialInv, NEW f \in Flights, flight[f].pc = "joining"
               PROVE  /\ ~flood /\ cache[flight[f].link] = 0 /\ flight[f].link \notin recent
                      /\ \A g \in Flights \ {f} : flight[g].pc # "joining"
    BY DEF NoJoinBurst
  <2>1. \A g \in Flights \ {f} : flight[g].pc # "joining" BY OneHolder DEF DialInv, GatePcs
  <2> QED BY <2>1 DEF DialInv, Paced
<1> QED BY <1>1, DialInvariance, PTL

(***************************************************************************)
(* No Fetch gets credentials that an Invalidate had dropped before it      *)
(* began (turn_credentials.go 185-208), for any number of joins.           *)
(***************************************************************************)
THEOREM DroppedStaysDroppedHolds == Spec => []DroppedStaysDropped
<1>1. DialInv => DroppedStaysDropped BY DEF DialInv
<1> QED BY <1>1, DialInvariance, PTL

(***************************************************************************)
(* Whoever waits for a flight has its answer or a flight that brings it    *)
(* (turn_credentials.go 84-128).                                           *)
(***************************************************************************)
THEOREM NoWaiterLeftBehindHolds == Spec => []NoWaiterLeftBehind
<1>1. DialInv => NoWaiterLeftBehind BY DEF DialInv
<1> QED BY <1>1, DialInvariance, PTL
=============================================================================
