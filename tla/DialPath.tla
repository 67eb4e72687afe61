------------------------------ MODULE DialPath ------------------------------
(***************************************************************************)
(* One dial of a lane (Client.DialPath of vk-parasite/client.go): the      *)
(* credentials of the worker's link, a permit of the process-wide TURN     *)
(* gate (supervisor.go), the allocation (turn.go), and Invalidate when the *)
(* TURN server rejects the credentials.  What follows on the allocation    *)
(* (QUIC, authentication) shares no state with other dials and ends the    *)
(* dial; the lane itself is LanePool's.                                    *)
(***************************************************************************)
EXTENDS TurnCredentials

CONSTANT TurnLimit    \* capacity of turnGate

ASSUME TurnLimitAssumption == TurnLimit \in Nat \ {0}

VARIABLES
    stage,        \* where the dial of a worker stands
    turnGate      \* permits taken

dialVars == <<done, stage, turnGate>>
vars == <<credVars, dialVars>>

Stages == {"idle", "credentials", "permit", "spacing", "allocating", "rejected", "forget"}

\* Where a dial holds a permit.
PermitStages == {"spacing", "allocating"}

(***************************************************************************)
(* The types of the dials and of what they share.                          *)
(***************************************************************************)
TypeOK ==
    /\ CredentialsTypeOK
    /\ stage \in [Workers -> Stages]
    /\ turnGate \in Int

Init ==
    /\ CredentialsInit
    /\ stage = [w \in Workers |-> "idle"]
    /\ turnGate = 0

Move(w, to) == stage' = [stage EXCEPT ![w] = to] /\ UNCHANGED done
Returns(w) == stage' = [stage EXCEPT ![w] = "idle"] /\ done' = done \ {w}

\* The pool dials the worker's lane.
DialBegins(w) ==
    /\ stage[w] = "idle"
    /\ Move(w, "credentials")
    /\ UNCHANGED <<credVars, turnGate>>

FetchStep(w) ==
    /\ stage[w] = "credentials"
    /\ \/ FetchLooks(w) \/ FetchRefused(w) \/ FetchJoins(w) \/ FetchReturns(w)
       \/ \E f \in Flights : FetchLeads(w, f)
    /\ UNCHANGED dialVars

\* Credentials(ctx, joinLink) has returned.
DialFetched(w) ==
    /\ stage[w] = "credentials"
    /\ call[w] = "returned"
    /\ IF answer[w].kind = "ok" THEN Move(w, "permit") ELSE Returns(w)
    /\ call' = [call EXCEPT ![w] = "out"]
    /\ answer' = [answer EXCEPT ![w] = Pending]
    /\ floor' = [floor EXCEPT ![w] = 0]
    /\ UNCHANGED <<cacheVars, limiterVars, group, flight, waiters, issued, dropVars, turnGate>>

\* acquireSupervisorPermit
AcquirePermit(w) ==
    /\ stage[w] = "permit"
    /\ \/ turnGate < TurnLimit /\ turnGate' = turnGate + 1 /\ Move(w, "spacing")
       \/ w \in done /\ Returns(w) /\ UNCHANGED turnGate
    /\ UNCHANGED credVars

\* Mutant: a done context returns without release().
AwaitSpacingHolding(w) ==
    /\ stage[w] = "spacing"
    /\ \/ Move(w, "allocating")
       \/ w \in done /\ Returns(w)
    /\ UNCHANGED <<credVars, turnGate>>

\* acquireTURN: its timer fires, or the context is done and the permit goes back.
AwaitSpacing(w) ==
    /\ stage[w] = "spacing"
    /\ \/ Move(w, "allocating") /\ UNCHANGED turnGate
       \/ w \in done /\ Returns(w) /\ turnGate' = turnGate - 1
    /\ UNCHANGED credVars

\* allocateTURN and releaseTURN: rejected credentials are reported.
Allocates(w) ==
    /\ stage[w] = "allocating"
    /\ turnGate' = turnGate - 1
    /\ Returns(w) \/ Move(w, "rejected")
    /\ UNCHANGED credVars

Invalidates(w) ==
    /\ stage[w] = "rejected"
    /\ \/ InvalidateKeeps(w) /\ Returns(w)
       \/ InvalidateDrops(w) /\ Move(w, "forget")
    /\ UNCHANGED turnGate

Forgets(w) ==
    /\ stage[w] = "forget"
    /\ InvalidateForgets(w)
    /\ Returns(w)
    /\ UNCHANGED turnGate

\* A new network: the pool cancels its generation context.
NetworkChanges ==
    /\ ContextEnds({w \in Workers : stage[w] # "idle"})
    /\ UNCHANGED <<stage, turnGate>>

DialStep(w) ==
    \/ FetchStep(w) \/ DialFetched(w) \/ AcquirePermit(w) \/ AwaitSpacing(w)
    \/ Allocates(w) \/ Invalidates(w) \/ Forgets(w)

Next ==
    \/ \E w \in Workers : DialBegins(w) \/ DialStep(w)
    \/ \E f \in Flights : FlightStep(f) /\ UNCHANGED dialVars
    \/ TimeStep /\ UNCHANGED dialVars
    \/ NetworkChanges

Spec == Init /\ [][Next]_vars

-----------------------------------------------------------------------------
Holders == {f \in Flights : flight[f].pc \in GatePcs}

(***************************************************************************)
(* The token of fetchGate is in the gate, or one flight holds it: no error *)
(* and no done context keeps it, so the gate never closes for good and     *)
(* never lets two flights in (turn_credentials.go 88-93).                  *)
(***************************************************************************)
TokenBalance ==
    /\ fetchGate = IF Holders = {} THEN 1 ELSE 0
    /\ \A f, g \in Holders : f = g

(***************************************************************************)
(* The permits of turnGate are held by exactly the dials between           *)
(* acquireTURN and its release: none leaks on an error or a done context   *)
(* (supervisor.go 52-83, client.go 152-163).                               *)
(***************************************************************************)
PermitBalance == turnGate = Cardinality({w \in Workers : stage[w] \in PermitStages})

(***************************************************************************)
(* VK is asked to join a link by one flight at a time, never under flood   *)
(* control, and never when the link's credentials are valid or younger     *)
(* than the minimum reuse: the lanes that lose one network together do not *)
(* become a burst of joins (turn_credentials.go 81-103, 181-208).          *)
(***************************************************************************)
NoJoinBurst ==
    \A f \in Flights : flight[f].pc = "joining" =>
        /\ ~flood
        /\ cache[flight[f].link] = 0
        /\ flight[f].link \notin recent
        /\ \A g \in Flights \ {f} : flight[g].pc # "joining"

(***************************************************************************)
(* A Fetch that begins after Invalidate has returned never gets the        *)
(* credentials it dropped, not even from a flight that was on its way      *)
(* (group.Forget, turn_credentials.go 206-207).                            *)
(***************************************************************************)
DroppedStaysDropped ==
    \A w \in Workers : answer[w].kind = "ok" => answer[w].cred > floor[w]

(***************************************************************************)
(* Whoever waits for a flight is answered, or the flight is still on its   *)
(* way to them: none of them is left behind when the caller that leads it  *)
(* goes away, when its context is done or when the group forgets it        *)
(* (turn_credentials.go 84-128).                                           *)
(***************************************************************************)
NoWaiterLeftBehind ==
    \A w \in Workers : call[w] = "waiting" /\ answer[w] = Pending =>
        \E f \in Flights : w \in waiters[f] /\ flight[f].pc # "free"
=============================================================================
