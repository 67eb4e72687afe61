------------------------------- MODULE Captcha -------------------------------
(***************************************************************************)
(* The captcha of a join: solveVKCaptcha (transport/call/vk/vk_auth.go),   *)
(* the local proxy a person answers through (captcha_proxy.go) and the     *)
(* challenge the runtime publishes (common/hydracore/runtime_transport.go).*)
(*                                                                         *)
(* The proxy is one process-wide record.  A flow holds captchaFlowGate     *)
(* while it uses it, but others touch it too: the goroutine of a server    *)
(* that stopped serving, and VKJoiner.Close.  The challenge is cancelled   *)
(* by the person, and by ResetRuntimeTransportState when a service starts, *)
(* reloads or stops.                                                       *)
(***************************************************************************)
EXTENDS Integers

CONSTANTS
    Flows,        \* calls of solveVKCaptcha
    Proxies,      \* servers: bound on those that live at one time
    None          \* no flow, no proxy

ASSUME CaptchaAssumption == None \notin Flows \cup Proxies

VARIABLES
    captchaFlowGate, \* tokens in the channel
    place,        \* where a flow stands
    ctxDone,      \* flows whose context is done
    cancelled,    \* flows whose challengeContext was cancelled
    closer,       \* history: who cancelled it
    active,       \* activeCaptchaProxy
    failed,       \* its failed
    proxy,        \* a server, its keyCh and its doneCh
    watched,      \* the proxy whose channels GetCaptchaResultContext read
    outcome,      \* why the wait ended
    terminal,     \* flows whose error is terminal
    runtimeChallenge \* the flow whose challenge the runtime publishes

captchaVars == <<captchaFlowGate, place, ctxDone, cancelled, closer, active, failed, proxy, watched, outcome, terminal, runtimeChallenge>>
proxyVars == <<active, failed, proxy>>
questionVars == <<runtimeChallenge, cancelled, closer>>
resultVars == <<watched, outcome, terminal>>

Places == {"idle", "gate", "start", "publish", "asking", "waiting", "reading",
           "ended", "clearing", "stopping", "leaving"}
HeldPlaces == Places \ {"idle", "gate"}
Held == {f \in Flows : place[f] \in HeldPlaces}
NotServing == [state |-> "off", owner |-> None, token |-> FALSE, done |-> FALSE]

(***************************************************************************)
(* The types of the flows, the proxy and the challenge.                    *)
(***************************************************************************)
CaptchaTypeOK ==
    /\ captchaFlowGate \in 0..1
    /\ place \in [Flows -> Places]
    /\ ctxDone \subseteq Flows /\ cancelled \subseteq Flows /\ terminal \subseteq Flows
    /\ closer \in [Flows -> {"nobody", "person", "reset"}]
    /\ active \in Proxies \cup {None}
    /\ failed \in BOOLEAN
    /\ proxy \in [Proxies -> [state : {"off", "serving", "failing"}, owner : Flows \cup {None},
                              token : BOOLEAN, done : BOOLEAN]]
    /\ watched \in [Flows -> Proxies \cup {None}]
    /\ outcome \in [Flows -> {"none", "solved", "gone", "failed", "context", "timeout"}]
    /\ runtimeChallenge \in Flows \cup {None}

CaptchaInit ==
    /\ captchaFlowGate = 1
    /\ place = [f \in Flows |-> "idle"]
    /\ ctxDone = {} /\ cancelled = {} /\ terminal = {}
    /\ closer = [f \in Flows |-> "nobody"]
    /\ active = None /\ failed = FALSE
    /\ proxy = [p \in Proxies |-> NotServing]
    /\ watched = [f \in Flows |-> None]
    /\ outcome = [f \in Flows |-> "none"]
    /\ runtimeChallenge = None

GoTo(f, to) == place' = [place EXCEPT ![f] = to]

\* What StopCaptchaProxy leaves of the servers: doneCh is closed, the server too.
Stopped == [p \in Proxies |->
    IF p = active
      THEN [proxy[p] EXCEPT !.done = TRUE, !.state = IF @ = "serving" THEN "off" ELSE @]
      ELSE proxy[p]]

StopCaptchaProxy ==
    /\ active' = None /\ failed' = FALSE
    /\ proxy' = Stopped

-----------------------------------------------------------------------------
(* solveVKCaptcha                                                          *)

FlowBegins(f) ==
    /\ place[f] = "idle"
    /\ GoTo(f, "gate")
    /\ UNCHANGED <<captchaFlowGate, ctxDone, proxyVars, resultVars, questionVars>>

FlowEnters(f) ==
    /\ place[f] = "gate"
    /\ \/ /\ captchaFlowGate > 0
          /\ captchaFlowGate' = captchaFlowGate - 1
          /\ GoTo(f, "start")
          /\ UNCHANGED ctxDone
       \/ /\ f \in ctxDone
          /\ ctxDone' = ctxDone \ {f}
          /\ GoTo(f, "idle")
          /\ UNCHANGED captchaFlowGate
    /\ UNCHANGED <<proxyVars, resultVars, questionVars>>

\* Mutant: the gate is free again once the proxy runs.
StartInstallsAndLeaves(f, p) ==
    /\ place[f] = "start"
    /\ proxy[p].state = "off" /\ p # active /\ \A g \in Flows : watched[g] # p
    /\ active' = p /\ failed' = FALSE
    /\ proxy' = [Stopped EXCEPT ![p] = [state |-> "serving", owner |-> f, token |-> FALSE, done |-> FALSE]]
    /\ captchaFlowGate' = 1
    /\ GoTo(f, "publish")
    /\ UNCHANGED <<ctxDone, resultVars, questionVars>>

\* StartCaptchaProxy stops what is there, listens and installs a new server.
StartInstalls(f, p) ==
    /\ place[f] = "start"
    /\ proxy[p].state = "off" /\ p # active /\ \A g \in Flows : watched[g] # p
    /\ active' = p /\ failed' = FALSE
    /\ proxy' = [Stopped EXCEPT ![p] = [state |-> "serving", owner |-> f, token |-> FALSE, done |-> FALSE]]
    /\ GoTo(f, "publish")
    /\ UNCHANGED <<captchaFlowGate, ctxDone, resultVars, questionVars>>

\* A bad URI, or no port to listen on: the flow returns, not terminally.
StartFails(f) ==
    /\ place[f] = "start"
    /\ StopCaptchaProxy
    /\ GoTo(f, "leaving")
    /\ UNCHANGED <<captchaFlowGate, ctxDone, resultVars, questionVars>>

FlowPublishes(f) ==
    /\ place[f] = "publish"
    /\ runtimeChallenge' = f
    /\ GoTo(f, "asking")
    /\ UNCHANGED <<captchaFlowGate, ctxDone, cancelled, closer, proxyVars, resultVars>>

Ends(f, why) ==
    /\ outcome' = [outcome EXCEPT ![f] = why]
    /\ GoTo(f, "ended")

\* GetCaptchaResultContext takes the channels of whatever proxy is active,
FlowAsks(f) ==
    /\ place[f] = "asking"
    /\ watched' = [watched EXCEPT ![f] = active]
    /\ IF active = None THEN Ends(f, "gone") ELSE GoTo(f, "waiting") /\ UNCHANGED outcome
    /\ UNCHANGED <<captchaFlowGate, ctxDone, proxyVars, terminal, questionVars>>

\* and waits for a token,
FlowIsAnswered(f) ==
    /\ place[f] = "waiting"
    /\ proxy[watched[f]].token
    /\ proxy' = [proxy EXCEPT ![watched[f]].token = FALSE]
    /\ Ends(f, "solved")
    /\ UNCHANGED <<captchaFlowGate, ctxDone, active, failed, watched, terminal, questionVars>>

\* the context or the window,
FlowGivesUp(f) ==
    /\ place[f] = "waiting"
    /\ \/ f \in ctxDone \cup cancelled /\ Ends(f, "context")
       \/ Ends(f, "timeout")
    /\ UNCHANGED <<captchaFlowGate, ctxDone, proxyVars, watched, terminal, questionVars>>

\* or the end of the proxy;
FlowSeesDone(f) ==
    /\ place[f] = "waiting"
    /\ proxy[watched[f]].done
    /\ GoTo(f, "reading")
    /\ UNCHANGED <<captchaFlowGate, ctxDone, proxyVars, resultVars, questionVars>>

\* then it reads failed, under the lock, of whatever proxy is active by now.
FlowReadsFailed(f) ==
    /\ place[f] = "reading"
    /\ Ends(f, IF failed THEN "failed" ELSE "gone")
    /\ UNCHANGED <<captchaFlowGate, ctxDone, proxyVars, watched, terminal, questionVars>>

\* Mutant: every context that is done counts as a closed question.
FlowDecidesOnOutcome(f) ==
    /\ place[f] = "ended"
    /\ terminal' = IF outcome[f] = "context" THEN terminal \cup {f} ELSE terminal
    /\ GoTo(f, "clearing")
    /\ UNCHANGED <<captchaFlowGate, ctxDone, proxyVars, watched, outcome, questionVars>>

\* terminal := ctx.Err() == nil, but for the outcomes that may be asked again
FlowDecides(f) ==
    /\ place[f] = "ended"
    /\ terminal' = IF outcome[f] = "context" /\ f \notin ctxDone THEN terminal \cup {f} ELSE terminal
    /\ GoTo(f, "clearing")
    /\ UNCHANGED <<captchaFlowGate, ctxDone, proxyVars, watched, outcome, questionVars>>

\* The deferred calls, last first: ClearRuntimeChallenge,
FlowClears(f) ==
    /\ place[f] = "clearing"
    /\ runtimeChallenge' = IF runtimeChallenge = f THEN None ELSE runtimeChallenge
    /\ GoTo(f, "stopping")
    /\ UNCHANGED <<captchaFlowGate, ctxDone, cancelled, closer, proxyVars, resultVars>>

\* StopCaptchaProxy,
FlowStops(f) ==
    /\ place[f] = "stopping"
    /\ StopCaptchaProxy
    /\ GoTo(f, "leaving")
    /\ UNCHANGED <<captchaFlowGate, ctxDone, resultVars, questionVars>>

\* and the token of the gate.  The flow and its contexts are gone.
FlowLeaves(f) ==
    /\ place[f] = "leaving"
    /\ captchaFlowGate' = captchaFlowGate + 1
    /\ GoTo(f, "idle")
    /\ ctxDone' = ctxDone \ {f} /\ cancelled' = cancelled \ {f} /\ terminal' = terminal \ {f}
    /\ watched' = [watched EXCEPT ![f] = None]
    /\ outcome' = [outcome EXCEPT ![f] = "none"]
    /\ closer' = [closer EXCEPT ![f] = "nobody"]
    /\ UNCHANGED <<proxyVars, runtimeChallenge>>

-----------------------------------------------------------------------------
(* The others                                                              *)

\* The parent context of a flow is done: its dial or its client has ended.
ParentDone(f) ==
    /\ place[f] # "idle" /\ f \notin ctxDone
    /\ ctxDone' = ctxDone \cup {f}
    /\ UNCHANGED <<captchaFlowGate, place, proxyVars, resultVars, questionVars>>

\* The page posts the token, or VK's answer holds it: keyCh takes one.
PersonAnswers(p) ==
    /\ proxy[p].state = "serving" /\ ~proxy[p].token
    /\ proxy' = [proxy EXCEPT ![p].token = TRUE]
    /\ UNCHANGED <<captchaFlowGate, place, ctxDone, active, failed, resultVars, questionVars>>

\* Serve returns an error ...
ServeFails(p) ==
    /\ proxy[p].state = "serving"
    /\ proxy' = [proxy EXCEPT ![p].state = "failing"]
    /\ UNCHANGED <<captchaFlowGate, place, ctxDone, active, failed, resultVars, questionVars>>

\* ... and its goroutine calls captchaProxyFailed, for whatever proxy is active by now.
CaptchaProxyFailed(p) ==
    /\ proxy[p].state = "failing"
    /\ failed' = (active # None)
    /\ proxy' = [q \in Proxies |-> [proxy[q] EXCEPT
                    !.state = IF q = p THEN "off" ELSE @,
                    !.done = @ \/ q = active]]
    /\ UNCHANGED <<captchaFlowGate, place, ctxDone, active, resultVars, questionVars>>

\* VKJoiner.Close
JoinerCloses ==
    /\ active # None
    /\ StopCaptchaProxy
    /\ UNCHANGED <<captchaFlowGate, place, ctxDone, resultVars, questionVars>>

\* CancelRuntimeChallenge: by the person, or by ResetRuntimeTransportState
CancelChallenge(who) ==
    /\ runtimeChallenge # None
    /\ runtimeChallenge' = None
    /\ cancelled' = cancelled \cup {runtimeChallenge}
    /\ closer' = [closer EXCEPT ![runtimeChallenge] = who]
    /\ UNCHANGED <<captchaFlowGate, place, ctxDone, proxyVars, resultVars>>

FlowStep(f) ==
    \/ FlowBegins(f) \/ FlowEnters(f)
    \/ \E p \in Proxies : StartInstalls(f, p)
    \/ StartFails(f) \/ FlowPublishes(f) \/ FlowAsks(f) \/ FlowIsAnswered(f)
    \/ FlowGivesUp(f) \/ FlowSeesDone(f) \/ FlowReadsFailed(f) \/ FlowDecides(f)
    \/ FlowClears(f) \/ FlowStops(f) \/ FlowLeaves(f) \/ ParentDone(f)

CaptchaNext ==
    \/ \E f \in Flows : FlowStep(f)
    \/ \E p \in Proxies : PersonAnswers(p) \/ ServeFails(p) \/ CaptchaProxyFailed(p)
    \/ JoinerCloses
    \/ CancelChallenge("person")
    \/ CancelChallenge("reset")

CaptchaSpec == CaptchaInit /\ [][CaptchaNext]_captchaVars

-----------------------------------------------------------------------------
(***************************************************************************)
(* One question at a time, and each asked through its own proxy: the flow  *)
(* in the gate owns the active proxy, the challenge on display and the     *)
(* channels it waits on, and when it has left none of them is there        *)
(* (vk_auth.go 231-255: the order of the deferred calls).                  *)
(***************************************************************************)
QuestionIsOwn ==
    /\ captchaFlowGate = IF Held = {} THEN 1 ELSE 0
    /\ \A f, g \in Held : f = g
    /\ active # None => place[proxy[active].owner] \in HeldPlaces
    /\ runtimeChallenge # None => place[runtimeChallenge] \in {"asking", "waiting", "reading", "ended", "clearing"}
    /\ \A f \in Flows : watched[f] # None => proxy[watched[f]].owner = f

(***************************************************************************)
(* An error is terminal only if the challenge of this very flow was        *)
(* cancelled: a timeout, a dead proxy, a proxy stopped by a closing joiner *)
(* and a context torn down leave it to be asked again (vk_auth.go 259-273).*)
(***************************************************************************)
TerminalWasCancelled ==
    \A f \in terminal : f \in cancelled /\ outcome[f] = "context"

(***************************************************************************)
(* "Only a question the person actually closed ends the attempt"           *)
(* (vk_auth.go:259): what the comment and the change log say of a terminal *)
(* error.  A reset of the runtime state cancels the challenge as well.     *)
(***************************************************************************)
OnlyThePersonEndsIt == \A f \in terminal : closer[f] = "person"
=============================================================================
