------------------------------- MODULE MCJoin -------------------------------
(***************************************************************************)
(* How a lane gets its credentials, for TLC: the dials (DialPath), the     *)
(* captcha of a join (Captcha), and the process-wide state by which its    *)
(* question reaches the person (RuntimeTransport), side by side.  The      *)
(* first two meet in the join of a flight, whose every outcome DialPath    *)
(* allows; the last two in the challenge, which any client may publish and *)
(* clear.  So a behaviour moves one of the layers, chosen at the start.    *)
(*                                                                         *)
(* Two workers share one link and one TURN permit; two flows share the     *)
(* captcha gate; two calls of any kind share the state.                    *)
(***************************************************************************)
EXTENDS DialPath, Captcha, RuntimeTransport, TLC

CONSTANTS w1, w2, l1, f1, f2, s1, s2, p1, p2

VARIABLE layer

const_Workers == {w1, w2}
const_Links == {l1}
const_LinkOf == [w \in const_Workers |-> l1]
const_Flights == {f1, f2}
const_Flows == {s1, s2}
const_Proxies == {p1, p2}

Symmetry == Permutations(const_Workers) \cup Permutations(const_Flights)

MCInit == Init /\ CaptchaInit /\ RuntimeInit /\ layer \in {"dial", "captcha", "runtime"}

MCNext ==
    \/ layer = "dial" /\ Next /\ UNCHANGED <<captchaVars, runtimeVars, layer>>
    \/ layer = "captcha" /\ CaptchaNext /\ UNCHANGED <<vars, runtimeVars, layer>>
    \/ layer = "runtime" /\ RuntimeNext /\ UNCHANGED <<vars, captchaVars, layer>>

MCSpec == MCInit /\ [][MCNext]_<<vars, captchaVars, runtimeVars, layer>>
=============================================================================
