-------------------------------- MODULE MCLive -------------------------------
(***************************************************************************)
(* Three components that share no state and promise progress: the login    *)
(* throttle, the WebSocket bridge, and the pins and expiry dates of hosts. *)
(* A behaviour moves one of them; the others stay in one initial state.    *)
(***************************************************************************)
EXTENDS LoginThrottle, WsBridge, Pins

VARIABLE part
liveVars == <<part, throttleVars, bridgeVars, pinVars>>

Init ==
  /\ part \in {"throttle", "bridge", "pins"}
  /\ ThrottleInit /\ BridgeInit /\ PinsInit
  /\ part # "bridge" => enrolled.tls /\ enrolled.pinned /\ matches
  /\ part # "pins" => \A u, v \in Https : serves[u] = serves[v]

Next ==
  /\ UNCHANGED part
  /\ \/ part = "throttle" /\ ThrottleNext /\ UNCHANGED <<bridgeVars, pinVars>>
     \/ part = "bridge" /\ BridgeNext /\ UNCHANGED <<throttleVars, pinVars>>
     \/ part = "pins" /\ PinsNext /\ UNCHANGED <<throttleVars, bridgeVars>>

\* Time goes on.  The bridge's receive has a timeout and its calls return, so the
\* handler's thread goes on; the pump goes on only when its recv returns.  The
\* monitor loop sweeps for ever.  Nothing is assumed of requests or far ends.
Fairness ==
  /\ WF_throttleVars(part = "throttle" /\ ThrottleTick)
  /\ WF_bridgeVars(part = "bridge" /\ MainStep)
  /\ WF_bridgeVars(part = "bridge" /\ PumpHangup)
  /\ WF_bridgeVars(part = "bridge" /\ PumpClose)
  /\ WF_pinVars(part = "pins" /\ SweepBegin)
  /\ WF_pinVars(part = "pins" /\ SweepEnd)
  /\ \A h \in PinHosts : WF_pinVars(part = "pins" /\ SweepRead(h))

Spec == Init /\ [][Next]_liveVars /\ Fairness

(* The types of the three components. *)
TypeOK == ThrottleTypeOK /\ BridgeTypeOK /\ PinsTypeOK

=============================================================================
