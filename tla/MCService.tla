----------------------------- MODULE MCService -----------------------------
(***************************************************************************)
(* The two actors that stand between the program and the service: the      *)
(* WebSocket bridge and the rate limiter.  They meet only in the 429 that  *)
(* the WebSocket reports, which RateLimiter takes at any time (OutOfBand), *)
(* so one run checks them side by side: `part` says which of them moves.   *)
(***************************************************************************)
EXTENDS RateLimiter, WsBridge

CONSTANT Parts
VARIABLE part

allVars == <<part, limiterVars, bridgeVars>>

Init == part \in Parts /\ LimiterInit /\ BridgeInit
Next == /\ \/ part = "limiter" /\ LimiterNext /\ UNCHANGED bridgeVars
           \/ part = "bridge" /\ BridgeNext /\ UNCHANGED limiterVars
        /\ UNCHANGED part
Spec == /\ Init /\ [][Next]_allVars
        /\ part = "bridge" => BridgeFairness

\* Both parts are well typed (api/rate_limiter.py, api/websocket.py).
TypeOK == LimiterTypeOK /\ BridgeTypeOK
=============================================================================
