------------------------------- MODULE Serving -------------------------------
(***************************************************************************)
(* A tunnelServer and a WebSocket upgrade inside one of its connections:   *)
(* handleTunnelRequest hands the request to handleWebSocket, which takes   *)
(* the connection away from the server (Hijack), or leaves it there when   *)
(* the upstream cannot be reached.  The server, its map and the other      *)
(* connections go on meanwhile.                                            *)
(***************************************************************************)
EXTENDS TunnelServer, Naturals

CONSTANT MaxBytes   \* as in WebSocket

ASSUME MaxBytesAssumption == MaxBytes \in Nat

VARIABLES
  upgrading, \* the connection of the upgrade, or NoConn
  step, numbered, answer, told, sent, clientEnd, clientClosed, upSent, upEnd, upClosed,
  readAhead, upReadAhead, delivered, returned, copyUp, copyDown  \* as in WebSocket

WS == INSTANCE WebSocket

upgradeVars == <<step, numbered, answer, told, sent, clientEnd, clientClosed, upSent, upEnd,
                 upClosed, readAhead, upReadAhead, delivered, returned, copyUp, copyDown>>

servingVars == <<vars, upgrading, upgradeVars>>

ServingInit == Init /\ WS!Init /\ upgrading = NoConn

-----------------------------------------------------------------------------

\* A step of the server alone.
ServerStep == /\ \E c \in Conns : Handed(c) \/ Forwarded(c) \/ Closed(c)
              /\ UNCHANGED <<upgrading, upgradeVars>>

\* A step of the upgrade alone.
UpgradeStep == /\ \/ WS!Ends \/ WS!Handshake \/ WS!Up \/ WS!Down \/ WS!SpliceEnds
               /\ UNCHANGED <<vars, upgrading>>

\* handleTunnelRequest finds an upgrade request.
UpgradeRequest(c) == /\ Upgrades(c)
                     /\ \E shouldLog \in BOOLEAN : WS!Begin(shouldLog)
                     /\ upgrading' = c

\* Hijack runs the server's state hook.
Hijack == /\ WS!Hijack
          /\ Hijacked(upgrading)
          /\ UNCHANGED upgrading

\* Of a connection that was hijacked the server knows nothing any more; any other
\* is still its own.
HandlerReturns == /\ WS!Return
                  /\ IF stage[upgrading] = "upgrading" THEN NotUpgraded(upgrading)
                                                       ELSE UNCHANGED vars
                  /\ UNCHANGED upgrading

ServingNext == \/ ServerStep \/ UpgradeStep
               \/ \E c \in Conns : UpgradeRequest(c)
               \/ Hijack \/ HandlerReturns

\* The splice's goroutines run while they can; nothing is promised of the ends.
ServingFairSpec ==
  /\ ServingInit /\ [][ServingNext]_servingVars
  /\ WF_servingVars(WS!Up /\ UNCHANGED <<vars, upgrading>>)
  /\ WF_servingVars(WS!Down /\ UNCHANGED <<vars, upgrading>>)
  /\ WF_servingVars(WS!SpliceEnds /\ UNCHANGED <<vars, upgrading>>)
  /\ WF_servingVars(HandlerReturns)

-----------------------------------------------------------------------------
(* Properties of the two components, in their composition *)

SplicedUntouched  == WS!SplicedUntouched
HandshakeAnswered == WS!HandshakeAnswered
UpgradeEnds       == WS!UpgradeEnds
=============================================================================
