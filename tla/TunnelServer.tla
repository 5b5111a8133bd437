---------------------------- MODULE TunnelServer ----------------------------
(***************************************************************************)
(* A tunnelServer (tunnel.go): an http.Server that serves the connections  *)
(* handed to it from CONNECT tunnels, all through one listener that is fed *)
(* by hand.  A request inside a tunnel names no proxy target; the server   *)
(* finds it by its connection, in a map which the goroutine of the tunnel  *)
(* writes, the accepting goroutine reads once into the context of the      *)
(* connection, and the connection's state hook cleans.                     *)
(*                                                                         *)
(* The http.Server is external: it accepts, calls ConnContext, serves any  *)
(* number of requests and calls ConnState when it is done with the         *)
(* connection, or a handler has taken it over.                             *)
(***************************************************************************)

CONSTANTS Conns,     \* the connections that may be handed over
          Targets,   \* the hosts that clients CONNECT to
          NoTarget, NoConn,
          secure     \* whether this is tlsTunnels or plainTunnels

ASSUME NoTargetAssumption == NoTarget \notin Targets
ASSUME NoConnAssumption == NoConn \notin Conns
ASSUME SecureAssumption == secure \in BOOLEAN

VARIABLES
  stage,     \* of each connection: "tunnel", "store", "push", "accepted", "served",
             \* "upgrading", "hijacked", "closed"
  connected, \* the target that the client of each connection asked for
  started,   \* once.Do(start) has run: there is a listener and a server
  targets,   \* the map: the target stored for a connection, or NoTarget
  accepting, \* the connection between Accept and its goroutine
  context,   \* what ConnContext has put in the connection's context
  requests   \* what has been asked of whom (history)

vars == <<stage, connected, started, targets, accepting, context, requests>>

Request == [conn : Conns, scheme : {"http", "https"}, host : Targets \cup {NoTarget}]

Init == /\ stage = [c \in Conns |-> "tunnel"]
        /\ connected = [c \in Conns |-> NoTarget]
        /\ started = FALSE
        /\ targets = [c \in Conns |-> NoTarget]
        /\ accepting = NoConn
        /\ context = [c \in Conns |-> NoTarget]
        /\ requests = {}

Goto(c, from, to) == stage[c] = from /\ stage' = [stage EXCEPT ![c] = to]

-----------------------------------------------------------------------------
(* serve, in the goroutine of the tunnel *)

\* The first tunnel starts the server; a second one waits in once.Do for it.
Serve(c, target) ==
  /\ Goto(c, "tunnel", "store")
  /\ connected' = [connected EXCEPT ![c] = target]
  /\ started' = TRUE
  /\ UNCHANGED <<targets, accepting, context, requests>>

\* Mutant: the connection is pushed first, and its target stored afterwards.
Store_AfterPush(c) ==
  /\ \/ Goto(c, "store", "push") /\ UNCHANGED targets
     \/ /\ stage[c] \in {"accepted", "served"}
        /\ targets' = [targets EXCEPT ![c] = connected[c]]
        /\ UNCHANGED stage
  /\ UNCHANGED <<connected, started, accepting, context, requests>>

Store(c) ==
  /\ Goto(c, "store", "push")
  /\ targets' = [targets EXCEPT ![c] = connected[c]]
  /\ UNCHANGED <<connected, started, accepting, context, requests>>

\* push and Accept meet on an unbuffered channel; the listener is never closed.
Accept(c) ==
  /\ Goto(c, "push", "accepted")
  /\ started /\ accepting = NoConn
  /\ accepting' = c
  /\ UNCHANGED <<connected, started, targets, context, requests>>

\* Mutant: the context is that of the connection accepted last before.
ConnContext_Shared(c) ==
  /\ Goto(c, "accepted", "served")
  /\ accepting = c
  /\ accepting' = NoConn
  /\ context' = [d \in Conns |-> targets[c]]
  /\ UNCHANGED <<connected, started, targets, requests>>

\* ConnContext, and the goroutine of the connection is started.
ConnContext(c) ==
  /\ Goto(c, "accepted", "served")
  /\ accepting = c
  /\ accepting' = NoConn
  /\ context' = [context EXCEPT ![c] = targets[c]]
  /\ UNCHANGED <<connected, started, targets, requests>>

-----------------------------------------------------------------------------
(* handleTunnelRequest, in the goroutine of a request *)

RequestTo(c) == [conn |-> c, scheme |-> IF secure THEN "https" ELSE "http", host |-> context[c]]

\* forwardRequest takes it from here (module Forward).
Forwarded(c) ==
  /\ stage[c] = "served"
  /\ requests' = requests \cup {RequestTo(c)}
  /\ UNCHANGED <<stage, connected, started, targets, accepting, context>>

\* handleWebSocket takes it; of HTTP/1.1, where a connection has one request at a time.
Upgrades(c) ==
  /\ Goto(c, "served", "upgrading")
  /\ requests' = requests \cup {RequestTo(c)}
  /\ UNCHANGED <<connected, started, targets, accepting, context>>

\* The handler returns with the connection still the server's.
NotUpgraded(c) ==
  /\ Goto(c, "upgrading", "served")
  /\ UNCHANGED <<connected, started, targets, accepting, context, requests>>

-----------------------------------------------------------------------------
(* ConnState *)

\* Mutant: the hook acts on StateClosed alone.
Hijacked_KeepsTarget(c) ==
  /\ Goto(c, "upgrading", "hijacked")
  /\ UNCHANGED <<connected, started, targets, accepting, context, requests>>

\* StateHijacked: the server will never close this connection.
Hijacked(c) ==
  /\ Goto(c, "upgrading", "hijacked")
  /\ targets' = [targets EXCEPT ![c] = NoTarget]
  /\ UNCHANGED <<connected, started, accepting, context, requests>>

Closed(c) ==
  /\ Goto(c, "served", "closed")
  /\ targets' = [targets EXCEPT ![c] = NoTarget]
  /\ UNCHANGED <<connected, started, accepting, context, requests>>

-----------------------------------------------------------------------------

Handed(c) == (\E t \in Targets : Serve(c, t)) \/ Store(c) \/ Accept(c) \/ ConnContext(c)

Next == \E c \in Conns : \/ Handed(c) \/ Forwarded(c) \/ Upgrades(c) \/ NotUpgraded(c)
                         \/ Hijacked(c) \/ Closed(c)

Spec == Init /\ [][Next]_vars

-----------------------------------------------------------------------------
(* Properties *)

Stages == {"tunnel", "store", "push", "accepted", "served", "upgrading", "hijacked", "closed"}

TypeOK ==
  /\ stage \in [Conns -> Stages]
  /\ connected \in [Conns -> Targets \cup {NoTarget}]
  /\ started \in BOOLEAN
  /\ targets \in [Conns -> Targets \cup {NoTarget}]
  /\ accepting \in Conns \cup {NoConn}
  /\ context \in [Conns -> Targets \cup {NoTarget}]
  /\ requests \subseteq Request

\* Every request inside a tunnel goes to the host that its own client asked for
\* with CONNECT, and over TLS exactly if the client spoke TLS, however tunnels
\* open, are accepted and close meanwhile (tunnel.go:341-356, 376-385).
TargetIsOwn ==
  \A r \in requests : /\ r.host = connected[r.conn] /\ r.host # NoTarget
                      /\ (r.scheme = "https") <=> secure

\* The map remembers a connection exactly as long as the server may still need
\* its target, also when it is taken over by a handler, after which the server
\* never reports it closed (tunnel.go:357-361).
TargetsFollowConns ==
  \A c \in Conns :
    targets[c] = IF stage[c] \in {"push", "accepted", "served", "upgrading"}
                   THEN connected[c] ELSE NoTarget
=============================================================================
