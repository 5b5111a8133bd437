--------------------------- MODULE Serving_proofs ---------------------------
(***************************************************************************)
(* Proofs about TunnelServer, and about Serving, its composition with an   *)
(* upgrade.  For any number of connections and targets, a request inside a *)
(* tunnel goes to the target of its own tunnel: the strengthening says     *)
(* where the target of a connection is at each stage, in the map while the *)
(* server may ask for it, and in the context of the connection from then   *)
(* on.  Every step of Serving is one of TunnelServer or leaves it alone,   *)
(* as an upgrade under way has a connection; so the same holds with        *)
(* upgrades going on.                                                      *)
(*                                                                         *)
(* Then the upgrade itself, for streams of any length.  UpgradeInv takes   *)
(* the handshake from step to step, and says of the splice that a copy is  *)
(* over only when its stream has ended and all of it is passed on, or one  *)
(* of the ends has gone or finished meanwhile.                             *)
(***************************************************************************)
EXTENDS Serving, TLAPS

\* A tunnel has a target from the call of serve on, and once it is served the
\* context of its connection holds that target (tunnel.go:341-356).
ContextIsOwn ==
  \A c \in Conns :
    /\ stage[c] = "tunnel" => connected[c] = NoTarget
    /\ stage[c] # "tunnel" => connected[c] \in Targets
    /\ stage[c] \in {"served", "upgrading"} => context[c] = connected[c]

IInv == TypeOK /\ TargetsFollowConns /\ ContextIsOwn /\ TargetIsOwn

-----------------------------------------------------------------------------

\* The strengthening holds before anything is handed over.
LEMMA InitIInv == Init => IInv
  BY NoTargetAssumption DEF Init, IInv, TypeOK, TargetsFollowConns, ContextIsOwn, TargetIsOwn,
     Stages

\* A step of a connection keeps the type.
LEMMA TypeIsKept == TypeOK /\ [Next]_vars => TypeOK'
<1> SUFFICES ASSUME TypeOK, [Next]_vars PROVE TypeOK'
  OBVIOUS
<1> USE SecureAssumption DEF TypeOK, Stages, Goto
<1>1. ASSUME NEW c \in Conns, NEW t \in Targets, Serve(c, t) PROVE TypeOK'
  BY <1>1 DEF Serve
<1>2. ASSUME NEW c \in Conns, Store(c) PROVE TypeOK'
  BY <1>2 DEF Store
<1>3. ASSUME NEW c \in Conns, Accept(c) PROVE TypeOK'
  BY <1>3 DEF Accept
<1>4. ASSUME NEW c \in Conns, ConnContext(c) PROVE TypeOK'
  BY <1>4 DEF ConnContext
<1>5. ASSUME NEW c \in Conns, Forwarded(c) PROVE TypeOK'
  BY <1>5 DEF Forwarded, RequestTo, Request
<1>6. ASSUME NEW c \in Conns, Upgrades(c) PROVE TypeOK'
  BY <1>6 DEF Upgrades, RequestTo, Request
<1>7. ASSUME NEW c \in Conns, NotUpgraded(c) PROVE TypeOK'
  BY <1>7 DEF NotUpgraded
<1>8. ASSUME NEW c \in Conns, Hijacked(c) PROVE TypeOK'
  BY <1>8 DEF Hijacked
<1>9. ASSUME NEW c \in Conns, Closed(c) PROVE TypeOK'
  BY <1>9 DEF Closed
<1>10. CASE UNCHANGED vars
  BY <1>10 DEF vars
<1> QED
  BY <1>1, <1>2, <1>3, <1>4, <1>5, <1>6, <1>7, <1>8, <1>9, <1>10 DEF Next, Handed

\* A step keeps the map and the contexts with their connections.
LEMMA TargetsAreKept == IInv /\ [Next]_vars => TargetsFollowConns' /\ ContextIsOwn'
<1> SUFFICES ASSUME IInv, [Next]_vars PROVE TargetsFollowConns' /\ ContextIsOwn'
  OBVIOUS
<1> USE NoTargetAssumption DEF IInv, TypeOK, TargetsFollowConns, ContextIsOwn, Stages, Goto
<1>1. ASSUME NEW c \in Conns, NEW t \in Targets, Serve(c, t)
      PROVE  TargetsFollowConns' /\ ContextIsOwn'
  BY <1>1 DEF Serve
<1>2. ASSUME NEW c \in Conns, Store(c) PROVE TargetsFollowConns' /\ ContextIsOwn'
  BY <1>2 DEF Store
<1>3. ASSUME NEW c \in Conns, Accept(c) PROVE TargetsFollowConns' /\ ContextIsOwn'
  BY <1>3 DEF Accept
<1>4. ASSUME NEW c \in Conns, ConnContext(c) PROVE TargetsFollowConns' /\ ContextIsOwn'
  BY <1>4 DEF ConnContext
<1>5. ASSUME NEW c \in Conns, Forwarded(c) PROVE TargetsFollowConns' /\ ContextIsOwn'
  BY <1>5 DEF Forwarded
<1>6. ASSUME NEW c \in Conns, Upgrades(c) PROVE TargetsFollowConns' /\ ContextIsOwn'
  BY <1>6 DEF Upgrades
<1>7. ASSUME NEW c \in Conns, NotUpgraded(c) PROVE TargetsFollowConns' /\ ContextIsOwn'
  BY <1>7 DEF NotUpgraded
<1>8. ASSUME NEW c \in Conns, Hijacked(c) PROVE TargetsFollowConns' /\ ContextIsOwn'
  BY <1>8 DEF Hijacked
<1>9. ASSUME NEW c \in Conns, Closed(c) PROVE TargetsFollowConns' /\ ContextIsOwn'
  BY <1>9 DEF Closed
<1>10. CASE UNCHANGED vars
  BY <1>10 DEF vars
<1> QED
  BY <1>1, <1>2, <1>3, <1>4, <1>5, <1>6, <1>7, <1>8, <1>9, <1>10 DEF Next, Handed

\* A step asks no target for another's request: new requests take the target from
\* the context, and those made before are of connections that keep theirs.
LEMMA RequestsAreKept == IInv /\ [Next]_vars => TargetIsOwn'
<1> SUFFICES ASSUME IInv, [Next]_vars, NEW r \in requests'
             PROVE  r.host = connected'[r.conn] /\ r.host # NoTarget
                    /\ ((r.scheme = "https") <=> secure)
  BY DEF TargetIsOwn
<1> USE NoTargetAssumption, SecureAssumption DEF IInv
<1>1. ASSUME r \in requests, connected'[r.conn] = connected[r.conn]
      PROVE  r.host = connected'[r.conn] /\ r.host # NoTarget
             /\ ((r.scheme = "https") <=> secure)
  BY <1>1 DEF TargetIsOwn
<1>2. ASSUME NEW c \in Conns, r = RequestTo(c), stage[c] = "served", connected' = connected
      PROVE  r.host = connected'[r.conn] /\ r.host # NoTarget
             /\ ((r.scheme = "https") <=> secure)
  BY <1>2 DEF RequestTo, ContextIsOwn
<1>3. ASSUME NEW c \in Conns, NEW t \in Targets, Serve(c, t)
      PROVE  r \in requests /\ connected'[r.conn] = connected[r.conn]
  <2>1. r \in requests /\ r \in Request
    BY <1>3 DEF Serve, TypeOK
  <2>2. r.conn \in Conns /\ connected[r.conn] # NoTarget
    BY <2>1 DEF TargetIsOwn, Request
  <2>3. r.conn # c
    BY <1>3, <2>2 DEF Serve, Goto, ContextIsOwn
  <2> QED
    BY <1>3, <2>1, <2>2, <2>3 DEF Serve, TypeOK
<1>4. ASSUME NEW c \in Conns, Forwarded(c) \/ Upgrades(c)
      PROVE  connected' = connected /\ (r \in requests \/ (r = RequestTo(c) /\ stage[c] = "served"))
  BY <1>4 DEF Forwarded, Upgrades, Goto
<1>5. ASSUME NEW c \in Conns,
             Store(c) \/ Accept(c) \/ ConnContext(c) \/ NotUpgraded(c) \/ Hijacked(c) \/ Closed(c)
      PROVE  r \in requests /\ connected' = connected
  BY <1>5 DEF Store, Accept, ConnContext, NotUpgraded, Hijacked, Closed
<1>6. CASE UNCHANGED vars
  BY <1>1, <1>6 DEF vars
<1> QED
  BY <1>1, <1>2, <1>3, <1>4, <1>5, <1>6 DEF Next, Handed

\* The strengthening is an invariant.
LEMMA Invariance == Spec => []IInv
<1>1. IInv /\ [Next]_vars => IInv'
  BY TypeIsKept, TargetsAreKept, RequestsAreKept DEF IInv
<1> QED
  BY InitIInv, <1>1, PTL DEF Spec

-----------------------------------------------------------------------------

\* The state of a tunnelServer keeps its type.
THEOREM TypeCorrect == Spec => []TypeOK
  BY Invariance, PTL DEF IInv

\* Whatever tunnels open and close meanwhile, a request goes to the host that its
\* own client asked for (tunnel.go:341-356, 376-385).
THEOREM TargetIsAlwaysOwn == Spec => []TargetIsOwn
  BY Invariance, PTL DEF IInv

\* The map holds the targets of the connections that are the server's, and no other
\* (tunnel.go:357-361).
THEOREM TargetsAlwaysFollow == Spec => []TargetsFollowConns
  BY Invariance, PTL DEF IInv

-----------------------------------------------------------------------------
(* The composition *)

ServingSpec == ServingInit /\ [][ServingNext]_servingVars

\* A handler that has begun an upgrade serves a connection.
UpgradeHasConn == step # "idle" => upgrading \in Conns

\* No step begins an upgrade without a connection, or takes its connection away.
LEMMA UpgradeHasConnStep ==
  UpgradeHasConn /\ [ServingNext]_servingVars => UpgradeHasConn'
<1> SUFFICES ASSUME UpgradeHasConn, [ServingNext]_servingVars PROVE UpgradeHasConn'
  OBVIOUS
<1> USE DEF UpgradeHasConn
<1>1. CASE ServerStep
  BY <1>1 DEF ServerStep, upgradeVars
<1>2. CASE UpgradeStep
  <2>1. CASE WS!Ends
    BY <1>2, <2>1 DEF UpgradeStep, WS!Ends, WS!ClientSends, WS!ClientEnds, WS!UpstreamAnswers,
       WS!UpstreamSends, WS!UpstreamEnds, WS!handler
  <2>2. CASE WS!Handshake
    BY <1>2, <2>2 DEF UpgradeStep, WS!Handshake, WS!Dial, WS!DialFails, WS!HijackFails,
       WS!WriteRequest, WS!WriteRequestFails, WS!ReadResponse, WS!ReadResponseFails,
       WS!WriteAnswer, WS!WriteAnswerFails, WS!Fails, WS!Goto
  <2>3. CASE WS!Up \/ WS!Down
    BY <1>2, <2>3 DEF UpgradeStep, WS!Up, WS!Down, WS!CopyUp, WS!CopyUpEnds, WS!CopyDown,
       WS!CopyDownEnds, WS!handler
  <2>4. CASE WS!SpliceEnds
    BY <1>2, <2>4 DEF UpgradeStep, WS!SpliceEnds, WS!Goto
  <2> QED
    BY <1>2, <2>1, <2>2, <2>3, <2>4 DEF UpgradeStep
<1>3. ASSUME NEW c \in Conns, UpgradeRequest(c) PROVE UpgradeHasConn'
  BY <1>3 DEF UpgradeRequest
<1>4. CASE Hijack
  BY <1>4 DEF Hijack, WS!Hijack, WS!Goto
<1>5. CASE HandlerReturns
  BY <1>5 DEF HandlerReturns, WS!Return, WS!Goto
<1>6. CASE UNCHANGED servingVars
  BY <1>6 DEF servingVars, upgradeVars
<1> QED
  BY <1>1, <1>2, <1>3, <1>4, <1>5, <1>6 DEF ServingNext

\* A step of the composition is one of the server, or none.
LEMMA ServingStep ==
  UpgradeHasConn /\ [ServingNext]_servingVars => [Next]_vars
<1> SUFFICES ASSUME UpgradeHasConn, [ServingNext]_servingVars PROVE [Next]_vars
  OBVIOUS
<1>1. CASE ServerStep
  BY <1>1 DEF ServerStep, Next
<1>2. CASE UpgradeStep
  BY <1>2 DEF UpgradeStep
<1>3. ASSUME NEW c \in Conns, UpgradeRequest(c) PROVE Next
  BY <1>3 DEF UpgradeRequest, Next
<1>4. CASE Hijack
  BY <1>4 DEF Hijack, WS!Hijack, WS!Goto, UpgradeHasConn, Next
<1>5. CASE HandlerReturns
  BY <1>5 DEF HandlerReturns, WS!Return, WS!Goto, UpgradeHasConn, Next
<1>6. CASE UNCHANGED servingVars
  BY <1>6 DEF servingVars
<1> QED
  BY <1>1, <1>2, <1>3, <1>4, <1>5, <1>6 DEF ServingNext

\* With an upgrade inside one of its connections a tunnelServer is still one: its
\* map and its contexts take no other steps (tunnel.go:341-399, 145-175).
THEOREM ServingImplementsTunnelServer == ServingSpec => Spec
<1>1. ServingInit => Init /\ UpgradeHasConn
  BY DEF ServingInit, UpgradeHasConn, WS!Init
<1> QED
  BY <1>1, UpgradeHasConnStep, ServingStep, PTL DEF ServingSpec, Spec

\* So a request goes to its own target with upgrades under way, too
\* (tunnel.go:341-356, 376-399).
THEOREM ServedTargetIsOwn == ServingSpec => []TargetIsOwn
  BY ServingImplementsTunnelServer, TargetIsAlwaysOwn, PTL

\* And the map loses a connection that a handler has taken over (tunnel.go:357-361).
THEOREM ServedTargetsFollow == ServingSpec => []TargetsFollowConns
  BY ServingImplementsTunnelServer, TargetsAlwaysFollow, PTL

-----------------------------------------------------------------------------
(* The upgrade *)

\* Of each stream the bytes read ahead and those passed on are not more than were sent.
StreamsInv ==
  /\ sent \in 0 .. MaxBytes /\ readAhead \in Nat /\ delivered \in Nat
  /\ readAhead + delivered <= sent
  /\ upSent \in 0 .. MaxBytes /\ upReadAhead \in Nat /\ returned \in Nat
  /\ upReadAhead + returned <= upSent

\* What the handler has done by the time it is at a step: there is an upstream
\* connection from hijack on, an answer after response, and the splice runs in its step
\* only, once the client has the 101.
StepInv ==
  /\ step \in {"idle", "dial"} <=> (upEnd = "none" /\ step \notin {"return", "over"})
  /\ upEnd = "none" => upSent = 0
  /\ answer # "none" => step \in {"response", "answer", "splice", "return", "over"}
  /\ step \in {"idle", "dial", "hijack", "request", "response", "answer"} =>
       told = "nothing" /\ copyUp = "off" /\ copyDown = "off"
  /\ step = "splice" => copyUp # "off" /\ copyDown # "off"
  /\ copyUp # "off" \/ copyDown # "off" => told = "101"
  /\ copyUp = "copying" \/ copyDown = "copying" => step = "splice"
  /\ copyUp = "off" => delivered = 0
  /\ copyDown = "off" => returned = 0

\* A client that has been told nothing when the handler returns has gone away, or
\* missed a refusal with a body.
AnswerInv ==
  (step \in {"return", "over"} /\ told = "nothing") =>
    clientEnd = "gone" \/ answer = "refusedWithBody"

\* httpmon closes a connection when the direction that writes to it has ended, or at
\* the end of the handler (websocket.go:43-57).
ClosedInv == /\ clientClosed => copyDown = "done" \/ step = "over"
             /\ upClosed => copyUp = "done" \/ step = "over"

\* Why a direction has ended: all of its stream is passed on, its source is gone, or
\* the other end is not there any more.  While the other direction still runs, it was
\* not the other direction's end that ended this one.
EndedInv ==
  /\ copyUp = "done" => \/ clientEnd = "gone"
                        \/ upEnd \in {"eof", "gone"}
                        \/ clientEnd = "eof" /\ delivered = sent
  /\ copyDown = "done" => \/ upEnd = "gone"
                          \/ clientEnd \in {"eof", "gone"}
                          \/ upEnd = "eof" /\ returned = upSent
  /\ (copyDown = "done" /\ copyUp = "copying") => clientEnd = "gone" \/ upEnd # "open"
  /\ (copyUp = "done" /\ copyDown = "copying") => upEnd = "gone" \/ clientEnd # "open"

\* The types that are not ranges of numbers.
UpgradeTypes ==
  /\ step \in {"idle", "dial", "hijack", "request", "response", "answer", "splice", "return",
               "over"}
  /\ numbered \in BOOLEAN /\ clientClosed \in BOOLEAN /\ upClosed \in BOOLEAN
  /\ answer \in {"none", "accepted", "refused", "refusedWithBody"}
  /\ told \in {"nothing", "error", "200", "refusal", "101"}
  /\ clientEnd \in {"open", "eof", "gone"} /\ upEnd \in {"none", "open", "eof", "gone"}
  /\ copyUp \in {"off", "copying", "done"} /\ copyDown \in {"off", "copying", "done"}

UpgradeInv == /\ UpgradeTypes
              /\ StreamsInv
              /\ StepInv
              /\ AnswerInv
              /\ ClosedInv
              /\ EndedInv

-----------------------------------------------------------------------------

\* For the upgrade a step of the composition is one of its own, or none.
UpgradeNext == \/ WS!Ends \/ WS!Handshake \/ WS!Up \/ WS!Down \/ WS!SpliceEnds
               \/ WS!Hijack \/ WS!Return
               \/ \E shouldLog \in BOOLEAN : WS!Begin(shouldLog)

LEMMA UpgradeOwnStep == [ServingNext]_servingVars => UpgradeNext \/ UNCHANGED upgradeVars
  BY DEF ServingNext, ServerStep, UpgradeStep, UpgradeRequest, Hijack, HandlerReturns,
         UpgradeNext, servingVars

\* The two ends may send, answer and go away as they like.
LEMMA EndsStep == UpgradeInv /\ WS!Ends => UpgradeInv'
<1> SUFFICES ASSUME UpgradeInv, WS!Ends PROVE UpgradeInv'
  OBVIOUS
<1> USE MaxBytesAssumption DEF UpgradeInv, UpgradeTypes, StreamsInv, StepInv, AnswerInv,
        ClosedInv, EndedInv, WS!handler, WS!client, WS!server, WS!flow
<1>1. CASE WS!ClientSends
  BY <1>1 DEF WS!ClientSends
<1>2. CASE WS!ClientEnds
  BY <1>2 DEF WS!ClientEnds
<1>3. CASE WS!UpstreamAnswers
  BY <1>3 DEF WS!UpstreamAnswers
<1>4. CASE WS!UpstreamSends
  BY <1>4 DEF WS!UpstreamSends
<1>5. CASE WS!UpstreamEnds
  BY <1>5 DEF WS!UpstreamEnds
<1> QED
  BY <1>1, <1>2, <1>3, <1>4, <1>5 DEF WS!Ends

\* A stream of which nothing has been passed on has all of it ahead.
LEMMA PlusZero == ASSUME NEW m \in Nat, NEW n, n = 0 PROVE m + n = m
  OBVIOUS

\* The handler, from the request to its return.
LEMMA HandshakeStep ==
  UpgradeInv /\ (WS!Handshake \/ WS!Hijack \/ WS!Return \/ \E b \in BOOLEAN : WS!Begin(b))
    => UpgradeInv'
<1> SUFFICES ASSUME UpgradeInv,
                    WS!Handshake \/ WS!Hijack \/ WS!Return \/ \E b \in BOOLEAN : WS!Begin(b)
             PROVE  UpgradeInv'
  OBVIOUS
<1> USE DEF UpgradeInv, UpgradeTypes, StreamsInv, StepInv, AnswerInv, ClosedInv, EndedInv,
            WS!handler, WS!client, WS!server, WS!flow, WS!Goto
<1>1. ASSUME NEW b \in BOOLEAN, WS!Begin(b) PROVE UpgradeInv'
  BY <1>1 DEF WS!Begin
<1>2. CASE WS!Dial
  BY <1>2 DEF WS!Dial
<1>3. CASE WS!Hijack
  <2>1. readAhead' \in Nat /\ readAhead' <= sent /\ sent' = sent /\ delivered' = 0
    BY <1>3 DEF WS!Hijack
  <2>2. upSent' = upSent /\ upReadAhead' = upReadAhead /\ returned' = returned
    BY <1>3 DEF WS!Hijack
  <2>3. UpgradeTypes' /\ StepInv' /\ AnswerInv' /\ ClosedInv' /\ EndedInv'
    BY <1>3 DEF WS!Hijack
  <2> HIDE DEF UpgradeTypes, StepInv, AnswerInv, ClosedInv, EndedInv
  <2>4. StreamsInv'
    BY MaxBytesAssumption, <2>1, <2>2, PlusZero
  <2> QED
    BY <2>3, <2>4
<1>4. CASE WS!WriteRequest
  BY <1>4 DEF WS!WriteRequest
<1>5. CASE WS!ReadResponse
  <2>1. upReadAhead' \in Nat /\ upReadAhead' <= upSent /\ upSent' = upSent /\ returned' = 0
    BY <1>5 DEF WS!ReadResponse
  <2>2. sent' = sent /\ readAhead' = readAhead /\ delivered' = delivered
    BY <1>5 DEF WS!ReadResponse
  <2>3. UpgradeTypes' /\ StepInv' /\ AnswerInv' /\ ClosedInv' /\ EndedInv'
    BY <1>5 DEF WS!ReadResponse
  <2> HIDE DEF UpgradeTypes, StepInv, AnswerInv, ClosedInv, EndedInv
  <2>4. StreamsInv'
    BY MaxBytesAssumption, <2>1, <2>2, PlusZero
  <2> QED
    BY <2>3, <2>4
<1>6. CASE WS!WriteAnswer
  BY <1>6 DEF WS!WriteAnswer
<1>7. CASE WS!DialFails \/ WS!HijackFails
  BY <1>7 DEF WS!DialFails, WS!HijackFails, WS!Fails
<1>8. CASE WS!WriteRequestFails \/ WS!ReadResponseFails
  BY <1>8 DEF WS!WriteRequestFails, WS!ReadResponseFails, WS!Fails
<1>9. CASE WS!WriteAnswerFails
  BY <1>9 DEF WS!WriteAnswerFails, WS!Fails
<1>10. CASE WS!Return
  BY <1>10 DEF WS!Return
<1> QED
  BY <1>1, <1>2, <1>3, <1>4, <1>5, <1>6, <1>7, <1>8, <1>9, <1>10 DEF WS!Handshake

\* The two directions of the splice, and its end.
LEMMA SpliceStep == UpgradeInv /\ (WS!Up \/ WS!Down \/ WS!SpliceEnds) => UpgradeInv'
<1> SUFFICES ASSUME UpgradeInv, WS!Up \/ WS!Down \/ WS!SpliceEnds PROVE UpgradeInv'
  OBVIOUS
<1> USE DEF UpgradeInv, UpgradeTypes, StreamsInv, StepInv, AnswerInv, ClosedInv, EndedInv,
            WS!handler, WS!client, WS!server, WS!flow, WS!ClientHas, WS!UpstreamHas,
            WS!ClientWritable, WS!UpstreamWritable, WS!AtMostOne
<1>1. CASE WS!CopyUp
  BY <1>1 DEF WS!CopyUp
<1>2. CASE WS!CopyUpEnds
  BY <1>2 DEF WS!CopyUpEnds
<1>3. CASE WS!CopyDown
  BY <1>3 DEF WS!CopyDown
<1>4. CASE WS!CopyDownEnds
  BY <1>4 DEF WS!CopyDownEnds
<1>5. CASE WS!SpliceEnds
  BY <1>5 DEF WS!SpliceEnds, WS!Goto
<1> QED
  BY <1>1, <1>2, <1>3, <1>4, <1>5 DEF WS!Up, WS!Down

\* The strengthening holds of the upgrade in any behaviour of the server around it.
LEMMA UpgradeInvariance == ServingSpec => []UpgradeInv
<1>1. ServingInit => UpgradeInv
  <2> SUFFICES ASSUME WS!Init PROVE UpgradeInv
    BY DEF ServingInit
  <2> USE DEF WS!Init
  <2>1. UpgradeTypes /\ StepInv /\ AnswerInv /\ ClosedInv /\ EndedInv
    BY DEF UpgradeTypes, StepInv, AnswerInv, ClosedInv, EndedInv
  <2>2. StreamsInv
    BY MaxBytesAssumption DEF StreamsInv
  <2> QED
    BY <2>1, <2>2 DEF UpgradeInv
<1>2. UpgradeInv /\ [ServingNext]_servingVars => UpgradeInv'
  <2> SUFFICES ASSUME UpgradeInv, [ServingNext]_servingVars PROVE UpgradeInv'
    OBVIOUS
  <2>1. CASE UpgradeNext
    BY <2>1, EndsStep, HandshakeStep, SpliceStep DEF UpgradeNext
  <2>2. CASE UNCHANGED upgradeVars
    BY <2>2 DEF upgradeVars, UpgradeInv, UpgradeTypes, StreamsInv, StepInv, AnswerInv,
                ClosedInv, EndedInv
  <2> QED
    BY <2>1, <2>2, UpgradeOwnStep
<1> QED
  BY <1>1, <1>2, PTL DEF ServingSpec

\* The state of the upgrade keeps its type: no stream has more read ahead and passed on
\* than was sent.
THEOREM UpgradeTypeCorrect == ServingSpec => []WS!TypeOK
<1>1. UpgradeInv => WS!TypeOK
  BY MaxBytesAssumption DEF UpgradeInv, UpgradeTypes, StreamsInv, WS!TypeOK
<1> QED
  BY <1>1, UpgradeInvariance, PTL

\* Nothing is spliced before the 101, and the end that finishes first has all it sent
\* passed on, for streams of any length (websocket.go:46-56).
THEOREM SplicedIsUntouched == ServingSpec => []SplicedUntouched
<1>1. UpgradeInv => SplicedUntouched
  BY DEF UpgradeInv, UpgradeTypes, StreamsInv, StepInv, EndedInv, SplicedUntouched,
         WS!SplicedUntouched
<1> QED
  BY <1>1, UpgradeInvariance, PTL

\* A client still there at the end of its upgrade has been answered, but for a refusal
\* with a body (websocket.go:31-36).
THEOREM HandshakeIsAnswered == ServingSpec => []HandshakeAnswered
<1>1. UpgradeInv => HandshakeAnswered
  BY DEF UpgradeInv, UpgradeTypes, AnswerInv, HandshakeAnswered, WS!HandshakeAnswered
<1> QED
  BY <1>1, UpgradeInvariance, PTL
=============================================================================
