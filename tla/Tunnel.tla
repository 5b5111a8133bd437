------------------------------- MODULE Tunnel -------------------------------
(***************************************************************************)
(* One CONNECT tunnel (tunnel.go): handleConnect, which tells from the     *)
(* first byte what the client speaks, relayOpaque, which splices a tunnel  *)
(* that does not carry HTTP to its target, and dialUpstream, directly or   *)
(* through an upstream proxy (dialProxyTunnel, main.go).  A tunnel given   *)
(* to a tunnelServer ends here as "served".                                *)
(*                                                                         *)
(* Both streams are numbers of bytes: of what one side has sent the first  *)
(* bytes are gone, the next are in a reader's buffer, the rest is in its   *)
(* socket.  A side may end its stream and go on reading ("eof"), or go     *)
(* away altogether ("gone").                                               *)
(***************************************************************************)
EXTENDS Naturals

CONSTANTS Openings,    \* what clients speak
          Routes,      \* how the target is reached
          MaxBytes     \* the longest stream (bounds the state space)

ASSUME OpeningsAssumption == Openings \subseteq {"tls", "http", "other"}
ASSUME RoutesAssumption == Routes \subseteq {"direct", "proxy"}
ASSUME MaxBytesAssumption == MaxBytes \in Nat

VARIABLES
  pc,        \* the tunnel's goroutine
  opening,   \* what the client's first byte belongs to
  route,
  deadline,  \* read deadline on the client's connection: "none", "first", "setup"
  sent, clientEnd,  \* bytes the client has sent, "open", "eof" or "gone"
  swallowed, \* of these, bytes left in the reader that Hijack returns
  buffered,  \* bytes in br
  delivered, \* bytes written to the target
  upSent, upEnd,  \* the same of the target; "none" before there is a connection
  answered,  \* bytes of the target written to the client
  copyUp, copyDown,       \* the relay's two goroutines: "off", "copying", "done"
  upSeesEOF, clientSeesEOF \* closeWrite has been called on this side

client   == <<opening, sent, clientEnd>>
upstream == <<upSent, upEnd>>
upward   == <<swallowed, buffered, delivered>>
relay    == <<copyUp, copyDown, upSeesEOF, clientSeesEOF>>
vars == <<pc, route, deadline, client, upstream, upward, answered, relay>>

Init == /\ pc = "connect"
        /\ opening \in Openings /\ route \in Routes
        /\ deadline = "none"
        /\ sent = 0 /\ clientEnd = "open"
        /\ swallowed = 0 /\ buffered = 0 /\ delivered = 0
        /\ upSent = 0 /\ upEnd = "none"
        /\ answered = 0
        /\ copyUp = "off" /\ copyDown = "off"
        /\ upSeesEOF = FALSE /\ clientSeesEOF = FALSE

\* What the client's connection still holds.
InSocket == sent - (swallowed + buffered + delivered)

Goto(from, to) == pc = from /\ pc' = to

-----------------------------------------------------------------------------
(* The two ends (external) *)

\* It need not wait for the answer to its CONNECT.
ClientSends == /\ clientEnd = "open" /\ sent < MaxBytes
               /\ sent' = sent + 1
               /\ UNCHANGED <<pc, route, deadline, opening, clientEnd, upstream, upward,
                              answered, relay>>

ClientEnds == /\ \/ clientEnd = "open" /\ clientEnd' \in {"eof", "gone"}
                 \/ clientEnd = "eof" /\ clientEnd' = "gone"
              /\ UNCHANGED <<pc, route, deadline, opening, sent, upstream, upward, answered,
                             relay>>

TargetSends == /\ upEnd = "open" /\ upSent < MaxBytes
               /\ upSent' = upSent + 1
               /\ UNCHANGED <<pc, route, deadline, client, upEnd, upward, answered, relay>>

TargetEnds == /\ \/ upEnd = "open" /\ upEnd' \in {"eof", "gone"}
                 \/ upEnd = "eof" /\ upEnd' = "gone"
              /\ UNCHANGED <<pc, route, deadline, client, upSent, upward, answered, relay>>

-----------------------------------------------------------------------------
(* handleConnect *)

Fails(from) == /\ Goto(from, "closed")
               /\ UNCHANGED <<route, deadline, client, upstream, upward, answered, relay>>

\* The reader that comes with the connection is not used: what the server had
\* read ahead of the CONNECT stays in it.
Hijack == /\ Goto("connect", "reply")
          /\ swallowed' \in 0 .. sent
          /\ UNCHANGED <<route, deadline, client, upstream, buffered, delivered, answered, relay>>

HijackFails == Fails("connect")

\* The bare 200, then a deadline for the first byte.
Reply == /\ Goto("reply", "peek")
         /\ deadline' = "first"
         /\ UNCHANGED <<route, client, upstream, upward, answered, relay>>

ReplyFails == clientEnd = "gone" /\ Fails("reply")

\* What the first byte read belongs to.
FirstByte == IF swallowed = 0 THEN {opening} ELSE {"tls", "http", "other"}

\* Mutant: a tunnel that is not TLS keeps the deadline of its first byte.
Peek_KeepsDeadline(n) ==
  /\ n <= InSocket
  /\ buffered' = n
  /\ \E first \in FirstByte :
       \/ first = "tls"   /\ Goto("peek", "setup") /\ deadline' = "setup"
       \/ first = "http"  /\ Goto("peek", "served") /\ UNCHANGED deadline
       \/ first = "other" /\ Goto("peek", "dial") /\ UNCHANGED deadline
  /\ UNCHANGED <<route, client, upstream, swallowed, delivered, answered, relay>>

\* Peek fills the buffer with what has come; the first byte of it tells TLS,
\* HTTP in the clear and anything else apart.
Peek(n) ==
  /\ n <= InSocket
  /\ buffered' = n
  /\ \E first \in FirstByte :
       \/ first = "tls"   /\ Goto("peek", "setup") /\ deadline' = "setup"
       \/ first = "http"  /\ Goto("peek", "served") /\ deadline' = "none"
       \/ first = "other" /\ Goto("peek", "dial") /\ deadline' = "none"
  /\ UNCHANGED <<route, client, upstream, swallowed, delivered, answered, relay>>

\* Mutant: a client that is silent is hung up on.
PeekTimesOut_Closes == Fails("peek")

\* The deadline passes, perhaps just as the first byte comes: the client is
\* taken to wait for the server.
PeekTimesOut ==
  /\ Goto("peek", "dial")
  /\ deadline' = "none"
  /\ UNCHANGED <<route, client, upstream, upward, answered, relay>>

PeekFails == clientEnd # "open" /\ (InSocket = 0 \/ clientEnd = "gone") /\ Fails("peek")

\* The certificate, the handshake, and no deadline any more.
Handshake ==
  /\ Goto("setup", "served")
  /\ deadline' = "none"
  /\ UNCHANGED <<route, client, upstream, upward, answered, relay>>

SetupFails == Fails("setup")

-----------------------------------------------------------------------------
(* dialUpstream *)

\* The target is reached; with a proxy its answer to CONNECT is still to come.
Dial == /\ Goto("dial", IF route = "direct" THEN "splice" ELSE "proxyReply")
        /\ upEnd' = "open"
        /\ UNCHANGED <<route, deadline, client, upSent, upward, answered, relay>>

DialFails == Fails("dial")

\* dialProxyTunnel: the proxy accepts, and some of what the target has sent may
\* have come with its answer.
ProxyReply == /\ pc = "proxyReply"
              /\ \E n \in 0 .. upSent : pc' = IF n = 0 THEN "splice" ELSE "greeted"
              /\ UNCHANGED <<route, deadline, client, upstream, upward, answered, relay>>

\* Bytes that came with the answer are an error.
RefuseGreeting == Fails("greeted")

ProxyReplyFails == Fails("proxyReply")

-----------------------------------------------------------------------------
(* relayOpaque *)

Splice == /\ Goto("splice", "relay")
          /\ copyUp' = "copying" /\ copyDown' = "copying"
          /\ UNCHANGED <<route, deadline, client, upstream, upward, answered, upSeesEOF,
                         clientSeesEOF>>

\* One byte to the target, from the buffer first.
CopyUp ==
  /\ copyUp = "copying" /\ buffered + InSocket > 0 /\ upEnd # "gone"
  /\ delivered' = delivered + 1
  /\ buffered' = IF buffered > 0 THEN buffered - 1 ELSE 0
  /\ UNCHANGED <<pc, route, deadline, client, upstream, swallowed, answered, relay>>

\* The copy ends at the end of the stream, or because a read or a write fails.
CopyUpStops == \/ clientEnd = "eof" /\ buffered + InSocket = 0
               \/ clientEnd = "gone"
               \/ upEnd = "gone" /\ buffered + InSocket > 0
               \/ deadline # "none"

\* Mutant: the end of one direction ends the other.
CopyUpEnds_ClosesBoth ==
  /\ copyUp = "copying" /\ CopyUpStops
  /\ copyUp' = "done" /\ upSeesEOF' = TRUE
  /\ copyDown' = "done" /\ clientSeesEOF' = TRUE
  /\ UNCHANGED <<pc, route, deadline, client, upstream, upward, answered>>

\* Mutant: the target is not told.
CopyUpEnds_Silent ==
  /\ copyUp = "copying" /\ CopyUpStops
  /\ copyUp' = "done"
  /\ UNCHANGED <<pc, route, deadline, client, upstream, upward, answered, copyDown, upSeesEOF,
                 clientSeesEOF>>

\* closeWrite(up): the target learns that the client has no more to say.
CopyUpEnds ==
  /\ copyUp = "copying" /\ CopyUpStops
  /\ copyUp' = "done" /\ upSeesEOF' = TRUE
  /\ UNCHANGED <<pc, route, deadline, client, upstream, upward, answered, copyDown,
                 clientSeesEOF>>

CopyDown ==
  /\ copyDown = "copying" /\ answered < upSent /\ clientEnd # "gone"
  /\ answered' = answered + 1
  /\ UNCHANGED <<pc, route, deadline, client, upstream, upward, relay>>

CopyDownStops == \/ upEnd = "eof" /\ answered = upSent
                 \/ upEnd = "gone"
                 \/ clientEnd = "gone" /\ answered < upSent

CopyDownEnds ==
  /\ copyDown = "copying" /\ CopyDownStops
  /\ copyDown' = "done" /\ clientSeesEOF' = TRUE
  /\ UNCHANGED <<pc, route, deadline, client, upstream, upward, answered, copyUp, upSeesEOF>>

\* Both have ended: both connections are closed.
CloseBoth ==
  /\ copyUp = "done" /\ copyDown = "done"
  /\ Goto("relay", "closed")
  /\ UNCHANGED <<route, deadline, client, upstream, upward, answered, relay>>

-----------------------------------------------------------------------------

Ends == ClientSends \/ ClientEnds \/ TargetSends \/ TargetEnds

Setup == \/ Hijack \/ HijackFails
         \/ Reply \/ ReplyFails
         \/ (\E n \in 1 .. MaxBytes : Peek(n)) \/ PeekTimesOut \/ PeekFails
         \/ Handshake \/ SetupFails
         \/ Dial \/ DialFails \/ ProxyReply \/ RefuseGreeting \/ ProxyReplyFails

Next == Ends \/ Setup \/ Splice \/ CopyUp \/ CopyUpEnds \/ CopyDown \/ CopyDownEnds \/ CloseBoth

\* Every wait of the setup has a deadline; the copies run while they can.
\* Nothing is promised of the two ends.
Fairness == /\ WF_vars(Setup) /\ WF_vars(Splice)
            /\ WF_vars(CopyUp \/ CopyUpEnds)
            /\ WF_vars(CopyDown \/ CopyDownEnds)
            /\ WF_vars(CloseBoth)

Spec     == Init /\ [][Next]_vars
FairSpec == Spec /\ Fairness

-----------------------------------------------------------------------------
(* Properties *)

TypeOK ==
  /\ pc \in {"connect", "reply", "peek", "setup", "served", "dial", "proxyReply", "greeted",
             "splice", "relay", "closed"}
  /\ opening \in Openings /\ route \in Routes
  /\ deadline \in {"none", "first", "setup"}
  /\ {sent, upSent} \subseteq 0 .. MaxBytes
  /\ swallowed + buffered + delivered <= sent /\ answered <= upSent
  /\ {swallowed, buffered, delivered, answered} \subseteq Nat
  /\ clientEnd \in {"open", "eof", "gone"} /\ upEnd \in {"none", "open", "eof", "gone"}
  /\ {copyUp, copyDown} \subseteq {"off", "copying", "done"}
  /\ {upSeesEOF, clientSeesEOF} \subseteq BOOLEAN

\* Each direction of a relay finishes independently (tunnel.go:301-302): no end
\* is told that the other has finished before it has, however long the other
\* direction has been over and however long the tunnel is idle.
NoFalseEOF ==
  /\ (clientSeesEOF /\ clientEnd # "gone") => upEnd # "open"
  /\ (upSeesEOF /\ upEnd # "gone") => clientEnd # "open"

\* A relay that closes with both ends still there has delivered everything that
\* either has sent, the bytes peeked at to classify the tunnel included, but for
\* those that stayed in the reader of Hijack: "spliced to their target untouched"
\* (CHANGELOG.md:26-31).
RelayedUntouched ==
  (pc = "closed" /\ copyUp = "done" /\ clientEnd = "eof" /\ upEnd = "eof") =>
     delivered = sent - swallowed /\ answered = upSent

\* A client that waits for the server to speak first is not hung up on: while it
\* stays and is silent its tunnel gets to be dialled (tunnel.go:216-218).
SilentIsDialled ==
  (pc = "peek") ~> (pc = "dial" \/ sent > 0 \/ clientEnd # "open")

\* The end of one side's stream reaches the other side of a relay, whatever the
\* other direction does (closeWrite, tunnel.go:301-302).
EndIsPassedOn ==
  /\ (pc = "relay" /\ clientEnd # "open") ~> upSeesEOF
  /\ (pc = "relay" /\ upEnd # "open") ~> clientSeesEOF
=============================================================================
