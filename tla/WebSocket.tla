------------------------------ MODULE WebSocket ------------------------------
(***************************************************************************)
(* One WebSocket upgrade: handleWebSocket (tunnel.go) and spliceWebSocket  *)
(* (websocket.go).  The handshake is one HTTP request and its response;    *)
(* after a 101 the two connections are spliced.  Unlike the two directions *)
(* of relayOpaque (module Tunnel), each direction that ends closes the     *)
(* connection it writes to, and so ends the other direction as well.       *)
(*                                                                         *)
(* Streams are numbers of bytes, those behind the handshake.  An end may   *)
(* finish its stream ("eof") or go away ("gone"), before or after httpmon  *)
(* has closed its own side of the connection.                              *)
(***************************************************************************)
EXTENDS Naturals

CONSTANT MaxBytes    \* the longest stream (bounds the state space)

VARIABLES
  step,      \* the handler: "idle", "dial", "hijack", "request", "response",
             \* "answer", "splice", "return", "over"
  numbered,  \* the upgrade has a request number, not discarded yet
  answer,    \* of the upstream: "none", "accepted", "refused", "refusedWithBody"
  told,      \* what the client has of the handshake: "nothing", "error", "200", "refusal", "101"
  sent, clientEnd, clientClosed,  \* bytes sent, "open", "eof" or "gone"; closed by httpmon
  upSent, upEnd, upClosed,        \* "none" before there is a connection
  readAhead, upReadAhead,         \* bytes in rw.Reader, in upReader
  delivered, returned,            \* bytes written to the upstream, to the client
  copyUp, copyDown                \* "off", "copying", "done"

handler == <<step, numbered, told>>
client  == <<sent, clientEnd>>
server  == <<answer, upSent, upEnd>>
flow    == <<readAhead, upReadAhead, delivered, returned>>
vars == <<handler, client, clientClosed, server, upClosed, flow, copyUp, copyDown>>

Init == /\ step = "idle" /\ numbered = FALSE /\ told = "nothing"
        /\ sent = 0 /\ clientEnd = "open" /\ clientClosed = FALSE
        /\ answer = "none" /\ upSent = 0 /\ upEnd = "none" /\ upClosed = FALSE
        /\ readAhead = 0 /\ upReadAhead = 0 /\ delivered = 0 /\ returned = 0
        /\ copyUp = "off" /\ copyDown = "off"

Goto(from, to) == step = from /\ step' = to

-----------------------------------------------------------------------------
(* The two ends (external) *)

ClientSends == /\ clientEnd = "open" /\ sent < MaxBytes
               /\ sent' = sent + 1
               /\ UNCHANGED <<handler, clientEnd, clientClosed, server, upClosed, flow,
                              copyUp, copyDown>>

ClientEnds == /\ \/ clientEnd = "open" /\ clientEnd' \in {"eof", "gone"}
                 \/ clientEnd = "eof" /\ clientEnd' = "gone"
              /\ UNCHANGED <<handler, sent, clientClosed, server, upClosed, flow, copyUp,
                             copyDown>>

UpstreamAnswers ==
  /\ upEnd = "open" /\ answer = "none" /\ step = "response"
  /\ answer' \in {"accepted", "refused", "refusedWithBody"}
  /\ UNCHANGED <<handler, client, clientClosed, upSent, upEnd, upClosed, flow, copyUp, copyDown>>

UpstreamSends ==
  /\ upEnd = "open" /\ answer = "accepted" /\ upSent < MaxBytes
  /\ upSent' = upSent + 1
  /\ UNCHANGED <<handler, client, clientClosed, answer, upEnd, upClosed, flow, copyUp, copyDown>>

UpstreamEnds ==
  /\ \/ upEnd = "open" /\ upEnd' \in {"eof", "gone"}
     \/ upEnd = "eof" /\ upEnd' = "gone"
  /\ UNCHANGED <<handler, client, clientClosed, answer, upSent, upClosed, flow, copyUp, copyDown>>

-----------------------------------------------------------------------------
(* handleWebSocket *)

\* logRequest, if the filter matches.  The 505 for a writer that cannot be
\* hijacked never happens: isWebSocketUpgrade asks for HTTP/1.1.
Begin(shouldLog) ==
  /\ Goto("idle", "dial")
  /\ numbered' = shouldLog
  /\ UNCHANGED <<told, client, clientClosed, server, upClosed, flow, copyUp, copyDown>>

Dial == /\ Goto("dial", "hijack")
        /\ upEnd' = "open"
        /\ UNCHANGED <<numbered, told, client, clientClosed, answer, upSent, upClosed, flow,
                       copyUp, copyDown>>

\* The handler returns, perhaps after an error has been written to the client.
Fails(from, toClient) ==
  /\ Goto(from, "return")
  /\ told' = IF clientEnd = "gone" THEN told ELSE toClient
  /\ UNCHANGED <<numbered, client, clientClosed, server, upClosed, flow, copyUp, copyDown>>

DialFails == Fails("dial", "error")

\* The reader that comes with the connection may hold bytes of the client.
Hijack == /\ Goto("hijack", "request")
          /\ readAhead' \in 0 .. sent
          /\ UNCHANGED <<numbered, told, client, clientClosed, server, upClosed, upReadAhead,
                         delivered, returned, copyUp, copyDown>>

\* The handler returns without a word, for which the server writes a 200.
HijackFails == Fails("hijack", "200")

\* The deferred calls: both connections closed, the request number discarded.
Return == /\ Goto("return", "over")
          /\ numbered' = FALSE /\ clientClosed' = TRUE /\ upClosed' = TRUE
          /\ UNCHANGED <<told, client, server, flow, copyUp, copyDown>>

-----------------------------------------------------------------------------
(* spliceWebSocket: the handshake *)

WriteRequest == /\ Goto("request", "response")
                /\ upEnd # "gone"
                /\ UNCHANGED <<numbered, told, client, clientClosed, server, upClosed, flow,
                               copyUp, copyDown>>

WriteRequestFails == upEnd = "gone" /\ Fails("request", "error")

\* The first bytes behind the response may be read with it.
ReadResponse ==
  /\ Goto("response", "answer")
  /\ answer # "none" /\ upEnd # "gone"
  /\ upReadAhead' \in 0 .. upSent
  /\ UNCHANGED <<numbered, told, client, clientClosed, server, upClosed, readAhead, delivered,
                 returned, copyUp, copyDown>>

\* Mutant: a response that cannot be read ends the connection, without a word.
ReadResponseFails_Silent ==
  /\ \/ upEnd = "eof" /\ answer = "none"
     \/ upEnd = "gone"
  /\ Fails("response", "nothing")

ReadResponseFails ==
  /\ \/ upEnd = "eof" /\ answer = "none"
     \/ upEnd = "gone"
  /\ Fails("response", "error")

\* resp.Body is closed by now, so that Write of a response with a body fails, and
\* what it had written by then stays in clientW.
WriteAnswer ==
  /\ clientEnd # "gone"
  /\ \/ answer = "accepted" /\ Goto("answer", "splice")
        /\ told' = "101" /\ copyUp' = "copying" /\ copyDown' = "copying"
     \/ answer = "refused" /\ Goto("answer", "return")
        /\ told' = "refusal" /\ UNCHANGED <<copyUp, copyDown>>
  /\ UNCHANGED <<numbered, client, clientClosed, server, upClosed, flow>>

WriteAnswerFails == /\ clientEnd = "gone" \/ answer = "refusedWithBody"
                    /\ Fails("answer", "nothing")

-----------------------------------------------------------------------------
(* spliceWebSocket: the splice *)

\* Bytes there are to read: those read ahead, even if the connection is closed by
\* now, and those in the socket.
ClientHas == readAhead > 0 \/ (~clientClosed /\ clientEnd # "gone" /\ delivered < sent)

\* Mutant: the splice reads upConn, and not the reader that read the response.
UpstreamHas_SocketOnly == ~upClosed /\ upEnd # "gone" /\ upReadAhead + returned < upSent

UpstreamHas == upReadAhead > 0 \/ (~upClosed /\ upEnd # "gone" /\ returned < upSent)

UpstreamWritable == ~upClosed /\ upEnd # "gone"
ClientWritable   == ~clientClosed /\ clientEnd # "gone"

AtMostOne(n) == IF n > 0 THEN n - 1 ELSE 0

CopyUp == /\ copyUp = "copying" /\ ClientHas /\ UpstreamWritable
          /\ delivered' = delivered + 1 /\ readAhead' = AtMostOne(readAhead)
          /\ UNCHANGED <<handler, client, clientClosed, server, upClosed, upReadAhead, returned,
                         copyUp, copyDown>>

\* Mutant: the other goroutine is left to find out by itself.
CopyUpEnds_LeavesOpen ==
  /\ copyUp = "copying"
  /\ IF ClientHas THEN ~UpstreamWritable ELSE clientClosed \/ clientEnd # "open"
  /\ copyUp' = "done"
  /\ UNCHANGED <<handler, client, clientClosed, server, upClosed, flow, copyDown>>

\* The end of the client's stream, or a failure; and upConn is closed.
CopyUpEnds ==
  /\ copyUp = "copying"
  /\ IF ClientHas THEN ~UpstreamWritable ELSE clientClosed \/ clientEnd # "open"
  /\ copyUp' = "done" /\ upClosed' = TRUE
  /\ UNCHANGED <<handler, client, clientClosed, server, flow, copyDown>>

CopyDown == /\ copyDown = "copying" /\ UpstreamHas /\ ClientWritable
            /\ returned' = returned + 1 /\ upReadAhead' = AtMostOne(upReadAhead)
            /\ UNCHANGED <<handler, client, clientClosed, server, upClosed, readAhead, delivered,
                           copyUp, copyDown>>

CopyDownEnds ==
  /\ copyDown = "copying"
  /\ IF UpstreamHas THEN ~ClientWritable ELSE upClosed \/ upEnd # "open"
  /\ copyDown' = "done" /\ clientClosed' = TRUE
  /\ UNCHANGED <<handler, client, server, upClosed, flow, copyUp>>

SpliceEnds == /\ copyUp = "done" /\ copyDown = "done"
              /\ Goto("splice", "return")
              /\ UNCHANGED <<numbered, told, client, clientClosed, server, upClosed, flow, copyUp,
                             copyDown>>

-----------------------------------------------------------------------------

Ends == ClientSends \/ ClientEnds \/ UpstreamAnswers \/ UpstreamSends \/ UpstreamEnds

\* Steps of the handler that do not touch the http.Server.
Handshake == \/ Dial \/ DialFails \/ HijackFails \/ WriteRequest \/ WriteRequestFails
             \/ ReadResponse \/ ReadResponseFails \/ WriteAnswer \/ WriteAnswerFails

Up   == CopyUp \/ CopyUpEnds
Down == CopyDown \/ CopyDownEnds

-----------------------------------------------------------------------------
(* Properties *)

TypeOK ==
  /\ step \in {"idle", "dial", "hijack", "request", "response", "answer", "splice", "return",
               "over"}
  /\ numbered \in BOOLEAN /\ clientClosed \in BOOLEAN /\ upClosed \in BOOLEAN
  /\ answer \in {"none", "accepted", "refused", "refusedWithBody"}
  /\ told \in {"nothing", "error", "200", "refusal", "101"}
  /\ sent \in 0 .. MaxBytes /\ upSent \in 0 .. MaxBytes
  /\ clientEnd \in {"open", "eof", "gone"} /\ upEnd \in {"none", "open", "eof", "gone"}
  /\ readAhead + delivered \in 0 .. sent /\ upReadAhead + returned \in 0 .. upSent
  /\ copyUp \in {"off", "copying", "done"} /\ copyDown \in {"off", "copying", "done"}

\* "After the 101 response, frames are spliced bidirectionally" (README.md:312):
\* none before it, and the end that finishes first has everything it sent passed
\* on, the bytes read ahead with the handshake included, although its end makes
\* httpmon close the other connection at once (websocket.go:46-56).
SplicedUntouched ==
  /\ delivered + returned > 0 => told = "101"
  /\ (copyUp = "done" /\ clientEnd = "eof" /\ upEnd = "open") => delivered = sent
  /\ (copyDown = "done" /\ upEnd = "eof" /\ clientEnd = "open") => returned = upSent

\* A client still there when its upgrade is over has been told how the handshake
\* went, wherever it failed, unless the upstream refused it with a response that has
\* a body: the body is closed before it is written, and the response lost
\* (websocket.go:31-36).
HandshakeAnswered ==
  (step = "over" /\ clientEnd = "open" /\ told = "nothing") => answer = "refusedWithBody"

\* A splice ends for both sides once either has ended, and leaves neither an open
\* connection nor a request number behind (tunnel.go:151, 168-174; websocket.go:43-57).
UpgradeEnds ==
  (step = "splice" /\ (clientEnd # "open" \/ upEnd # "open")) ~>
     (step = "over" /\ clientClosed /\ upClosed /\ ~numbered)
=============================================================================
