------------------------------ MODULE Forward ------------------------------
(***************************************************************************)
(* The path of a proxied request through httpmon, and the end of the       *)
(* program: forwardRequest (tunnel.go), logRequest and logResponse         *)
(* (main.go), the body samplers' callbacks, and what run does once the     *)
(* wrapped command has exited, in text mode with --record and --har.       *)
(*                                                                         *)
(* Three kinds of goroutine act on an exchange:                            *)
(*   - its handler, from inflight.Add(1) to the deferred inflight.Add(-1); *)
(*   - the transport, which reads the request body through its sampler,    *)
(*     and may still be doing so when the handler is gone (external);      *)
(*   - the main goroutine, which drains, writes the HAR and exits, taking  *)
(*     every other goroutine with it.                                      *)
(*                                                                         *)
(* The exchange stands for its request number, which nextReqID hands out   *)
(* once.  The exchangeJoiner is module ExchangeJoiner, whose operations    *)
(* are called here by those who call them in the program.                  *)
(***************************************************************************)
EXTENDS ExchangeJoiner

CONSTANTS ReqKinds,     \* how a request body may reach the handler
          RespKinds,    \* how a response body may come from the upstream
          whole, cut    \* a captured body: complete, or a prefix of one

\* "NoBody": http.NoBody; "h2Empty": known empty, but a body all the same, as
\* the HTTP/2 server hands it over; "sized" and "chunked": a body to stream.
ASSUME ReqKindsAssumption == ReqKinds \subseteq {"NoBody", "h2Empty", "sized", "chunked"}
ASSUME RespKindsAssumption == RespKinds \subseteq {"NoBody", "sized", "chunked"}

\* Of a half it matters here whether its body was captured whole.
ASSUME ViewsAssumption == Views = {whole, cut}

VARIABLES
  pc,          \* where the handler of each exchange stands
  logged,      \* exchanges that match the filter
  reqKind,     \* how the request body arrived
  reqBody,     \* req.Body: "NoBody", "raw", "sampled"
  transport,   \* reading the request body: "none", "reading", "block", "done"
  respKind,    \* how the response body comes, once there is a response
  respEnd,     \* how reading it ended
  client,      \* what the client has been told of the exchange
  requestFirst,   \* exchanges whose request half came before their response half
  reqStartTimes,  \* exchanges with a start time on file
  inflight,    \* exchanges being relayed
  textOut,     \* the blocks printed for each exchange, in order
  main,        \* where the main goroutine stands
  owed,        \* exchanges begun when the command exited (history)
  timedOut,    \* the drain gave up (history)
  harFile      \* what the HAR file holds

exchangeVars == <<pc, logged, reqKind, reqBody, transport, respKind, respEnd, client,
                  requestFirst>>
mainVars     == <<main, owed, timedOut, harFile>>
forwardVars == <<vars, exchangeVars, reqStartTimes, inflight, textOut, mainVars>>

ForwardInit ==
  /\ Init
  /\ pc = [e \in Ids |-> "idle"]
  /\ logged = {}
  /\ reqKind = [e \in Ids |-> "none"]
  /\ reqBody = [e \in Ids |-> "none"]
  /\ transport = [e \in Ids |-> "none"]
  /\ respKind = [e \in Ids |-> "none"]
  /\ respEnd = [e \in Ids |-> "none"]
  /\ client = [e \in Ids |-> "waiting"]
  /\ requestFirst = {}
  /\ reqStartTimes = {}
  /\ inflight = 0
  /\ textOut = [e \in Ids |-> <<>>]
  /\ main = "running"
  /\ owed = {}
  /\ timedOut = FALSE
  /\ harFile = <<>>

-----------------------------------------------------------------------------
(* Helpers *)

\* Nothing runs once the process has exited.
Alive == main # "gone"

Step(e, from, to) == Alive /\ pc[e] = from /\ pc' = [pc EXCEPT ![e] = to]

emitText(e, block) == textOut' = [textOut EXCEPT ![e] = Append(@, block)]

\* The goroutine that made the pair of e is still in completeExchange.
HandingOver(e) == \E t \in completing : t.entry.id = e

\* Mutant: the captures are not told.
discardReqID_NoDrop(e) == /\ reqStartTimes' = reqStartTimes \ {e}
                          /\ UNCHANGED vars

\* discardReqID: forget the start time, drop the exchange from the captures.
discardReqID(e) == /\ reqStartTimes' = reqStartTimes \ {e}
                   /\ drop(e)

\* The response half, with the note of which half came first.
onResponseBody(e, v) ==
  /\ addResponse(e, v)
  /\ requestFirst' = IF givenReq[e] # Absent THEN requestFirst \cup {e} ELSE requestFirst

-----------------------------------------------------------------------------
(* The handler: forwardRequest *)

\* Mutant: the empty body of HTTP/2 is passed on as a body.
Begin_KeepsBody(e, kind, shouldLog) ==
  /\ Step(e, "idle", IF shouldLog THEN "logRequest" ELSE "newRequest")
  /\ inflight' = inflight + 1
  /\ reqKind' = [reqKind EXCEPT ![e] = kind]
  /\ reqBody' = [reqBody EXCEPT ![e] = IF kind = "NoBody" THEN "NoBody" ELSE "raw"]
  /\ logged' = IF shouldLog THEN logged \cup {e} ELSE logged
  /\ UNCHANGED <<vars, transport, respKind, respEnd, client, requestFirst,
                 reqStartTimes, textOut, mainVars>>

\* inflight.Add(1), the empty body made http.NoBody, and the filter.
Begin(e, kind, shouldLog) ==
  /\ Step(e, "idle", IF shouldLog THEN "logRequest" ELSE "newRequest")
  /\ inflight' = inflight + 1
  /\ reqKind' = [reqKind EXCEPT ![e] = kind]
  /\ reqBody' = [reqBody EXCEPT ![e] = IF kind \in {"NoBody", "h2Empty"} THEN "NoBody" ELSE "raw"]
  /\ logged' = IF shouldLog THEN logged \cup {e} ELSE logged
  /\ UNCHANGED <<vars, transport, respKind, respEnd, client, requestFirst,
                 reqStartTimes, textOut, mainVars>>

\* Mutant: an absent body is reported, and wrapped in a sampler all the same.
logRequest_WrapsNoBody(e) ==
  /\ Step(e, "logRequest", "newRequest")
  /\ reqStartTimes' = reqStartTimes \cup {e}
  /\ reqBody' = [reqBody EXCEPT ![e] = "sampled"]
  /\ IF reqBody[e] = "NoBody" THEN addRequest(e, whole) ELSE UNCHANGED vars
  /\ emitText(e, "REQUEST")
  /\ UNCHANGED <<logged, reqKind, transport, respKind, respEnd, client, requestFirst,
                 inflight, mainVars>>

\* logRequest: an absent body is reported at once, any other gets a sampler.
logRequest(e) ==
  /\ Step(e, "logRequest", "newRequest")
  /\ reqStartTimes' = reqStartTimes \cup {e}
  /\ \/ /\ reqBody[e] = "NoBody"
        /\ addRequest(e, whole)
        /\ UNCHANGED reqBody
     \/ /\ reqBody[e] # "NoBody"
        /\ reqBody' = [reqBody EXCEPT ![e] = "sampled"]
        /\ UNCHANGED vars
  /\ emitText(e, "REQUEST")
  /\ UNCHANGED <<logged, reqKind, transport, respKind, respEnd, client, requestFirst,
                 inflight, mainVars>>

\* Mutant: the error path gives up the inflight count, and so does its defer.
Fails_CountsTwice(e, from, status) ==
  /\ Step(e, from, "return")
  /\ inflight' = inflight - 1
  /\ client' = [client EXCEPT ![e] = status]
  /\ IF e \in logged THEN discardReqID(e) ELSE UNCHANGED <<vars, reqStartTimes>>
  /\ UNCHANGED <<logged, reqKind, reqBody, transport, respKind, respEnd, requestFirst,
                 textOut, mainVars>>

\* An exchange without a response: http.Error, and the captures forget it.
Fails(e, from, status) ==
  /\ Step(e, from, "return")
  /\ client' = [client EXCEPT ![e] = status]
  /\ IF e \in logged THEN discardReqID(e) ELSE UNCHANGED <<vars, reqStartTimes>>
  /\ UNCHANGED <<logged, reqKind, reqBody, transport, respKind, respEnd, requestFirst,
                 inflight, textOut, mainVars>>

\* http.NewRequestWithContext refuses the URL: the body is never touched.
NewRequestFails(e) == Fails(e, "newRequest", "500")

\* client.Do begins: from here the transport reads the request body.
Send(e) ==
  /\ Step(e, "newRequest", "roundTrip")
  /\ transport' = [transport EXCEPT ![e] = IF reqBody[e] = "NoBody" THEN "done" ELSE "reading"]
  /\ UNCHANGED <<vars, logged, reqKind, reqBody, respKind, respEnd, client,
                 requestFirst, reqStartTimes, inflight, textOut, mainVars>>

DoFails(e) == Fails(e, "roundTrip", "502")

\* client.Do returns a response, perhaps before the request has been read.
DoReturns(e, kind) ==
  /\ Step(e, "roundTrip", IF e \in logged THEN "logResponse" ELSE "copy")
  /\ respKind' = [respKind EXCEPT ![e] = kind]
  /\ UNCHANGED <<vars, logged, reqKind, reqBody, transport, respEnd, client,
                 requestFirst, reqStartTimes, inflight, textOut, mainVars>>

\* logResponse up to its sampler: an absent body is reported on the spot.
logResponse(e) ==
  /\ Step(e, "logResponse", IF respKind[e] = "NoBody" THEN "endBlock" ELSE "head")
  /\ reqStartTimes' = reqStartTimes \ {e}
  /\ IF respKind[e] = "NoBody" THEN onResponseBody(e, whole)
                               ELSE UNCHANGED <<vars, requestFirst>>
  /\ UNCHANGED <<logged, reqKind, reqBody, transport, respKind, respEnd, client,
                 inflight, textOut, mainVars>>

\* The rest of logResponse: the status line and the headers.
EmitHead(e) ==
  /\ Step(e, "head", "copy")
  /\ emitText(e, "RESPONSE")
  /\ UNCHANGED <<vars, logged, reqKind, reqBody, transport, respKind, respEnd,
                 client, requestFirst, reqStartTimes, inflight, mainVars>>

\* What the sampler may report when the copy ends in this way.  A body is cut if
\* it exceeds --max-capture; it is whole at EOF, or when all the bytes declared
\* were read, even if the client went away before it had them.
ReportedViews(e, how) ==
  IF how = "err" /\ respKind[e] # "sized" THEN {cut} ELSE {whole, cut}

\* Mutant: resp.Body.Close is bound before the sampler is installed, which then
\* never reports a copy that stopped short of EOF.
CopyEnds_ClosesOriginal(e, how) ==
  /\ respKind[e] = "NoBody" => how = "eof"
  /\ respEnd' = [respEnd EXCEPT ![e] = how]
  /\ \/ /\ e \in logged /\ respKind[e] # "NoBody" /\ how # "clientGone"
        /\ Step(e, "copy", "endBlock")
        /\ \E v \in ReportedViews(e, how) : onResponseBody(e, v)
     \/ /\ e \notin logged \/ respKind[e] = "NoBody" \/ how = "clientGone"
        /\ Step(e, "copy", "return")
        /\ UNCHANGED <<vars, requestFirst>>
  /\ UNCHANGED <<logged, reqKind, reqBody, transport, respKind, client,
                 reqStartTimes, inflight, textOut, mainVars>>

\* The copy ends, at EOF, because the upstream failed ("err"), or because the
\* client went away.  The sampler fires on the read or in the deferred Close,
\* in either case before the handler gives up its inflight count.
CopyEnds(e, how) ==
  /\ respKind[e] = "NoBody" => how = "eof"
  /\ respEnd' = [respEnd EXCEPT ![e] = how]
  /\ \/ /\ e \in logged /\ respKind[e] # "NoBody"
        /\ Step(e, "copy", "endBlock")
        /\ \E v \in ReportedViews(e, how) : onResponseBody(e, v)
     \/ /\ e \notin logged \/ respKind[e] = "NoBody"
        /\ Step(e, "copy", "return")
        /\ UNCHANGED <<vars, requestFirst>>
  /\ UNCHANGED <<logged, reqKind, reqBody, transport, respKind, client,
                 reqStartTimes, inflight, textOut, mainVars>>

\* Mutant: the head is printed once the body has been, as for an absent body.
EmitEnd_HeadAfter(e) ==
  /\ Step(e, "endBlock", "head")
  /\ e \in requestFirst => ~HandingOver(e)
  /\ emitText(e, "END")
  /\ UNCHANGED <<vars, logged, reqKind, reqBody, transport, respKind, respEnd,
                 client, requestFirst, reqStartTimes, inflight, mainVars>>

\* The rest of onResponseBody, after any hand-over this goroutine had to make:
\* body, trailers and the closing rule go out as one block.
EmitEnd(e) ==
  /\ Step(e, "endBlock", IF respKind[e] = "NoBody" THEN "head" ELSE "return")
  /\ e \in requestFirst => ~HandingOver(e)
  /\ emitText(e, "END")
  /\ UNCHANGED <<vars, logged, reqKind, reqBody, transport, respKind, respEnd,
                 client, requestFirst, reqStartTimes, inflight, mainVars>>

\* net/http ends a response of unknown length normally when the handler returns,
\* whatever the copy met; one of declared length that fell short it cuts off.
ClientSees(e) == IF client[e] # "waiting" THEN client[e]
                 ELSE IF respEnd[e] = "clientGone" THEN "gone"
                 ELSE IF respEnd[e] = "err" /\ respKind[e] = "sized" THEN "broken"
                 ELSE "complete"

\* The deferred inflight.Add(-1).
Return(e) ==
  /\ Step(e, "return", "done")
  /\ inflight' = inflight - 1
  /\ client' = [client EXCEPT ![e] = ClientSees(e)]
  /\ UNCHANGED <<vars, logged, reqKind, reqBody, transport, respKind, respEnd,
                 requestFirst, reqStartTimes, textOut, mainVars>>

-----------------------------------------------------------------------------
(* The transport, reading the request body *)

\* It reads to the end, or stops and closes the body: the upstream answered and
\* wants no more, the exchange failed, or the handler returned and the server
\* closed the client's body.  The sampler reports either way.
RequestBodyEnds(e, v) ==
  /\ Alive /\ transport[e] = "reading"
  /\ \/ /\ reqBody[e] = "sampled"
        /\ addRequest(e, v)
        /\ transport' = [transport EXCEPT ![e] = "block"]
     \/ /\ reqBody[e] # "sampled"
        /\ transport' = [transport EXCEPT ![e] = "done"]
        /\ UNCHANGED vars
  /\ UNCHANGED <<pc, logged, reqKind, reqBody, respKind, respEnd, client, requestFirst,
                 reqStartTimes, inflight, textOut, mainVars>>

\* The rest of onRequestBody: the block of the body, after the hand-over.
EmitRequestBody(e) ==
  /\ Alive /\ transport[e] = "block"
  /\ e \notin requestFirst => ~HandingOver(e)
  /\ transport' = [transport EXCEPT ![e] = "done"]
  /\ emitText(e, "BODY")
  /\ UNCHANGED <<vars, pc, logged, reqKind, reqBody, respKind, respEnd, client,
                 requestFirst, reqStartTimes, inflight, mainVars>>

\* completeExchange, in whichever goroutine made the pair.
HandOver(e) ==
  /\ Alive
  /\ \E t \in completing : /\ t.entry.id = e
                           /\ writeRecord(t) \/ addHAREntry(t)
  /\ UNCHANGED <<exchangeVars, reqStartTimes, inflight, textOut, mainVars>>

-----------------------------------------------------------------------------
(* The main goroutine *)

CommandExits ==
  /\ main = "running"
  /\ main' = "draining"
  /\ owed' = {e \in Ids : pc[e] # "idle"}
  /\ UNCHANGED <<vars, exchangeVars, reqStartTimes, inflight, textOut, timedOut, harFile>>

\* Mutant: no deadline.
drainInflight_NoDeadline ==
  /\ main = "draining" /\ inflight = 0
  /\ main' = "writeHAR"
  /\ UNCHANGED <<vars, exchangeVars, reqStartTimes, inflight, textOut,
                 owed, timedOut, harFile>>

\* drainInflight: until the count is zero, or the deadline passes.
drainInflight ==
  /\ main = "draining"
  /\ main' = "writeHAR"
  /\ \/ inflight = 0 /\ UNCHANGED timedOut
     \/ inflight > 0 /\ timedOut' = TRUE
  /\ UNCHANGED <<vars, exchangeVars, reqStartTimes, inflight, textOut, owed, harFile>>

\* finishHAR: writeHARFile writes the entries there are at that moment.
finishHAR ==
  /\ main = "writeHAR"
  /\ main' = "cleanup"
  /\ harFile' = IF harMode THEN har ELSE <<>>
  /\ UNCHANGED <<vars, exchangeVars, reqStartTimes, inflight, textOut, owed, timedOut>>

\* runCleanups closes the record file, os.Exit ends every goroutine.
Exit ==
  /\ main = "cleanup"
  /\ main' = "gone"
  /\ UNCHANGED <<vars, exchangeVars, reqStartTimes, inflight, textOut,
                 owed, timedOut, harFile>>

-----------------------------------------------------------------------------

\* The steps of a handler that wait for nobody but itself.
OwnStep(e) == logRequest(e) \/ Send(e) \/ logResponse(e) \/ EmitHead(e) \/ EmitEnd(e) \/ Return(e)

Handler(e) == \/ \E kind \in ReqKinds, shouldLog \in BOOLEAN : Begin(e, kind, shouldLog)
              \/ OwnStep(e)
              \/ NewRequestFails(e)
              \/ DoFails(e)
              \/ \E kind \in RespKinds : DoReturns(e, kind)
              \/ \E how \in {"eof", "err", "clientGone"} : CopyEnds(e, how)

Transport(e) == (\E v \in {whole, cut} : RequestBodyEnds(e, v)) \/ EmitRequestBody(e)

Main == CommandExits \/ drainInflight \/ finishHAR \/ Exit

ForwardNext == Main \/ \E e \in Ids : Handler(e) \/ Transport(e) \/ HandOver(e)

\* The scheduler runs every goroutine that can run.  Nothing is promised of the
\* upstream or of the client: client.Do and the copy may take for ever, and the
\* request body may not end before its handler has returned.
ForwardFairness ==
  /\ WF_forwardVars(drainInflight) /\ WF_forwardVars(finishHAR) /\ WF_forwardVars(Exit)
  /\ \A e \in Ids :
       /\ WF_forwardVars(OwnStep(e))
       /\ WF_forwardVars(HandOver(e))
       /\ WF_forwardVars(EmitRequestBody(e))
       /\ WF_forwardVars(pc[e] = "done" /\ \E v \in {whole, cut} : RequestBodyEnds(e, v))

ForwardSpec == ForwardInit /\ [][ForwardNext]_forwardVars
ForwardFairSpec == ForwardSpec /\ ForwardFairness

-----------------------------------------------------------------------------
(* Properties *)

ForwardTypeOK ==
  /\ TypeOK
  /\ pc \in [Ids -> {"idle", "logRequest", "newRequest", "roundTrip", "logResponse",
                           "endBlock", "head", "copy", "return", "done"}]
  /\ logged \subseteq Ids /\ requestFirst \subseteq logged
  /\ reqKind \in [Ids -> ReqKinds \cup {"none"}]
  /\ reqBody \in [Ids -> {"none", "NoBody", "raw", "sampled"}]
  /\ transport \in [Ids -> {"none", "reading", "block", "done"}]
  /\ respKind \in [Ids -> RespKinds \cup {"none"}]
  /\ respEnd \in [Ids -> {"none", "eof", "err", "clientGone"}]
  /\ client \in [Ids -> {"waiting", "500", "502", "gone", "broken", "complete"}]
  /\ reqStartTimes \subseteq logged
  /\ inflight \in Nat
  /\ textOut \in [Ids -> Seq({"REQUEST", "BODY", "RESPONSE", "END"})]
  /\ main \in {"running", "draining", "writeHAR", "cleanup", "gone"}
  /\ owed \subseteq Ids /\ timedOut \in BOOLEAN
  /\ harFile \in Seq(Entry)

\* Whatever goes wrong with an exchange, its handler and its transport call the
\* joiner by the protocol it was written for: when one is about to bring a half
\* that half has not been brought, and an exchange that may still be dropped or
\* answered has been neither (main.go:422-431).
CallsKeepProtocol ==
  \A e \in logged :
    /\ (pc[e] = "logRequest" \/ (reqBody[e] = "sampled" /\ transport[e] \in {"none", "reading"}))
         => givenReq[e] = Absent
    /\ pc[e] \in {"newRequest", "roundTrip", "logResponse"}
         => givenResp[e] = Absent /\ e \notin abandoned
    /\ (pc[e] \in {"head", "copy"} /\ respKind[e] # "NoBody")
         => givenResp[e] = Absent /\ e \notin abandoned
    /\ e \in abandoned => respKind[e] = "none"

\* The drain ended because nothing was in flight, not because it gave up.
Drained == main \in {"writeHAR", "cleanup", "gone"} /\ ~timedOut

Captured(log, e) == \E i \in 1 .. Len(log) : log[i].id = e
Printed(e) == {textOut[e][i] : i \in 1 .. Len(textOut[e])}

\* Every exchange begun before the command exited and answered has been reported
\* and printed to its closing rule, even if its copy stopped short of EOF.
DrainedResponses ==
  Drained => \A e \in owed \cap logged :
               respKind[e] # "none" => /\ givenResp[e] # Absent
                                       /\ {"RESPONSE", "END"} \subseteq Printed(e)

\* And those whose request half came first are in the recording and in the HAR
\* file.
DrainedCaptured ==
  (Drained /\ main # "writeHAR") =>
     \A e \in owed \cap requestFirst : /\ recordMode => Captured(recorded, e)
                                       /\ harMode => Captured(harFile, e)

\* What a drain that did not give up promises of every exchange begun before the
\* command exited, however the steps of the handlers, the transports and the main
\* goroutine mix (tunnel.go:30-36, 91-95).
DrainIsComplete == DrainedResponses /\ DrainedCaptured

\* In the text of an exchange a comes before b.
Before(e, a, b) == \A i, j \in 1 .. Len(textOut[e]) :
                     textOut[e][i] = a /\ textOut[e][j] = b => i < j

\* The text of an exchange opens with its request, has no block twice, and a
\* response with a body has its head before its end; the request's body may be
\* anywhere in between or after, as the upload may outlast the response.
TextOrder ==
  \A e \in Ids :
    /\ textOut[e] # <<>> => e \in logged /\ Head(textOut[e]) = "REQUEST"
    /\ \A i, j \in 1 .. Len(textOut[e]) : textOut[e][i] = textOut[e][j] => i = j
    /\ respKind[e] # "NoBody" => Before(e, "RESPONSE", "END")

\* How the transport frames the request to the upstream: a body that is not
\* http.NoBody goes out chunked unless its length is declared and positive.
Framing(e) == IF reqBody[e] = "NoBody" THEN "empty"
              ELSE IF reqKind[e] = "sized" THEN "sized" ELSE "chunked"

\* A request known to have no body is never sent upstream as chunked, which S3
\* and others reject (tunnel.go:46-53, stream.go:97-103).
EmptyNeverChunked ==
  \A e \in Ids : transport[e] # "none" /\ reqKind[e] \in {"NoBody", "h2Empty"}
                         => Framing(e) = "empty"

\* Nothing more will happen to the exchange: its handler has returned, and its
\* request body is not being read and not being reported.
Over(e) == pc[e] = "done" /\ transport[e] \in {"none", "done"} /\ ~HandingOver(e)

\* An exchange that is over leaves no start time and nothing in the joiner, be
\* it answered, failed, or failed while its upload was still being read.  The
\* exception is a body that was never read, as http.NewRequest failed.
NothingLeft ==
  \A e \in Ids :
    Over(e) => /\ e \notin reqStartTimes
               /\ Parked(e) => transport[e] = "none" /\ reqBody[e] = "sampled"

\* Once the command has exited so does httpmon, whatever the upstreams and the
\* clients still connected do (main.go:1259-1261).
ExitCompletes == main = "draining" ~> main = "gone"

\* A logged exchange whose response has ended reaches the HAR entries and the
\* recording unless the program exits first: when its handler has returned, the
\* request half cannot stay out for ever.
AnsweredIsCaptured ==
  \A e \in Ids :
    (e \in logged /\ respEnd[e] # "none") ~>
       \/ main = "gone"
       \/ (recordMode => Captured(recorded, e)) /\ (harMode => Captured(har, e))

-----------------------------------------------------------------------------
(* What the documentation says and the code does not do *)

\* "On exit, httpmon waits (up to 3s) for exchanges still being relayed, so the
\* wrapped command's last request is logged and recorded before the HAR is
\* written" (CHANGELOG.md:23-25): here, for every answered exchange.
ExitKeepsAnswered ==
  (Drained /\ main # "writeHAR" /\ harMode) =>
     \A e \in owed \cap logged : respEnd[e] # "none" => Captured(harFile, e)
=============================================================================
