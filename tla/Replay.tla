------------------------------- MODULE Replay -------------------------------
(***************************************************************************)
(* A recording (writeRecord) and its replay (replayFile, replayOne;        *)
(* record.go), for scripts that go by the exit code.  The recording is     *)
(* read line by line; each exchange is sent again, and its response        *)
(* compared with what was recorded of the first one, which may be a        *)
(* prefix, decoded, or a placeholder.                                      *)
(*                                                                         *)
(* The file, the network and the server are external: a line may be        *)
(* anything, and a response unlike the one recorded.  --max-capture is the *)
(* same for both runs.  A blank line changes nothing, and has no action.   *)
(***************************************************************************)
EXTENDS BodyView

CONSTANTS Exchanges,  \* exchanges as they went by: a request and a response
          Responses,  \* what the server may answer to a replayed request
          MaxLines,   \* lines of the recording (bounds the state space)
          MaxLine,    \* the longest line the scanner takes
          None

ASSUME LinesAssumption == MaxLines \in Nat /\ MaxLine \in Nat
ASSUME MessagesAssumption ==
  /\ \A o \in Exchanges : IsMessage(o.request) /\ IsMessage(o.response)
  /\ \A r \in Responses : IsMessage(r)
ASSUME NoneAssumption == None \notin {0, 1, 2} /\ None \notin Exchanges

VARIABLES
  pc,         \* "open", "scan", "send", "wait", "done"
  failOnDiff, \* --replay-fail-on-diff
  original,   \* the exchange of the current line as it went by, or None
  sent,       \* the body of the replayed request, once it is sent
  n, errs, diffs, skipped,
  code,       \* the exit code, when done
  met         \* what the replay has come across (history)

vars == <<pc, failOnDiff, original, sent, n, errs, diffs, skipped, code, met>>

counters == <<n, errs, diffs, skipped>>

Init == /\ pc = "open" /\ failOnDiff \in BOOLEAN
        /\ original = None /\ sent = None
        /\ n = 0 /\ errs = 0 /\ diffs = 0 /\ skipped = 0
        /\ code = None /\ met = {}

-----------------------------------------------------------------------------
(* The record of an exchange *)

writeRecord(o) ==
  LET request  == captureBody(o.request, TRUE)
      response == captureBody(o.response, TRUE)
  IN [grpc      |-> o.request.type = "grpc",
      reqBody   |-> ThroughJSON(request.text),
      status    |-> o.response.status,
      respBody  |-> ThroughJSON(response.text),
      respTrunc |-> response.truncated]

LineLength(ex) == Len(ex.reqBody) + Len(ex.respBody)

\* Mutant: what came is compared as it came.
decodeForCompare_AsIs(r) == Upto(Wire(r), Min({captureMaxBody, r.arrived}))

\* Of what io.LimitReader lets through; an error of the read is ignored.
decodeForCompare(r) ==
  LET raw == Upto(Wire(r), Min({captureMaxBody, r.arrived}))
      out == decompressBody(r.layers, raw)
  IN IF out.ok THEN out.data ELSE raw

\* Mutant: a prefix will do, whatever was recorded.
BodyMatch_Prefix(ex, r) == IsPrefix(TrimSpace(ex.respBody), TrimSpace(decodeForCompare(r)))

BodyMatch(ex, r) ==
  LET newBody == TrimSpace(decodeForCompare(r))
  IN IF ex.respTrunc THEN IsPrefix(TrimSpace(ex.respBody), newBody)
                     ELSE TrimSpace(ex.respBody) = newBody

-----------------------------------------------------------------------------
(* What one would say who had seen both responses whole *)

\* It came to its end, and no limit cuts it.
Whole(m) == m.arrived = Len(Wire(m)) /\ m.arrived <= captureMaxBody
                                     /\ Len(m.body) <= maxDecompressed

\* So many bytes of the body, at least, are within reach of a replay.  A coding
\* takes one for its header; of several that are not whole nothing is promised.
Seen(m) == LET came == Min({captureMaxBody, m.arrived})
           IN IF Whole(m) THEN Len(m.body)
              ELSE CASE Len(m.layers) = 0 -> came
                     [] Len(m.layers) = 1 -> Min({maxDecompressed, came - 1})
                     [] Len(m.layers) > 1 -> 0

Unchanged(o, r) == /\ r.arrived = Len(Wire(r))
                   /\ \A f \in {"status", "type", "layers", "body"} : r[f] = o.response[f]

\* The text of the response is in the recording, or the beginning of it.
Recorded(o) == LET view == captureBody(o.response, TRUE)
               IN /\ o.response.type = "text" /\ view.text # Placeholder /\ ValidUTF8(view.text)
                  /\ o.response.arrived = 0 => Wire(o.response) = <<>>

\* The response differs from the recording: of a body recorded as a prefix only that
\* prefix counts, of any other the whole body (README.md:354-356).
Altered(o, r) ==
  LET ex   == writeRecord(o)
      text == TrimSpace(ex.respBody)
  IN \/ r.status # o.response.status
     \/ IF ex.respTrunc THEN ~IsPrefix(text, TrimSpace(r.body))
                        ELSE text # TrimSpace(r.body)

\* It differs only in that it goes on, behind what was recorded as complete and
\* behind the bytes within reach.
GoesOn(o, r) ==
  LET ex == writeRecord(o)
  IN /\ r.status = o.response.status /\ ~ex.respTrunc
     /\ \E k \in 0 .. Len(r.body) :
          k >= Seen(r) /\ TrimSpace(Upto(r.body, k)) = TrimSpace(ex.respBody)

Verdict(o, r) == IF Unchanged(o, r)
                   THEN IF Recorded(o) THEN "unchanged" ELSE "not in the recording"
                 ELSE IF ~Altered(o, r) THEN "similar"
                 ELSE IF GoesOn(o, r) THEN "longer" ELSE "altered"

-----------------------------------------------------------------------------
(* replayFile *)

Done(c) == pc' = "done" /\ code' = c /\ original' = None

Open == /\ pc = "open"
        /\ pc' = "scan"
        /\ UNCHANGED <<failOnDiff, original, sent, counters, code, met>>

OpenFails == /\ pc = "open"
             /\ Done(1)
             /\ met' = {"unreadable"}
             /\ UNCHANGED <<failOnDiff, sent, counters>>

MoreLines == pc = "scan" /\ n + errs < MaxLines

MalformedLine == /\ MoreLines
                 /\ errs' = errs + 1
                 /\ met' = met \cup {"malformed"}
                 /\ UNCHANGED <<pc, failOnDiff, original, sent, n, diffs, skipped, code>>

ReadLine(o) == /\ MoreLines
               /\ LineLength(writeRecord(o)) <= MaxLine
               /\ pc' = "send" /\ original' = o
               /\ UNCHANGED <<failOnDiff, sent, counters, code, met>>

\* A read error, or a line that is too long.
ScanFails ==
  /\ pc = "scan"
  /\ Done(1)
  /\ met' = met \cup {"unreadable"}
  /\ UNCHANGED <<failOnDiff, sent, counters>>

EndOfFile ==
  /\ pc = "scan"
  /\ Done(IF errs > 0 THEN 1 ELSE IF failOnDiff /\ diffs > 0 THEN 2 ELSE 0)
  /\ UNCHANGED <<failOnDiff, sent, counters, met>>

-----------------------------------------------------------------------------
(* replayOne, and what replayFile counts *)

\* The exchange is dealt with: it is a difference, or not.
Counted(differs, what) ==
  /\ pc' = "scan" /\ original' = None /\ sent' = None
  /\ n' = n + 1 /\ diffs' = diffs + (IF differs THEN 1 ELSE 0)
  /\ met' = met \cup {what}
  /\ UNCHANGED <<failOnDiff, errs, code>>

SkipGRPC == /\ pc = "send" /\ writeRecord(original).grpc
            /\ skipped' = skipped + 1
            /\ Counted(FALSE, "skipped")

\* Not a URL, with what --replay-target says.
NewRequestFails == /\ pc = "send" /\ ~writeRecord(original).grpc
                   /\ Counted(TRUE, "failed")
                   /\ UNCHANGED skipped

Do == /\ pc = "send" /\ ~writeRecord(original).grpc
      /\ pc' = "wait" /\ sent' = writeRecord(original).reqBody
      /\ UNCHANGED <<failOnDiff, original, counters, code, met>>

DoFails == /\ pc = "wait"
           /\ Counted(TRUE, "failed")
           /\ UNCHANGED skipped

Answered(r) ==
  /\ pc = "wait"
  /\ LET ex == writeRecord(original)
     IN Counted(r.status # ex.status \/ ~BodyMatch(ex, r), Verdict(original, r))
  /\ UNCHANGED skipped

-----------------------------------------------------------------------------

Next == \/ Open \/ OpenFails
        \/ MalformedLine \/ ScanFails \/ EndOfFile
        \/ \E o \in Exchanges : ReadLine(o)
        \/ SkipGRPC \/ NewRequestFails \/ Do \/ DoFails
        \/ \E r \in Responses : Answered(r)

Spec == Init /\ [][Next]_vars

-----------------------------------------------------------------------------
(* Properties *)

TypeOK == /\ pc \in {"open", "scan", "send", "wait", "done"}
          /\ failOnDiff \in BOOLEAN
          /\ original \in Exchanges \cup {None}
          /\ n \in Nat /\ errs \in Nat /\ diffs \in Nat /\ skipped \in Nat
          /\ code \in {None, 0, 1, 2}
          /\ met \subseteq {"unreadable", "malformed", "skipped", "failed", "unchanged",
                            "not in the recording", "altered", "longer", "similar"}

\* Exit code 0 says that every line was read and parsed, and with
\* --replay-fail-on-diff that no request failed and no response differed from
\* the recording, in its status or its text: from a prefix in that prefix, from a
\* complete body anywhere (README.md:120-121, 354-356, record.go:128-129).  The code
\* keeps this but for a response that is "longer": no more of it is read than could be
\* kept of the recorded one (record.go:255), and that is compared as if it were all
\* (record.go:265), so one that goes on behind it passes, against README.md:121.
SuccessIsEarned ==
  code = 0 => /\ met \cap {"unreadable", "malformed"} = {}
              /\ failOnDiff => met \cap {"failed", "altered"} = {}

\* Exit code 2 says that something differed: a server that answers as it did
\* before does not fail the build, however the response was compressed, cut by
\* --max-capture or cut off, as long as its text is in the recording at all (a
\* body that is binary, or cut inside a character or before its first byte, is
\* not); and it was asked the same: a request whose body was captured whole, is text
\* and not compressed, is sent again as it was.  Code 1 says that the recording
\* could not be read or parsed (README.md:120-121, record.go:128-129).
FailureIsReal ==
  /\ code = 2 => failOnDiff /\ met \cap {"failed", "altered", "longer", "similar", "not in the recording"} # {}
  /\ pc = "wait" =>
       LET q == original.request
       IN (q.type = "text" /\ q.layers = <<>> /\ q.arrived = Len(q.body) /\ ValidUTF8(q.body)
             /\ Len(q.body) <= captureMaxBody) => sent = q.body
  /\ code = 1 => met \cap {"unreadable", "malformed"} # {}

\* Text that is displayed without the marker is all of the body; with it, text that was
\* displayed is a beginning of the body (an encoding of several layers apart, of
\* which the first is all that is decoded when it is cut).
TextIsHonest(m, recording) ==
  LET shown == truncateForDisplay(captureBody(m, recording))
  IN (m.type = "text" /\ shown # Placeholder /\ m.arrived > 0 /\ Len(m.layers) <= 1) =>
       \/ shown = m.body /\ m.arrived = Len(Wire(m))
       \/ /\ shown # <<>> /\ Last(shown) = Marker
          /\ IsPrefix(Front(shown), m.body)

\* The counts of a gRPC body are its own, or less and marked so (if it has
\* no Content-Encoding, which gRPC does not use and the count does not look at).
SummaryIsHonest(m, recording) ==
  (m.type = "grpc" /\ m.layers = <<>> /\ m.arrived > 0) =>
     LET summary == captureBody(m, recording).text[1]
         all     == grpcMessages(m.body)
     IN IF summary[4] THEN summary[2] <= all.msgs /\ summary[3] <= all.payload
                      ELSE summary[2] = all.msgs /\ summary[3] = all.payload

\* "A cut-off body is never mistaken for a complete one" (README.md:252), with the
\* captures on and without, be it shown as text or summed up.
DisplayIsHonest ==
  pc = "send" => \A recording \in BOOLEAN : /\ TextIsHonest(original.response, recording)
                                            /\ SummaryIsHonest(original.response, recording)
=============================================================================
