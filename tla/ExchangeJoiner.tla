--------------------------- MODULE ExchangeJoiner ---------------------------
(***************************************************************************)
(* exchangeJoiner (exchange.go): pairs the request half and the response   *)
(* half of each exchange by request number and hands the pair to --record  *)
(* and --har.                                                              *)
(*                                                                         *)
(* The three operations run in different goroutines.  What each does under *)
(* the joiner's mutex is one action.  completeExchange runs after the      *)
(* mutex is released, in the goroutine that brought the second half: it is *)
(* a task in "completing", whose two writes (writeRecord under recordMu,   *)
(* addHAREntry under harMu) are actions of their own and interleave with   *)
(* everything else.                                                        *)
(*                                                                         *)
(* The callers are the most general ones the rest of the program allows:   *)
(* a body sampler reports once, so each half comes at most once; an        *)
(* exchange is dropped at most once, and only one that gets no response.   *)
(* givenReq, givenResp and abandoned remember the calls; the code has no   *)
(* such state, and no action of the joiner reads it except to keep its     *)
(* callers to that protocol.                                               *)
(***************************************************************************)
EXTENDS Naturals, Sequences

CONSTANTS Ids,         \* request numbers
          Views,       \* what a captured half may carry
          Absent,      \* no half under this key
          recordMode,  \* --record is given
          harMode      \* --har is given

ASSUME AbsentAssumption == Absent \notin Views

\* The samplers call the joiner only under recordMode || harMode.
ASSUME ModeAssumption == /\ recordMode \in BOOLEAN
                         /\ harMode \in BOOLEAN
                         /\ recordMode \/ harMode

VARIABLES reqs,        \* request halves waiting for their response
          resps,       \* response halves waiting for their request
          dropped,     \* abandoned before their request half arrived
          completing,  \* pairs taken out of the maps, not yet written
          recorded,    \* lines of the --record file
          har,         \* entries collected for --har
          givenReq, givenResp, abandoned  \* history: the calls made

maps    == <<reqs, resps, dropped>>
outputs == <<recorded, har>>
history == <<givenReq, givenResp, abandoned>>
vars    == <<maps, completing, outputs, history>>

Half  == Views \cup {Absent}
Entry == [id : Ids, req : Views, resp : Views]
Task  == [entry : Entry, next : {"record", "har"}]

Init == /\ reqs  = [id \in Ids |-> Absent]
        /\ resps = [id \in Ids |-> Absent]
        /\ dropped = {}
        /\ completing = {}
        /\ recorded = <<>>
        /\ har = <<>>
        /\ givenReq  = [id \in Ids |-> Absent]
        /\ givenResp = [id \in Ids |-> Absent]
        /\ abandoned = {}

-----------------------------------------------------------------------------
(* completeExchange *)

\* Mutant: the HAR comes first and takes the place of the recording.
completeExchange_HarFirst(id, r, rs) ==
  [entry |-> [id |-> id, req |-> r, resp |-> rs],
   next  |-> IF harMode THEN "har" ELSE "record"]

\* The task a goroutine enters with when it calls completeExchange.
completeExchange(id, r, rs) ==
  [entry |-> [id |-> id, req |-> r, resp |-> rs],
   next  |-> IF recordMode THEN "record" ELSE "har"]

\* writeRecord: one line is appended under recordMu, then the HAR, if wanted.
writeRecord(t) ==
  /\ t \in completing /\ t.next = "record"
  /\ recorded' = Append(recorded, t.entry)
  /\ completing' = (completing \ {t}) \cup
                     (IF harMode THEN {[t EXCEPT !.next = "har"]} ELSE {})
  /\ UNCHANGED <<maps, har, history>>

\* addHAREntry: one entry is appended under harMu.
addHAREntry(t) ==
  /\ t \in completing /\ t.next = "har"
  /\ har' = Append(har, t.entry)
  /\ completing' = completing \ {t}
  /\ UNCHANGED <<maps, recorded, history>>

-----------------------------------------------------------------------------
(* The operations *)

\* Mutant: a request half is parked without a look at resps.
addRequest_AlwaysFirst(id, r) ==
  /\ givenReq[id] = Absent
  /\ givenReq' = [givenReq EXCEPT ![id] = r]
  /\ \/ /\ id \in dropped
        /\ dropped' = dropped \ {id}
        /\ UNCHANGED <<reqs, resps, completing>>
     \/ /\ id \notin dropped
        /\ reqs' = [reqs EXCEPT ![id] = r]
        /\ UNCHANGED <<resps, dropped, completing>>
  /\ UNCHANGED <<outputs, givenResp, abandoned>>

\* A late request half of an abandoned exchange is discarded; one whose
\* response is not here yet is parked; otherwise the pair leaves the maps.
addRequest(id, r) ==
  /\ givenReq[id] = Absent
  /\ givenReq' = [givenReq EXCEPT ![id] = r]
  /\ \/ /\ id \in dropped
        /\ dropped' = dropped \ {id}
        /\ UNCHANGED <<reqs, resps, completing>>
     \/ /\ id \notin dropped
        /\ resps[id] = Absent
        /\ reqs' = [reqs EXCEPT ![id] = r]
        /\ UNCHANGED <<resps, dropped, completing>>
     \/ /\ id \notin dropped
        /\ resps[id] # Absent
        /\ resps' = [resps EXCEPT ![id] = Absent]
        /\ completing' = completing \cup {completeExchange(id, r, resps[id])}
        /\ UNCHANGED <<reqs, dropped>>
  /\ UNCHANGED <<outputs, givenResp, abandoned>>

addResponse(id, rs) ==
  /\ givenResp[id] = Absent
  /\ id \notin abandoned
  /\ givenResp' = [givenResp EXCEPT ![id] = rs]
  /\ \/ /\ reqs[id] = Absent
        /\ resps' = [resps EXCEPT ![id] = rs]
        /\ UNCHANGED <<reqs, completing>>
     \/ /\ reqs[id] # Absent
        /\ reqs' = [reqs EXCEPT ![id] = Absent]
        /\ completing' = completing \cup {completeExchange(id, reqs[id], rs)}
        /\ UNCHANGED resps
  /\ UNCHANGED <<dropped, outputs, givenReq, abandoned>>

\* Mutant: the drop is remembered even if the request half was here.
drop_Remembers(id) ==
  /\ givenResp[id] = Absent
  /\ id \notin abandoned
  /\ abandoned' = abandoned \cup {id}
  /\ reqs'  = [reqs EXCEPT ![id] = Absent]
  /\ resps' = [resps EXCEPT ![id] = Absent]
  /\ dropped' = dropped \cup {id}
  /\ UNCHANGED <<completing, outputs, givenReq, givenResp>>

drop(id) ==
  /\ givenResp[id] = Absent
  /\ id \notin abandoned
  /\ abandoned' = abandoned \cup {id}
  /\ reqs'  = [reqs EXCEPT ![id] = Absent]
  /\ resps' = [resps EXCEPT ![id] = Absent]
  /\ dropped' = IF reqs[id] = Absent THEN dropped \cup {id} ELSE dropped
  /\ UNCHANGED <<completing, outputs, givenReq, givenResp>>

Next == \/ \E id \in Ids : \/ \E v \in Views : addRequest(id, v) \/ addResponse(id, v)
                           \/ drop(id)
        \/ \E t \in completing : writeRecord(t) \/ addHAREntry(t)

\* A goroutine inside completeExchange runs to its end.
Fairness == \A id \in Ids :
              WF_vars(\E t \in completing : /\ t.entry.id = id
                                            /\ writeRecord(t) \/ addHAREntry(t))

Spec     == Init /\ [][Next]_vars
FairSpec == Spec /\ Fairness

-----------------------------------------------------------------------------
(* Properties *)

TypeOK == /\ reqs \in [Ids -> Half]
          /\ resps \in [Ids -> Half]
          /\ dropped \subseteq Ids
          /\ completing \subseteq Task
          /\ recorded \in Seq(Entry)
          /\ har \in Seq(Entry)
          /\ givenReq \in [Ids -> Half]
          /\ givenResp \in [Ids -> Half]
          /\ abandoned \subseteq Ids

\* The joiner has no more calls to expect for the exchange.
Settled(id) == givenReq[id] # Absent /\ (givenResp[id] # Absent \/ id \in abandoned)

\* What pending() counts for one exchange.
Parked(id) == reqs[id] # Absent \/ resps[id] # Absent \/ id \in dropped

\* Whichever half came first, and whether a drop overtook the request half
\* or came after it, an exchange with nothing more to come leaves nothing
\* behind in the three maps: pending() returns to zero (exchange.go:26-30, the
\* late half "is discarded rather than parked forever").
NothingParkedForever == \A id \in Ids : Settled(id) => ~Parked(id)

\* No request number appears twice in the recording or in the HAR, and one that
\* is still to be written there is not there yet.
WrittenOnce ==
  /\ \A i, j \in 1 .. Len(recorded) : recorded[i].id = recorded[j].id => i = j
  /\ \A i, j \in 1 .. Len(har) : har[i].id = har[j].id => i = j
  /\ \A t, u \in completing : t.entry.id = u.entry.id => t = u
  /\ \A t \in completing :
       /\ \A i \in 1 .. Len(har) : har[i].id # t.entry.id
       /\ t.next = "record" => \A i \in 1 .. Len(recorded) : recorded[i].id # t.entry.id

\* With both outputs on, what the HAR holds the recording holds too: an exit
\* that cuts completeExchange short can lose the HAR entry of a recorded
\* exchange, never the reverse.
HarWithinRecording ==
  recordMode => \A i \in 1 .. Len(har) : \E j \in 1 .. Len(recorded) : recorded[j] = har[i]

\* Each output is the log of ExchangeLog: every pair is made of the halves that
\* were given for that exchange, is written once, and only if both were given.
Recording == INSTANCE ExchangeLog WITH log <- recorded
HarLog    == INSTANCE ExchangeLog WITH log <- har

RecordingSpec == Recording!Spec
HarLogSpec    == HarLog!Spec

\* And every exchange whose two halves have been given is written in the end, to both
\* outputs (exchange.go:96-104).
LogsFairSpec == Recording!FairSpec /\ HarLog!FairSpec
=============================================================================
