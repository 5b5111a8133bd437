--------------------------------- MODULE Tui ---------------------------------
(***************************************************************************)
(* The terminal UI (tui.go): the model that Update keeps of the exchanges, *)
(* fed with the events that the proxy's goroutines send in --ui mode.      *)
(*                                                                         *)
(* The queue between them is a sequence: module EventQueue shows that it   *)
(* is one for a single consumer.  That there is a single one is shown      *)
(* here: bubbletea runs every listenTUI command that Init or Update        *)
(* returns in a goroutine of its own, and calls Update with what the       *)
(* goroutines bring, in any order, one message at a time, keys in between. *)
(*                                                                         *)
(* A body is shown or not; the text of an exchange that is not looked into *)
(* is left out.                                                            *)
(***************************************************************************)
EXTENDS Naturals, Sequences, FiniteSets

CONSTANTS Exchanges,   \* the exchanges that match the filter
          ReqTexts,    \* "coming" if a request body may have a text to show, or "none"
          NoExchange,  \* stands where there is none
          MaxQueued    \* how far the UI may lag behind (bounds the state space)

ASSUME NoExchangeAssumption == NoExchange \notin Exchanges
ASSUME MaxQueuedAssumption == MaxQueued \in Nat
ASSUME ReqTextsAssumption == ReqTexts \subseteq {"none", "coming"}

VARIABLES
  \* the proxy's side
  pc,         \* each handler: "idle", "sent", "failed", "head", "copy", "over"
  reqText,    \* the text of a request body: "none", "coming", "sent"
  respText,   \* the response body has a text to show
  exited,     \* the wrapped command has exited
  queue,      \* tuiQueue
  \* the UI's side
  listening,  \* listenTUI commands that wait in pop
  inbox,      \* messages popped, on their way to Update
  running,    \* the UI has not been quit
  entries, cursor, showDetail, ready, done,  \* fields of tuiModel; done = doneMsg is set
  content,    \* what the detail panel holds
  atTop       \* the detail panel is not scrolled

proxy == <<pc, reqText, respText, exited>>
model == <<entries, cursor, showDetail, ready, done, content, atTop>>
vars  == <<proxy, queue, listening, inbox, running, model>>

Entry == [id : Exchanges, pending : BOOLEAN, reqBody : BOOLEAN, respBody : BOOLEAN]
Blank == [id |-> NoExchange, pending |-> TRUE, reqBody |-> FALSE, respBody |-> FALSE]

Msg(type, id, body) == [type |-> type, id |-> id, body |-> body]
MsgTypes == {"tuiReqMsg", "tuiRespMsg", "tuiReqBodyMsg", "tuiRespBodyMsg"}
Message  == [type : MsgTypes, id : Exchanges, body : BOOLEAN]
              \cup {Msg("tuiDoneMsg", NoExchange, FALSE)}

Init == /\ pc = [e \in Exchanges |-> "idle"]
        /\ reqText = [e \in Exchanges |-> "none"]
        /\ respText = [e \in Exchanges |-> FALSE]
        /\ exited = FALSE
        /\ queue = <<>>
        /\ listening = 1
        /\ inbox = {}
        /\ running = TRUE
        /\ entries = <<>> /\ cursor = 0 /\ showDetail = FALSE /\ ready = FALSE
        /\ done = FALSE
        /\ content = Blank /\ atTop = TRUE

-----------------------------------------------------------------------------
(* The proxy's goroutines *)

tuiSend(type, id, body) == /\ Len(queue) < MaxQueued
                           /\ queue' = Append(queue, Msg(type, id, body))
                           /\ UNCHANGED <<listening, inbox, running, model>>

Handler(e, from, to) == pc[e] = from /\ pc' = [pc EXCEPT ![e] = to]

\* logRequest; the request may have a body with a text to show.
logRequest(e) ==
  /\ Handler(e, "idle", "sent")
  /\ \E text \in ReqTexts : reqText' = [reqText EXCEPT ![e] = text]
  /\ tuiSend("tuiReqMsg", e, FALSE)
  /\ UNCHANGED <<respText, exited>>

\* onRequestBody sends nothing for a body without text.
onRequestBody(e) ==
  /\ reqText[e] = "coming"
  /\ reqText' = [reqText EXCEPT ![e] = "sent"]
  /\ tuiSend("tuiReqBodyMsg", e, TRUE)
  /\ UNCHANGED <<pc, respText, exited>>

\* The exchange fails: discardReqID tells the UI nothing.
discardReqID(e) ==
  /\ Handler(e, "sent", "failed")
  /\ UNCHANGED <<reqText, respText, exited, queue, listening, inbox, running, model>>

\* Mutant: the head is sent once the body is over, whether there is one or not.
logResponse_BodyFirst(e) ==
  /\ Handler(e, "sent", "head")
  /\ \E text \in BOOLEAN : /\ respText' = [respText EXCEPT ![e] = text]
                           /\ tuiSend("tuiRespBodyMsg", e, text)
  /\ UNCHANGED <<reqText, exited>>

\* logResponse: an absent body is reported before the head is sent; any other
\* streams after it.
logResponse(e) ==
  /\ \/ Handler(e, "sent", "head") /\ tuiSend("tuiRespBodyMsg", e, FALSE)
     \/ Handler(e, "sent", "copy") /\ tuiSend("tuiRespMsg", e, FALSE)
  /\ UNCHANGED <<reqText, respText, exited>>

\* The rest of logResponse, of an absent body.
sendHead(e) ==
  /\ Handler(e, "head", "over")
  /\ tuiSend("tuiRespMsg", e, FALSE)
  /\ UNCHANGED <<reqText, respText, exited>>

onResponseBody(e) ==
  /\ Handler(e, "copy", "over")
  /\ \E text \in BOOLEAN : /\ respText' = [respText EXCEPT ![e] = text]
                           /\ tuiSend("tuiRespBodyMsg", e, text)
  /\ UNCHANGED <<reqText, exited>>

CommandExits ==
  /\ ~exited
  /\ exited' = TRUE
  /\ tuiSend("tuiDoneMsg", NoExchange, FALSE)
  /\ UNCHANGED <<pc, reqText, respText>>

-----------------------------------------------------------------------------
(* The model: helpers *)

\* renderEntryDetail: of a pending entry the request half only.
renderEntryDetail(entry) == [entry EXCEPT !.respBody = @ /\ ~entry.pending]

\* Of the model as the step leaves it.
refreshDetail(resetScroll) ==
  IF ready' /\ entries' # <<>> /\ cursor' < Len(entries')
    THEN /\ content' = renderEntryDetail(entries'[cursor' + 1])
         /\ atTop' = (atTop \/ resetScroll)
    ELSE UNCHANGED <<content, atTop>>

\* An update of the entry of an exchange, if there is one.
Updated(e, change(_)) ==
  [i \in 1 .. Len(entries) |-> IF entries[i].id = e THEN change(entries[i]) ELSE entries[i]]

\* Update returns listenTUI as its command.
listenTUI == listening' = listening + 1

-----------------------------------------------------------------------------
(* The model: messages *)

\* A listener's pop returns.
Pop == /\ running /\ listening > 0 /\ queue # <<>>
       /\ inbox' = inbox \cup {Head(queue)}
       /\ queue' = Tail(queue)
       /\ listening' = listening - 1
       /\ UNCHANGED <<proxy, running, model>>

Receive(m, type) == running /\ m \in inbox /\ m.type = type /\ inbox' = inbox \ {m}

\* Mutant: the cursor follows, the panel does not.
UpdateReq_NoRefresh(m) ==
  /\ Receive(m, "tuiReqMsg")
  /\ entries' = Append(entries, [Blank EXCEPT !.id = m.id])
  /\ cursor' = IF cursor = Len(entries) - 1 THEN Len(entries) ELSE cursor
  /\ listenTUI
  /\ UNCHANGED <<proxy, queue, running, showDetail, ready, done, content, atTop>>

\* tuiReqMsg: a new entry; the cursor follows if it was on the last one.
UpdateReq(m) ==
  /\ Receive(m, "tuiReqMsg")
  /\ entries' = Append(entries, [Blank EXCEPT !.id = m.id])
  /\ UNCHANGED ready
  /\ \/ /\ cursor + 1 = Len(entries)
        /\ cursor' = Len(entries)
        /\ refreshDetail(TRUE)
     \/ /\ cursor + 1 # Len(entries)
        /\ UNCHANGED <<cursor, content, atTop>>
  /\ listenTUI
  /\ UNCHANGED <<proxy, queue, running, showDetail, done>>

\* The other messages about an exchange update its entry in place.
InPlace(m, type, change(_)) ==
  /\ Receive(m, type)
  /\ entries' = Updated(m.id, change)
  /\ UNCHANGED <<cursor, ready>>
  /\ refreshDetail(FALSE)
  /\ listenTUI
  /\ UNCHANGED <<proxy, queue, running, showDetail, done>>

\* tuiRespMsg: no sender fills its body field, and it takes the place of the
\* body the entry has.
UpdateResp(m) ==
  InPlace(m, "tuiRespMsg", LAMBDA x : [x EXCEPT !.pending = FALSE, !.respBody = m.body])

UpdateReqBody(m) ==
  InPlace(m, "tuiReqBodyMsg", LAMBDA x : [x EXCEPT !.reqBody = m.body])

UpdateRespBody(m) ==
  InPlace(m, "tuiRespBodyMsg", LAMBDA x : [x EXCEPT !.respBody = m.body])

\* Mutant: the command has exited, and nobody listens any more.
UpdateDone_StopsListening(m) ==
  /\ Receive(m, "tuiDoneMsg")
  /\ done' = TRUE
  /\ UNCHANGED <<proxy, queue, listening, running, entries, cursor, showDetail, ready,
                 content, atTop>>

UpdateDone(m) ==
  /\ Receive(m, "tuiDoneMsg")
  /\ done' = TRUE
  /\ listenTUI
  /\ UNCHANGED <<proxy, queue, running, entries, cursor, showDetail, ready, content, atTop>>

-----------------------------------------------------------------------------
(* The model: keys and the window *)

Others == <<proxy, queue, listening, inbox>>

\* Mutant: the scroll position of the last entry is kept for the next.
Select_KeepsScroll(to) ==
  /\ running /\ cursor' = to
  /\ UNCHANGED <<Others, running, entries, showDetail, ready, done>>
  /\ refreshDetail(FALSE)

Select(to) == /\ running /\ cursor' = to
              /\ UNCHANGED <<Others, running, entries, showDetail, ready, done>>
              /\ refreshDetail(TRUE)

KeyUp     == cursor > 0 /\ Select(cursor - 1)
KeyDown   == cursor + 1 < Len(entries) /\ Select(cursor + 1)
KeyTop    == Select(0)
KeyBottom == entries # <<>> /\ Select(Len(entries) - 1)

\* applySize follows a change of showDetail or of the window.
ShowDetail(shown) == /\ running /\ showDetail' = shown
                     /\ UNCHANGED <<Others, running, entries, cursor, ready, done>>
                     /\ refreshDetail(FALSE)

KeyEnter == entries # <<>> /\ ShowDetail(~showDetail)
KeyEsc   == ShowDetail(FALSE)

\* Keys the list does not use scroll the panel.
KeyScroll == /\ running /\ showDetail /\ ready
             /\ atTop' \in BOOLEAN
             /\ UNCHANGED <<Others, running, entries, cursor, showDetail, ready, done, content>>

\* The first size of the window makes the panel.
WindowSize == /\ running
              /\ ready' = TRUE
              /\ UNCHANGED <<Others, running, entries, cursor, showDetail, done>>
              /\ refreshDetail(FALSE)

\* bubbletea returns, and its model and listener are of no use to anyone.
KeyQuit == /\ running
           /\ running' = FALSE
           /\ entries' = <<>> /\ cursor' = 0 /\ showDetail' = FALSE /\ ready' = FALSE
           /\ done' = FALSE /\ content' = Blank /\ atTop' = TRUE
           /\ listening' = 0 /\ inbox' = {} /\ queue' = <<>>
           /\ UNCHANGED proxy

-----------------------------------------------------------------------------

\* Nobody sees what is sent once the UI has been quit.
Proxy == /\ running
         /\ \/ CommandExits
            \/ \E e \in Exchanges : \/ logRequest(e) \/ onRequestBody(e) \/ discardReqID(e)
                                   \/ logResponse(e) \/ sendHead(e) \/ onResponseBody(e)

Update == \E m \in inbox : \/ UpdateReq(m) \/ UpdateResp(m) \/ UpdateReqBody(m)
                           \/ UpdateRespBody(m) \/ UpdateDone(m)

User == KeyUp \/ KeyDown \/ KeyTop \/ KeyBottom \/ KeyEnter \/ KeyEsc \/ KeyScroll
          \/ WindowSize \/ KeyQuit

Next == Proxy \/ Pop \/ Update \/ User

\* bubbletea runs the command and calls Update with what it brings.
Fairness == WF_vars(Pop) /\ WF_vars(Update)

Spec     == Init /\ [][Next]_vars
FairSpec == Spec /\ Fairness

-----------------------------------------------------------------------------
(* Properties *)

TypeOK ==
  /\ pc \in [Exchanges -> {"idle", "sent", "failed", "head", "copy", "over"}]
  /\ reqText \in [Exchanges -> {"none", "coming", "sent"}]
  /\ respText \in [Exchanges -> BOOLEAN]
  /\ queue \in Seq(Message) /\ inbox \subseteq Message
  /\ listening \in 0 .. 1
  /\ entries \in Seq(Entry)
  /\ cursor \in Nat /\ (cursor = 0 \/ cursor < Len(entries))
  /\ content \in Entry \cup {Blank}
  /\ {exited, running, showDetail, ready, done, atTop} \subseteq BOOLEAN

\* Exactly one listener waits for the next event or has brought one, whatever
\* keys are pressed in between (tui.go:205-245): with two, events overtake each
\* other; with none, the UI goes deaf.
OneListener == running => listening + Cardinality(inbox) = 1

\* The detail panel, when shown, shows the selected entry as it is now, not as
\* it was when it was selected.
DetailIsCurrent ==
  (ready /\ showDetail) => content = renderEntryDetail(entries[cursor + 1])

\* A message never moves the panel under the reader: only another selection
\* takes it back to the top, and that always does; and a message selects another
\* entry only to follow the last one (tui.go:200-204, 217-218, 281-283).
ScrollFollowsSelection ==
  [][/\ (ready /\ cursor' # cursor) => atTop'
     /\ (inbox' # inbox /\ running' /\ cursor' = cursor) => atTop' = atTop
     /\ (inbox' # inbox /\ running' /\ cursor' # cursor) =>
          cursor = Len(entries) - 1 /\ cursor' = Len(entries') - 1]_vars

\* Once every event has been taken in there is one entry for each exchange, and
\* it shows the bodies that were sent and that the response has come, whichever
\* of the head and the body was sent first.
SettledView ==
  (running /\ queue = <<>> /\ inbox = {}) =>
    \A e \in Exchanges :
      /\ Cardinality({i \in 1 .. Len(entries) : entries[i].id = e})
           = IF pc[e] = "idle" THEN 0 ELSE 1
      /\ \A i \in 1 .. Len(entries) : entries[i].id = e =>
           /\ reqText[e] = "sent" <=> entries[i].reqBody
           /\ pc[e] \in {"copy", "over"} => ~entries[i].pending
           /\ pc[e] = "over" => entries[i].respBody = respText[e]

Shown(e) == \E i \in 1 .. Len(entries) : entries[i].id = e /\ ~entries[i].pending

\* A response that has come is shown in the end unless the UI is quit, also when
\* it comes after the wrapped command has exited.
ResponseIsShown == \A e \in Exchanges : pc[e] = "over" ~> Shown(e) \/ ~running
=============================================================================
