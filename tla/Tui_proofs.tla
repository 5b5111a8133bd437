----------------------------- MODULE Tui_proofs -----------------------------
(***************************************************************************)
(* Proofs about Tui, for any number of exchanges and any backlog of        *)
(* events: there is one listener, the detail panel is current, and once    *)
(* every event has been taken in the list shows what has happened.         *)
(*                                                                         *)
(* Listener is OneListener without the arithmetic: the listener waits in   *)
(* pop, or its one message is on its way to Update, which starts the next. *)
(* For the panel it takes that it is open only if there is an entry, and   *)
(* that the cursor is on an entry if there is one: then every branch of    *)
(* Update that changes what is selected, or the entry that is selected,    *)
(* renders it again.                                                       *)
(*                                                                         *)
(* For the list it takes what Update has not seen yet, in the order in     *)
(* which it will (Coming): the first event of an exchange comes before the *)
(* others and finds no entry, the others find one; everything that has     *)
(* happened is in the list or on its way; and the text of a response body, *)
(* which the head would erase, is never on its way in front of the head.   *)
(*                                                                         *)
(* And about EventQueue, which carries the events to the list, for any set *)
(* of producers and any number of pushes.                                  *)
(***************************************************************************)
EXTENDS Tui, EventQueue, FiniteSetTheorems, SequenceTheorems, TLAPS

\* One listener, before or behind its pop (tui.go:116-142).
Listener == running => \/ listening = 1 /\ inbox = {}
                       \/ listening = 0 /\ \E m \in Message : inbox = {m}

\* The cursor is on an entry if there is one, and only then is the panel shown
\* (tui.go:148-179, 198-205).
OnEntry == /\ entries = <<>> => cursor = 0 /\ ~showDetail
           /\ entries # <<>> => cursor < Len(entries)

\* What the proofs need of the types.
Types == /\ entries \in Seq(Entry) /\ cursor \in Nat
         /\ queue \in Seq(Message) /\ inbox \subseteq Message
         /\ listening \in 0 .. 1
         /\ {showDetail, ready, running} \subseteq BOOLEAN

IInv == Types /\ Listener /\ OnEntry /\ DetailIsCurrent

-----------------------------------------------------------------------------
(* What the actions have in common *)

\* A handler's event leaves the UI alone.
LEMMA ProxyStep == ASSUME IInv, Proxy PROVE IInv'
<1>1. ASSUME NEW type, NEW id, NEW body, Msg(type, id, body) \in Message,
             tuiSend(type, id, body)
      PROVE  IInv'
  <2>1. queue' \in Seq(Message)
    BY <1>1, AppendProperties DEF tuiSend, IInv, Types
  <2>2. UNCHANGED <<listening, inbox, running, model>>
    BY <1>1 DEF tuiSend
  <2>3. Types'
    BY <2>1, <2>2 DEF IInv, Types, model
  <2>4. Listener' /\ OnEntry' /\ DetailIsCurrent'
    BY <2>2 DEF IInv, Listener, OnEntry, DetailIsCurrent, model
  <2> QED
    BY <2>3, <2>4 DEF IInv
<1>2. CASE CommandExits
  BY <1>1, <1>2 DEF CommandExits, Message
<1>3. ASSUME NEW e \in Exchanges, NEW type \in MsgTypes, NEW body \in BOOLEAN
      PROVE  Msg(type, e, body) \in Message
  BY DEF Msg, Message
<1>4. ASSUME NEW e \in Exchanges, logRequest(e) \/ onRequestBody(e) \/ logResponse(e) \/ sendHead(e)
      PROVE  IInv'
  BY <1>1, <1>3, <1>4 DEF logRequest, onRequestBody, logResponse, sendHead, MsgTypes
<1>5. ASSUME NEW e \in Exchanges, onResponseBody(e) PROVE IInv'
  <2>1. PICK text \in BOOLEAN : tuiSend("tuiRespBodyMsg", e, text)
    BY <1>5 DEF onResponseBody
  <2> QED
    BY <1>1, <1>3, <2>1 DEF MsgTypes
<1>6. ASSUME NEW e \in Exchanges, discardReqID(e) PROVE IInv'
  BY <1>6 DEF discardReqID, IInv, Types, Listener, OnEntry, DetailIsCurrent, model
<1> QED
  BY <1>2, <1>4, <1>5, <1>6 DEF Proxy

\* A listener that has brought its message is replaced by the next.
LEMMA ListenerStep ==
  ASSUME IInv, NEW m, NEW type, Receive(m, type), listenTUI, UNCHANGED running
  PROVE  Listener' /\ listening' \in 0 .. 1 /\ inbox' \subseteq Message /\ m \in Message
<1>1. listening = 0 /\ inbox = {m} /\ m \in Message
  BY DEF IInv, Listener, Receive
<1> QED
  BY <1>1 DEF Receive, listenTUI, Listener

\* refreshDetail makes the panel current.
LEMMA Refreshed ==
  ASSUME NEW reset, refreshDetail(reset), OnEntry', Types'
  PROVE  DetailIsCurrent'
  BY DEF refreshDetail, DetailIsCurrent, OnEntry, Types, renderEntryDetail

-----------------------------------------------------------------------------
(* Update *)

LEMMA UpdateReqStep == ASSUME IInv, NEW m, UpdateReq(m) PROVE IInv'
<1>1. Listener' /\ listening' \in 0 .. 1 /\ inbox' \subseteq Message /\ m \in Message
  BY ListenerStep DEF UpdateReq
<1>2. [Blank EXCEPT !.id = m.id] \in Entry
  <2>1. m.type = "tuiReqMsg"
    BY DEF UpdateReq, Receive
  <2>2. m \in [type : MsgTypes, id : Exchanges, body : BOOLEAN]
    BY <1>1, <2>1 DEF Message, Msg
  <2>3. m.id \in Exchanges
    BY <2>2
  <2> QED
    BY <2>3 DEF Blank, Entry
<1>3. /\ entries' \in Seq(Entry) /\ Len(entries') = Len(entries) + 1 /\ entries' # <<>>
      /\ \A i \in 1 .. Len(entries) : entries'[i] = entries[i]
  BY <1>2, AppendProperties DEF UpdateReq, IInv, Types
<1>4. CASE cursor + 1 = Len(entries)
  <2>1. cursor' = Len(entries) /\ refreshDetail(TRUE)
    BY <1>4 DEF UpdateReq
  <2>2. Types' /\ OnEntry'
    BY <1>1, <1>3, <2>1 DEF UpdateReq, IInv, Types, OnEntry
  <2> QED
    BY <1>1, <2>1, <2>2, Refreshed DEF IInv
<1>5. CASE cursor + 1 # Len(entries)
  <2>1. UNCHANGED <<cursor, content, showDetail, ready>>
    BY <1>5 DEF UpdateReq
  <2>2. Types' /\ OnEntry'
    BY <1>1, <1>3, <2>1 DEF UpdateReq, IInv, Types, OnEntry
  <2>3. DetailIsCurrent'
    BY <1>3, <2>1 DEF IInv, Types, OnEntry, DetailIsCurrent, renderEntryDetail
  <2> QED
    BY <1>1, <2>2, <2>3 DEF IInv
<1> QED
  BY <1>4, <1>5

\* An update in place keeps the number of entries.
LEMMA InPlaceStep ==
  ASSUME IInv, NEW m, UpdateResp(m) \/ UpdateReqBody(m) \/ UpdateRespBody(m)
  PROVE  IInv'
<1>1. /\ \E type : Receive(m, type)
      /\ listenTUI /\ refreshDetail(FALSE)
      /\ UNCHANGED <<cursor, ready, running, showDetail, queue>>
  BY DEF UpdateResp, UpdateReqBody, UpdateRespBody, InPlace
<1>2. Listener' /\ listening' \in 0 .. 1 /\ inbox' \subseteq Message /\ m \in Message
  BY <1>1, ListenerStep
<1>3. entries' \in Seq(Entry) /\ Len(entries') = Len(entries)
  <2>1. m.body \in BOOLEAN
    <3>1. CASE m = Msg("tuiDoneMsg", NoExchange, FALSE)
      BY <3>1 DEF Msg
    <3>2. CASE m \in [type : MsgTypes, id : Exchanges, body : BOOLEAN]
      BY <3>2, Zenon
    <3> QED
      BY <1>2, <3>1, <3>2 DEF Message
  <2>2. /\ DOMAIN entries' = 1 .. Len(entries)
        /\ \A i \in 1 .. Len(entries) : entries'[i] \in Entry
        /\ entries' = [i \in 1 .. Len(entries) |-> entries'[i]]
    <3>1. ASSUME NEW x \in Entry
          PROVE  /\ [x EXCEPT !.pending = FALSE, !.respBody = m.body] \in Entry
                 /\ [x EXCEPT !.reqBody = m.body] \in Entry
                 /\ [x EXCEPT !.respBody = m.body] \in Entry
      BY <2>1 DEF Entry
    <3>2. \A i \in 1 .. Len(entries) : entries[i] \in Entry
      BY DEF IInv, Types
    <3>3. CASE UpdateResp(m)
      BY <3>1, <3>2, <3>3 DEF UpdateResp, InPlace, Updated
    <3>4. CASE UpdateReqBody(m)
      BY <3>1, <3>2, <3>4 DEF UpdateReqBody, InPlace, Updated
    <3>5. CASE UpdateRespBody(m)
      BY <3>1, <3>2, <3>5 DEF UpdateRespBody, InPlace, Updated
    <3> QED
      BY <3>3, <3>4, <3>5
  <2> QED
    BY <2>2 DEF IInv, Types
<1>4. Types' /\ OnEntry'
  BY <1>1, <1>2, <1>3, EmptySeq DEF IInv, Types, OnEntry
<1> QED
  BY <1>1, <1>2, <1>4, Refreshed DEF IInv

LEMMA UpdateDoneStep == ASSUME IInv, NEW m, UpdateDone(m) PROVE IInv'
<1>1. Listener' /\ listening' \in 0 .. 1 /\ inbox' \subseteq Message
  BY ListenerStep DEF UpdateDone
<1>2. UNCHANGED <<queue, running, entries, cursor, showDetail, ready, content>>
  BY DEF UpdateDone
<1> QED
  BY <1>1, <1>2 DEF IInv, Types, OnEntry, DetailIsCurrent, renderEntryDetail

\* The listener's message comes off the queue.
LEMMA PopStep == ASSUME IInv, Pop PROVE IInv'
<1>1. Head(queue) \in Message /\ queue' \in Seq(Message)
  BY HeadTailProperties DEF Pop, IInv, Types
<1>2. listening = 1 /\ inbox = {} /\ inbox' = {Head(queue)} /\ listening' = 0
  BY DEF Pop, IInv, Listener
<1>3. UNCHANGED <<running, entries, cursor, showDetail, ready, content>>
  BY DEF Pop, model
<1> QED
  BY <1>1, <1>2, <1>3 DEF IInv, Types, Listener, OnEntry, DetailIsCurrent, renderEntryDetail

-----------------------------------------------------------------------------
(* Keys *)

LEMMA SelectStep ==
  ASSUME IInv, NEW to \in Nat, Select(to), entries = <<>> => to = 0,
         entries # <<>> => to < Len(entries)
  PROVE  IInv'
<1>1. Types' /\ OnEntry' /\ Listener'
  BY DEF Select, Others, IInv, Types, OnEntry, Listener
<1> QED
  BY <1>1, Refreshed DEF Select, IInv

LEMMA ShowDetailStep ==
  ASSUME IInv, NEW shown \in BOOLEAN, ShowDetail(shown), entries = <<>> => ~shown
  PROVE  IInv'
<1>1. Types' /\ OnEntry' /\ Listener'
  BY DEF ShowDetail, Others, IInv, Types, OnEntry, Listener
<1> QED
  BY <1>1, Refreshed DEF ShowDetail, IInv

LEMMA UserStep == ASSUME IInv, User PROVE IInv'
<1>1. CASE KeyUp \/ KeyDown \/ KeyTop \/ KeyBottom
  BY <1>1, SelectStep DEF KeyUp, KeyDown, KeyTop, KeyBottom, IInv, Types, OnEntry
<1>2. CASE KeyEnter \/ KeyEsc
  BY <1>2, ShowDetailStep DEF KeyEnter, KeyEsc, IInv, Types, OnEntry
<1>3. CASE KeyScroll
  BY <1>3 DEF KeyScroll, Others, IInv, Types, OnEntry, Listener, DetailIsCurrent, renderEntryDetail
<1>4. CASE WindowSize
  <2>1. Types' /\ OnEntry' /\ Listener'
    BY <1>4 DEF WindowSize, Others, IInv, Types, OnEntry, Listener
  <2> QED
    BY <1>4, <2>1, Refreshed DEF WindowSize, IInv
<1>5. CASE KeyQuit
  <2>1. entries' = <<>> /\ cursor' = 0 /\ queue' = <<>> /\ inbox' = {} /\ listening' = 0
    BY <1>5 DEF KeyQuit
  <2>2. running' = FALSE /\ showDetail' = FALSE /\ ready' = FALSE
    BY <1>5 DEF KeyQuit
  <2>3. {showDetail, ready, running}' \subseteq BOOLEAN
    BY <2>2
  <2>4. Types'
    BY <2>1, <2>3, EmptySeq DEF Types
  <2>5. Listener' /\ DetailIsCurrent'
    BY <2>2 DEF Listener, DetailIsCurrent
  <2>6. OnEntry'
    BY <2>1, <2>2 DEF OnEntry
  <2> QED
    BY <2>4, <2>5, <2>6 DEF IInv
<1> QED
  BY <1>1, <1>2, <1>3, <1>4, <1>5 DEF User

-----------------------------------------------------------------------------

\* The strengthening holds when the UI starts, and is kept by every step.
LEMMA Invariance == Spec => []IInv
<1>1. Init => IInv
  <2> SUFFICES ASSUME Init PROVE IInv
    OBVIOUS
  <2>1. entries = <<>> /\ cursor = 0 /\ queue = <<>> /\ inbox = {} /\ listening = 1
    BY DEF Init
  <2>2. running = TRUE /\ showDetail = FALSE /\ ready = FALSE
    BY DEF Init
  <2>3. {showDetail, ready, running} \subseteq BOOLEAN
    BY <2>2
  <2>4. Types
    BY <2>1, <2>3, EmptySeq DEF Types
  <2>5. Listener
    BY <2>1 DEF Listener
  <2>6. OnEntry /\ DetailIsCurrent
    BY <2>1, <2>2 DEF OnEntry, DetailIsCurrent
  <2> QED
    BY <2>4, <2>5, <2>6 DEF IInv
<1>2. IInv /\ [Next]_vars => IInv'
  <2> SUFFICES ASSUME IInv, [Next]_vars PROVE IInv'
    OBVIOUS
  <2>1. CASE Proxy
    BY <2>1, ProxyStep
  <2>2. CASE Pop
    BY <2>2, PopStep
  <2>3. CASE Update
    BY <2>3, UpdateReqStep, InPlaceStep, UpdateDoneStep DEF Update
  <2>4. CASE User
    BY <2>4, UserStep
  <2>5. CASE UNCHANGED vars
    BY <2>5 DEF vars, model, IInv, Types, Listener, OnEntry, DetailIsCurrent, renderEntryDetail
  <2> QED
    BY <2>1, <2>2, <2>3, <2>4, <2>5 DEF Next
<1> QED
  BY <1>1, <1>2, PTL DEF Spec

\* There is one listener: Update neither forgets to start the next nor starts two,
\* whatever keys come in between (tui.go:205-245).
THEOREM OneListenerAlways == Spec => []OneListener
<1>1. IInv => OneListener
  <2> SUFFICES ASSUME IInv, running PROVE listening + Cardinality(inbox) = 1
    BY DEF OneListener
  <2>1. CASE listening = 1 /\ inbox = {}
    BY <2>1, FS_EmptySet
  <2>2. CASE listening = 0 /\ \E m \in Message : inbox = {m}
    BY <2>2, FS_Singleton
  <2> QED
    BY <2>1, <2>2 DEF IInv, Listener
<1> QED
  BY Invariance, <1>1, PTL

\* The detail panel, when shown, shows the selected entry as it is now
\* (tui.go:198-241, 281-292).
THEOREM DetailIsAlwaysCurrent == Spec => []DetailIsCurrent
  BY Invariance, PTL DEF IInv

-----------------------------------------------------------------------------
(* The remaining types *)

ProxyTypes == /\ pc \in [Exchanges -> {"idle", "sent", "failed", "head", "copy", "over"}]
              /\ reqText \in [Exchanges -> {"none", "coming", "sent"}]
              /\ respText \in [Exchanges -> BOOLEAN]

Flags == /\ exited \in BOOLEAN /\ done \in BOOLEAN /\ atTop \in BOOLEAN

LEMMA ProxyTypesStep == ASSUME ProxyTypes, [Next]_vars PROVE ProxyTypes'
<1>1. CASE Proxy
  <2>1. CASE CommandExits
    BY <2>1 DEF CommandExits, ProxyTypes
  <2>2. ASSUME NEW e \in Exchanges, logRequest(e) PROVE ProxyTypes'
    BY <2>2, ReqTextsAssumption DEF logRequest, Handler, ProxyTypes
  <2>3. ASSUME NEW e \in Exchanges,
               onRequestBody(e) \/ discardReqID(e) \/ logResponse(e) \/ sendHead(e)
        PROVE  ProxyTypes'
    BY <2>3 DEF onRequestBody, discardReqID, logResponse, sendHead, Handler, ProxyTypes
  <2>4. ASSUME NEW e \in Exchanges, onResponseBody(e) PROVE ProxyTypes'
    <3>1. PICK text \in BOOLEAN : respText' = [respText EXCEPT ![e] = text]
      BY <2>4 DEF onResponseBody
    <3>2. respText' \in [Exchanges -> BOOLEAN]
      BY <3>1, Zenon DEF ProxyTypes
    <3>3. pc' \in [Exchanges -> {"idle", "sent", "failed", "head", "copy", "over"}]
      BY <2>4 DEF onResponseBody, Handler, ProxyTypes
    <3> QED
      BY <2>4, <3>2, <3>3 DEF onResponseBody, ProxyTypes
  <2> QED
    BY <1>1, <2>1, <2>2, <2>3, <2>4 DEF Proxy
<1>2. CASE Pop \/ Update \/ User \/ UNCHANGED vars
  <2>1. UNCHANGED <<pc, reqText, respText>>
    BY <1>2 DEF Pop, Update, UpdateReq, UpdateResp, UpdateReqBody, UpdateRespBody, InPlace,
       UpdateDone, User, KeyUp, KeyDown, KeyTop, KeyBottom, KeyEnter, KeyEsc, KeyScroll,
       WindowSize, KeyQuit, Select, ShowDetail, Others, proxy, vars
  <2> QED
    BY <2>1 DEF ProxyTypes
<1> QED
  BY <1>1, <1>2 DEF Next

LEMMA RefreshedFlag == ASSUME NEW reset \in BOOLEAN, refreshDetail(reset), atTop \in BOOLEAN
                       PROVE  atTop' \in BOOLEAN
<1>1. (atTop \/ reset) \in BOOLEAN
  BY Zenon
<1> QED
  BY <1>1 DEF refreshDetail

LEMMA FlagsStep == ASSUME Flags, [Next]_vars PROVE Flags'
<1>1. exited' \in BOOLEAN /\ done' \in BOOLEAN
  <2>1. exited' = exited \/ exited' = TRUE
    BY DEF Next, Proxy, CommandExits, logRequest, onRequestBody, discardReqID, logResponse,
       sendHead, onResponseBody, Pop, Update, UpdateReq, UpdateResp, UpdateReqBody, UpdateRespBody,
       InPlace, UpdateDone, User, KeyUp, KeyDown, KeyTop, KeyBottom, KeyEnter, KeyEsc, KeyScroll,
       WindowSize, KeyQuit, Select, ShowDetail, Others, proxy, vars
  <2>2. done' = done \/ done' = TRUE \/ done' = FALSE
    BY DEF Next, Proxy, CommandExits, logRequest, onRequestBody, discardReqID, logResponse,
       sendHead, onResponseBody, tuiSend, Pop, Update, UpdateReq, UpdateResp, UpdateReqBody,
       UpdateRespBody, InPlace, UpdateDone, User, KeyUp, KeyDown, KeyTop, KeyBottom, KeyEnter,
       KeyEsc, KeyScroll, WindowSize, KeyQuit, Select, ShowDetail, model, vars
  <2> QED
    BY <2>1, <2>2 DEF Flags
<1>2. atTop' \in BOOLEAN
  <2>1. \/ refreshDetail(TRUE) \/ refreshDetail(FALSE)
        \/ atTop' = atTop \/ atTop' = TRUE \/ atTop' \in BOOLEAN
    BY DEF Next, Proxy, CommandExits, logRequest, onRequestBody, discardReqID, logResponse,
       sendHead, onResponseBody, tuiSend, Pop, Update, UpdateReq, UpdateResp, UpdateReqBody,
       UpdateRespBody, InPlace, UpdateDone, User, KeyUp, KeyDown, KeyTop, KeyBottom, KeyEnter,
       KeyEsc, KeyScroll, WindowSize, KeyQuit, Select, ShowDetail, model, vars
  <2> QED
    BY <2>1, RefreshedFlag DEF Flags
<1> QED
  BY <1>1, <1>2 DEF Flags

\* The panel holds the rendering of an entry.
LEMMA ContentStep == ASSUME IInv, IInv', content \in Entry \cup {Blank}, [Next]_vars
                     PROVE  content' \in Entry \cup {Blank}
<1>1. ASSUME NEW x \in Entry PROVE renderEntryDetail(x) \in Entry
  BY <1>1 DEF renderEntryDetail, Entry
<1>2. ASSUME NEW reset, refreshDetail(reset) PROVE content' \in Entry \cup {Blank}
  <2>1. CASE content' = content
    BY <2>1
  <2>2. CASE content' # content
    <3>1. cursor' < Len(entries') /\ content' = renderEntryDetail(entries'[cursor' + 1])
      BY <1>2, <2>2 DEF refreshDetail
    <3>2. entries'[cursor' + 1] \in Entry
      BY <3>1 DEF IInv, Types
    <3> QED
      BY <1>1, <3>1, <3>2
  <2> QED
    BY <2>1, <2>2
<1>3. refreshDetail(TRUE) \/ refreshDetail(FALSE) \/ content' = content \/ content' = Blank
  BY DEF Next, Proxy, CommandExits, logRequest, onRequestBody, discardReqID, logResponse,
     sendHead, onResponseBody, tuiSend, Pop, Update, UpdateReq, UpdateResp, UpdateReqBody,
     UpdateRespBody, InPlace, UpdateDone, User, KeyUp, KeyDown, KeyTop, KeyBottom, KeyEnter,
     KeyEsc, KeyScroll, WindowSize, KeyQuit, Select, ShowDetail, model, vars
<1> QED
  BY <1>2, <1>3

LEMMA TypesInvariance == Spec => [](IInv /\ ProxyTypes /\ Flags /\ content \in Entry \cup {Blank})
<1> DEFINE Inv == ProxyTypes /\ Flags /\ content \in Entry \cup {Blank}
<1>1. Init => Inv
  BY DEF Init, ProxyTypes, Flags
<1>2. Inv /\ IInv /\ IInv' /\ [Next]_vars => Inv'
  BY ProxyTypesStep, FlagsStep, ContentStep
<1> QED
  BY <1>1, <1>2, Invariance, PTL DEF Spec

\* Every variable keeps its type.
THEOREM TypeCorrect == Spec => []TypeOK
<1>1. IInv /\ ProxyTypes /\ Flags /\ content \in Entry \cup {Blank} => TypeOK
  BY EmptySeq DEF IInv, Types, OnEntry, ProxyTypes, Flags, TypeOK
<1> QED
  BY <1>1, TypesInvariance, PTL

-----------------------------------------------------------------------------
(* Scrolling *)

\* What ScrollFollowsSelection allows of a step.
Scrolls == /\ (ready /\ cursor' # cursor) => atTop'
           /\ (inbox' # inbox /\ running' /\ cursor' = cursor) => atTop' = atTop
           /\ (inbox' # inbox /\ running' /\ cursor' # cursor) =>
                cursor = Len(entries) - 1 /\ cursor' = Len(entries') - 1

\* Another selection takes the panel back to the top.
LEMMA RefreshedTop == ASSUME refreshDetail(TRUE), ready', entries' # <<>>, cursor' < Len(entries')
                      PROVE  atTop'
  BY DEF refreshDetail

\* refreshDetail(FALSE) does not move it.
LEMMA RefreshedInPlace == ASSUME refreshDetail(FALSE), Flags PROVE atTop' = atTop
<1>1. (atTop \/ FALSE) = atTop
  BY Zenon DEF Flags
<1> QED
  BY <1>1 DEF refreshDetail

LEMMA SelectScrolls == ASSUME IInv, IInv', NEW to, Select(to) PROVE Scrolls
<1>1. UNCHANGED <<inbox, entries, ready>> /\ refreshDetail(TRUE)
  BY DEF Select, Others
<1>2. ASSUME ready, cursor' # cursor PROVE atTop'
  <2>1. entries # <<>>
    BY <1>1, <1>2 DEF IInv, OnEntry
  <2> QED
    BY <1>1, <1>2, <2>1, RefreshedTop DEF IInv, OnEntry
<1> QED
  BY <1>1, <1>2 DEF Scrolls

LEMMA UpdateReqScrolls == ASSUME IInv, IInv', NEW m, UpdateReq(m) PROVE Scrolls
<1>1. entries' # <<>> /\ Len(entries') = Len(entries) + 1 /\ UNCHANGED ready
  BY AppendProperties DEF UpdateReq, IInv, Types
<1>2. CASE cursor + 1 = Len(entries) /\ cursor' = Len(entries) /\ refreshDetail(TRUE)
  <2>1. ready => atTop'
    BY <1>1, <1>2, RefreshedTop DEF IInv, Types
  <2> QED
    BY <1>1, <1>2, <2>1 DEF Scrolls, IInv, Types
<1>3. CASE UNCHANGED <<cursor, atTop>>
  BY <1>3 DEF Scrolls
<1> QED
  BY <1>2, <1>3 DEF UpdateReq

\* A message never moves the panel, and selects another entry only to follow the last
\* one; another selection takes it back to the top (tui.go:200-204, 217-218, 281-283).
THEOREM ScrollAlwaysFollows == Spec => ScrollFollowsSelection
<1>1. IInv /\ IInv' /\ Flags /\ [Next]_vars =>
        [/\ (ready /\ cursor' # cursor) => atTop'
         /\ (inbox' # inbox /\ running' /\ cursor' = cursor) => atTop' = atTop
         /\ (inbox' # inbox /\ running' /\ cursor' # cursor) =>
              cursor = Len(entries) - 1 /\ cursor' = Len(entries') - 1]_vars
  <2> SUFFICES ASSUME IInv, IInv', Flags, [Next]_vars PROVE Scrolls \/ UNCHANGED vars
    BY DEF Scrolls
  <2>1. CASE Proxy \/ Pop \/ KeyScroll
    BY <2>1 DEF Proxy, CommandExits, logRequest, onRequestBody, discardReqID, logResponse,
       sendHead, onResponseBody, tuiSend, Pop, KeyScroll, Others, model, Scrolls
  <2>2. ASSUME NEW m, UpdateReq(m) PROVE Scrolls
    BY <2>2, UpdateReqScrolls
  <2>3. ASSUME NEW m, UpdateResp(m) \/ UpdateReqBody(m) \/ UpdateRespBody(m) PROVE Scrolls
    <3>1. refreshDetail(FALSE) /\ UNCHANGED cursor
      BY <2>3 DEF UpdateResp, UpdateReqBody, UpdateRespBody, InPlace
    <3> QED
      BY <1>1, <3>1, RefreshedInPlace DEF Scrolls
  <2>4. ASSUME NEW m, UpdateDone(m) PROVE Scrolls
    BY <2>4 DEF UpdateDone, Scrolls
  <2>5. CASE KeyUp \/ KeyDown \/ KeyTop \/ KeyBottom
    BY <2>5, SelectScrolls DEF KeyUp, KeyDown, KeyTop, KeyBottom
  <2>6. CASE KeyEnter \/ KeyEsc \/ WindowSize
    BY <2>6 DEF KeyEnter, KeyEsc, ShowDetail, WindowSize, Others, Scrolls
  <2>7. CASE KeyQuit
    BY <2>7 DEF KeyQuit, Scrolls
  <2> QED
    BY <2>1, <2>2, <2>3, <2>4, <2>5, <2>6, <2>7 DEF Next, Update, User
<1> QED
  BY <1>1, TypesInvariance, PTL DEF Spec, ScrollFollowsSelection
-----------------------------------------------------------------------------
(* What is on its way *)

\* The events that Update has not seen, in the order in which it will.
Coming == IF inbox = {} THEN queue ELSE <<CHOOSE m \in inbox : TRUE>> \o queue

At(i, type, e) == i \in 1 .. Len(Coming) /\ Coming[i].type = type /\ Coming[i].id = e
Sent(type, e)  == \E i \in 1 .. Len(Coming) : At(i, type, e)

Sends(m) == /\ Len(Coming) \in Nat /\ Len(Coming') = Len(Coming) + 1
            /\ \A i \in 1 .. Len(Coming) : Coming'[i] = Coming[i]
            /\ Coming'[Len(Coming) + 1] = m

Takes(m) == /\ Len(Coming') \in Nat /\ Len(Coming) = Len(Coming') + 1
            /\ Coming[1] = m
            /\ \A i \in 1 .. Len(Coming') : Coming'[i] = Coming[i + 1]

LEMMA OneComes ==
  ASSUME NEW m, inbox = {m}, queue \in Seq(Message)
  PROVE  /\ Len(Coming) = Len(queue) + 1 /\ Coming[1] = m
         /\ \A i \in 1 .. Len(queue) : Coming[i + 1] = queue[i]
<1>1. (CHOOSE x \in {m} : TRUE) = m
  BY Zenon
<1>2. Coming = <<m>> \o queue
  BY <1>1 DEF Coming
<1> QED
  BY <1>2

\* A handler's event comes last.
LEMMA SendEffect ==
  ASSUME IInv, IInv', running, NEW type, NEW id, NEW body, tuiSend(type, id, body)
  PROVE  Sends(Msg(type, id, body)) /\ UNCHANGED <<entries, running>>
<1> DEFINE m == Msg(type, id, body)
<1>1. /\ queue \in Seq(Message) /\ queue' = Append(queue, m) /\ inbox' = inbox
      /\ queue' \in Seq(Message)
  BY DEF tuiSend, IInv, Types
<1>2. /\ Len(queue') = Len(queue) + 1 /\ queue'[Len(queue) + 1] = m
      /\ \A i \in 1 .. Len(queue) : queue'[i] = queue[i]
  BY <1>1
<1> HIDE DEF m
<1>3. ASSUME inbox = {} PROVE Sends(m)
  <2>1. Coming = queue /\ Coming' = queue'
    BY <1>1, <1>3 DEF Coming
  <2> QED
    BY <1>1, <1>2, <2>1 DEF Sends
<1>4. ASSUME NEW x, inbox = {x} PROVE Sends(m)
  <2>1. /\ Len(Coming) = Len(queue) + 1 /\ Coming[1] = x
        /\ \A i \in 1 .. Len(queue) : Coming[i + 1] = queue[i]
    BY <1>1, <1>4, OneComes
  <2>2. (CHOOSE y \in {x} : TRUE) = x
    BY Zenon
  <2>3. Coming' = <<x>> \o queue'
    BY <1>1, <1>4, <2>2 DEF Coming
  <2>4. /\ Len(Coming') = Len(queue') + 1 /\ Coming'[1] = x
        /\ \A i \in 1 .. Len(queue') : Coming'[i + 1] = queue'[i]
    BY <1>1, <2>3
  <2>5. ASSUME NEW i \in 1 .. Len(Coming) PROVE Coming'[i] = Coming[i]
    <3>1. CASE i = 1
      BY <2>1, <2>4, <3>1
    <3>2. CASE i # 1
      <4>1. i - 1 \in 1 .. Len(queue) /\ (i - 1) + 1 = i
        BY <1>1, <2>1, <3>2
      <4>2. Coming[i] = queue[i - 1] /\ Coming'[i] = queue'[i - 1]
        BY <1>1, <1>2, <2>1, <2>4, <4>1
      <4> QED
        BY <1>2, <4>1, <4>2
    <3> QED
      BY <3>1, <3>2
  <2>6. Coming'[Len(Coming) + 1] = m
    BY <1>1, <1>2, <2>1, <2>4
  <2> QED
    BY <1>1, <1>2, <2>1, <2>4, <2>5, <2>6 DEF Sends
<1>5. Sends(m)
  BY <1>3, <1>4 DEF IInv, Listener, m
<1> QED
  BY <1>5 DEF m, tuiSend, model

\* Update is called with the first.
LEMMA ReceiveEffect ==
  ASSUME IInv, NEW m, NEW type, Receive(m, type), UNCHANGED queue
  PROVE  Takes(m)
<1>1. inbox = {m} /\ inbox' = {} /\ queue' = queue /\ queue \in Seq(Message)
  BY DEF IInv, Types, Listener, Receive
<1>2. Coming' = queue
  BY <1>1 DEF Coming
<1>3. /\ Len(Coming) = Len(queue) + 1 /\ Coming[1] = m
      /\ \A i \in 1 .. Len(queue) : Coming[i + 1] = queue[i]
  BY <1>1, OneComes
<1> QED
  BY <1>1, <1>2, <1>3 DEF Takes

\* The listener changes the order of nothing.
LEMMA PopEffect == ASSUME IInv, Pop PROVE Coming' = Coming
<1>1. inbox = {} /\ inbox' = {Head(queue)} /\ queue' = Tail(queue) /\ queue # <<>>
      /\ queue \in Seq(Message)
  BY DEF IInv, Types, Listener, Pop
<1>2. (CHOOSE y \in {Head(queue)} : TRUE) = Head(queue)
  BY Zenon
<1>3. Coming' = <<Head(queue)>> \o Tail(queue) /\ Coming = queue
  BY <1>1, <1>2 DEF Coming
<1>4. <<Head(queue)>> \o Tail(queue) = queue
  BY <1>1, HeadTailProperties, ConcatProperties
<1> QED
  BY <1>3, <1>4

-----------------------------------------------------------------------------
(* What the entries and the events on their way hold of an exchange *)

Rows      == 1 .. Len(entries)
Listed(e) == \E i \in Rows : entries[i].id = e

\* One entry of an exchange.
Unique == \A i, j \in Rows : entries[i].id = entries[j].id => i = j

\* An exchange that has been logged is listed, or will be before anything else
\* of it is seen.
Known(e) ==
  /\ pc[e] = "idle" => ~Listed(e) /\ \A i \in 1 .. Len(Coming) : Coming[i].id # e
  /\ pc[e] # "idle" => Listed(e) \/ Sent("tuiReqMsg", e)
  /\ \A i \in 1 .. Len(Coming) : At(i, "tuiReqMsg", e) =>
       ~Listed(e) /\ \A j \in 1 .. Len(Coming) : Coming[j].id = e => i <= j

\* Nothing is shown or on its way that has not happened.
Truthful(e) ==
  /\ reqText[e] # "none" => pc[e] # "idle"
  /\ respText[e] => pc[e] = "over"
  /\ \A i \in 1 .. Len(Coming) :
       /\ At(i, "tuiReqBodyMsg", e) => Coming[i].body /\ reqText[e] = "sent"
       /\ At(i, "tuiRespMsg", e) => ~Coming[i].body
       /\ At(i, "tuiRespBodyMsg", e) => /\ Coming[i].body = respText[e]
                                        /\ pc[e] \in {"head", "over"}
  /\ \A i \in Rows : entries[i].id = e => /\ entries[i].reqBody => reqText[e] = "sent"
                                          /\ entries[i].respBody => respText[e]

\* What has happened is shown or on its way.
ReqBodyComes(e) ==
  reqText[e] = "sent" => \/ Sent("tuiReqBodyMsg", e)
                         \/ \E i \in Rows : entries[i].id = e /\ entries[i].reqBody

RespComes(e) ==
  pc[e] \in {"copy", "over"} => \/ Sent("tuiRespMsg", e)
                                \/ \E i \in Rows : entries[i].id = e /\ ~entries[i].pending

\* The body is shown and no head is on its way to take its place, or it is on
\* its way behind every head.
RespBodyComes(e) ==
  respText[e] => \/ /\ ~Sent("tuiRespMsg", e)
                    /\ \E i \in Rows : entries[i].id = e /\ entries[i].respBody
                 \/ \E k \in 1 .. Len(Coming) :
                      /\ At(k, "tuiRespBodyMsg", e)
                      /\ \A j \in 1 .. Len(Coming) : At(j, "tuiRespMsg", e) => j < k

View(e) == Known(e) /\ Truthful(e) /\ ReqBodyComes(e) /\ RespComes(e) /\ RespBodyComes(e)

ViewInv == running => Unique /\ \A e \in Exchanges : View(e)

\* What is seen first of an exchange, or after that, finds it listed.
LEMMA FirstIsListed ==
  ASSUME NEW e, Known(e), Len(Coming) \in Nat, Coming # <<>>, Len(Coming) > 0,
         Coming[1].id = e, Coming[1].type # "tuiReqMsg"
  PROVE  Listed(e)
<1>1. pc[e] # "idle"
  BY DEF Known
<1>2. ASSUME NEW i \in 1 .. Len(Coming), At(i, "tuiReqMsg", e) PROVE FALSE
  <2>1. i <= 1
    BY <1>2 DEF Known
  <2> QED
    BY <1>2, <2>1 DEF At
<1> QED
  BY <1>1, <1>2 DEF Known, Sent

-----------------------------------------------------------------------------
(* The effect of Update on the entries *)

\* The entries as an event about exchange e with a body b leaves them, when it is
\* not the first of the exchange.
InPlaceEffect(type, e, b) ==
  /\ Len(entries) \in Nat /\ Len(entries') = Len(entries)
  /\ \A i \in Rows :
       /\ entries'[i].id = entries[i].id
       /\ entries[i].id # e => entries'[i] = entries[i]
       /\ entries[i].id = e =>
            /\ entries'[i].pending = IF type = "tuiRespMsg" THEN FALSE ELSE entries[i].pending
            /\ entries'[i].reqBody = IF type = "tuiReqBodyMsg" THEN b ELSE entries[i].reqBody
            /\ entries'[i].respBody = IF type \in {"tuiRespMsg", "tuiRespBodyMsg"}
                                        THEN b ELSE entries[i].respBody

LEMMA InPlaceChanges ==
  ASSUME IInv, NEW m, UpdateResp(m) \/ UpdateReqBody(m) \/ UpdateRespBody(m)
  PROVE  /\ InPlaceEffect(m.type, m.id, m.body) /\ Takes(m)
         /\ m.type \in {"tuiRespMsg", "tuiReqBodyMsg", "tuiRespBodyMsg"}
         /\ m.id \in Exchanges
         /\ UNCHANGED <<pc, reqText, respText, running>>
<1>1. /\ m.type \in {"tuiRespMsg", "tuiReqBodyMsg", "tuiRespBodyMsg"}
      /\ Receive(m, m.type) /\ UNCHANGED queue
      /\ UNCHANGED <<pc, reqText, respText, running>>
  BY DEF UpdateResp, UpdateReqBody, UpdateRespBody, InPlace, Receive, proxy
<1>2. m \in [type : MsgTypes, id : Exchanges, body : BOOLEAN]
  BY <1>1 DEF Receive, IInv, Types, Message, Msg
<1>3. m.id \in Exchanges
  BY <1>2
<1>4. Len(entries) \in Nat /\ \A i \in Rows : entries[i] \in Entry
  BY DEF IInv, Types, Rows
<1>5. CASE UpdateResp(m)
  <2>1. entries' = [i \in Rows |->
                      IF entries[i].id = m.id
                        THEN [entries[i] EXCEPT !.pending = FALSE, !.respBody = m.body]
                        ELSE entries[i]]
    BY <1>5 DEF UpdateResp, InPlace, Updated, Rows
  <2>2. ASSUME NEW x \in Entry, NEW y, y = [x EXCEPT !.pending = FALSE, !.respBody = m.body]
        PROVE  /\ y.id = x.id /\ y.pending = FALSE /\ y.reqBody = x.reqBody
               /\ y.respBody = m.body
    BY <2>2 DEF Entry
  <2>3. entries' = [i \in Rows |-> entries'[i]]
    BY <2>1
  <2>4. Len(entries') = Len(entries)
    BY <1>4, <2>3 DEF Rows
  <2>5. m.type = "tuiRespMsg"
    BY <1>5 DEF UpdateResp, InPlace, Receive
  <2>6. ASSUME NEW i \in Rows, entries[i].id = m.id
        PROVE  /\ entries'[i].id = entries[i].id /\ entries'[i].pending = FALSE
               /\ entries'[i].reqBody = entries[i].reqBody /\ entries'[i].respBody = m.body
    BY <1>4, <2>1, <2>2, <2>6
  <2>7. ASSUME NEW i \in Rows, entries[i].id # m.id PROVE entries'[i] = entries[i]
    BY <2>1, <2>7
  <2>8. \A i \in Rows : entries'[i].id = entries[i].id
    BY <2>6, <2>7
  <2>9. InPlaceEffect(m.type, m.id, m.body)
    BY <1>4, <2>4, <2>5, <2>6, <2>7, <2>8 DEF InPlaceEffect
  <2> QED
    BY <1>1, <1>3, <2>9, ReceiveEffect
<1>6. CASE UpdateReqBody(m)
  <2>1. entries' = [i \in Rows |-> IF entries[i].id = m.id
                                   THEN [entries[i] EXCEPT !.reqBody = m.body] ELSE entries[i]]
    BY <1>6 DEF UpdateReqBody, InPlace, Updated, Rows
  <2>2. ASSUME NEW x \in Entry, NEW y, y = [x EXCEPT !.reqBody = m.body]
        PROVE  /\ y.id = x.id /\ y.pending = x.pending /\ y.reqBody = m.body
               /\ y.respBody = x.respBody
    BY <2>2 DEF Entry
  <2>3. entries' = [i \in Rows |-> entries'[i]]
    BY <2>1
  <2>4. Len(entries') = Len(entries)
    BY <1>4, <2>3 DEF Rows
  <2>5. m.type = "tuiReqBodyMsg"
    BY <1>6 DEF UpdateReqBody, InPlace, Receive
  <2>6. ASSUME NEW i \in Rows, entries[i].id = m.id
        PROVE  /\ entries'[i].id = entries[i].id /\ entries'[i].pending = entries[i].pending
               /\ entries'[i].reqBody = m.body /\ entries'[i].respBody = entries[i].respBody
    BY <1>4, <2>1, <2>2, <2>6
  <2>7. ASSUME NEW i \in Rows, entries[i].id # m.id PROVE entries'[i] = entries[i]
    BY <2>1, <2>7
  <2>8. \A i \in Rows : entries'[i].id = entries[i].id
    BY <2>6, <2>7
  <2>9. InPlaceEffect(m.type, m.id, m.body)
    BY <1>4, <2>4, <2>5, <2>6, <2>7, <2>8 DEF InPlaceEffect
  <2> QED
    BY <1>1, <1>3, <2>9, ReceiveEffect
<1>7. CASE UpdateRespBody(m)
  <2>1. entries' = [i \in Rows |-> IF entries[i].id = m.id
                                   THEN [entries[i] EXCEPT !.respBody = m.body] ELSE entries[i]]
    BY <1>7 DEF UpdateRespBody, InPlace, Updated, Rows
  <2>2. ASSUME NEW x \in Entry, NEW y, y = [x EXCEPT !.respBody = m.body]
        PROVE  /\ y.id = x.id /\ y.pending = x.pending /\ y.reqBody = x.reqBody
               /\ y.respBody = m.body
    BY <2>2 DEF Entry
  <2>3. entries' = [i \in Rows |-> entries'[i]]
    BY <2>1
  <2>4. Len(entries') = Len(entries)
    BY <1>4, <2>3 DEF Rows
  <2>5. m.type = "tuiRespBodyMsg"
    BY <1>7 DEF UpdateRespBody, InPlace, Receive
  <2>6. ASSUME NEW i \in Rows, entries[i].id = m.id
        PROVE  /\ entries'[i].id = entries[i].id /\ entries'[i].pending = entries[i].pending
               /\ entries'[i].reqBody = entries[i].reqBody /\ entries'[i].respBody = m.body
    BY <1>4, <2>1, <2>2, <2>6
  <2>7. ASSUME NEW i \in Rows, entries[i].id # m.id PROVE entries'[i] = entries[i]
    BY <2>1, <2>7
  <2>8. \A i \in Rows : entries'[i].id = entries[i].id
    BY <2>6, <2>7
  <2>9. InPlaceEffect(m.type, m.id, m.body)
    BY <1>4, <2>4, <2>5, <2>6, <2>7, <2>8 DEF InPlaceEffect
  <2> QED
    BY <1>1, <1>3, <2>9, ReceiveEffect
<1> QED
  BY <1>5, <1>6, <1>7

\* The first event of an exchange adds its entry behind the others.
AppendEffect(e) ==
  /\ Len(entries) \in Nat /\ Len(entries') = Len(entries) + 1
  /\ \A i \in Rows : entries'[i] = entries[i]
  /\ entries'[Len(entries) + 1] = [Blank EXCEPT !.id = e]

LEMMA ReqChanges ==
  ASSUME IInv, NEW m, UpdateReq(m)
  PROVE  /\ AppendEffect(m.id) /\ Takes(m) /\ m.type = "tuiReqMsg" /\ m.id \in Exchanges
         /\ UNCHANGED <<pc, reqText, respText, running>>
<1>1. /\ m.type = "tuiReqMsg" /\ Receive(m, m.type) /\ UNCHANGED queue
      /\ entries' = Append(entries, [Blank EXCEPT !.id = m.id])
      /\ UNCHANGED <<pc, reqText, respText, running>>
  BY DEF UpdateReq, Receive, proxy
<1>2. m \in [type : MsgTypes, id : Exchanges, body : BOOLEAN]
  BY <1>1 DEF Receive, IInv, Types, Message, Msg
<1>3. m.id \in Exchanges
  BY <1>2
<1>4. AppendEffect(m.id)
  BY <1>1 DEF AppendEffect, Rows, IInv, Types
<1> QED
  BY <1>1, <1>3, <1>4, ReceiveEffect

-----------------------------------------------------------------------------
(* What a step does to what is on its way *)

LEMMA TakesAt ==
  ASSUME NEW m, Takes(m), NEW t, NEW e
  PROVE  /\ \A i \in 1 .. Len(Coming') : At(i, t, e)' => At(i + 1, t, e)
         /\ \A i \in 1 .. Len(Coming) :
              At(i, t, e) => (i = 1 /\ m.type = t /\ m.id = e) \/ At(i - 1, t, e)'
         /\ Sent(t, e)' => Sent(t, e)
         /\ Sent(t, e) => Sent(t, e)' \/ (m.type = t /\ m.id = e)
<1>1. ASSUME NEW i \in 1 .. Len(Coming'), At(i, t, e)'
      PROVE  i + 1 \in 1 .. Len(Coming) /\ At(i + 1, t, e)
  BY <1>1 DEF Takes, At
<1>2. ASSUME NEW i \in 1 .. Len(Coming), At(i, t, e), ~(m.type = t /\ m.id = e /\ i = 1)
      PROVE  i - 1 \in 1 .. Len(Coming') /\ At(i - 1, t, e)'
  <2>1. i # 1
    BY <1>2 DEF Takes, At
  <2>2. i - 1 \in 1 .. Len(Coming') /\ (i - 1) + 1 = i
    BY <2>1 DEF Takes
  <2>3. Coming'[i - 1] = Coming[i]
    BY <2>2 DEF Takes
  <2> QED
    BY <1>2, <2>2, <2>3 DEF At
<1>3. Sent(t, e)' => Sent(t, e)
  BY <1>1 DEF Sent
<1>4. Sent(t, e) => Sent(t, e)' \/ (m.type = t /\ m.id = e)
  BY <1>2 DEF Sent
<1> QED
  BY <1>1, <1>2, <1>3, <1>4

LEMMA SendsAt ==
  ASSUME NEW m, Sends(m), NEW t, NEW e
  PROVE  /\ \A i \in 1 .. Len(Coming) : At(i, t, e) => At(i, t, e)'
         /\ \A i \in 1 .. Len(Coming') : At(i, t, e)' =>
              \/ At(i, t, e)
              \/ i = Len(Coming) + 1 /\ m.type = t /\ m.id = e
         /\ \A k \in Nat : (k = Len(Coming) + 1 /\ m.type = t /\ m.id = e) => At(k, t, e)'
         /\ Sent(t, e) => Sent(t, e)'
         /\ (m.type = t /\ m.id = e) => Sent(t, e)'
         /\ Sent(t, e)' => Sent(t, e) \/ (m.type = t /\ m.id = e)
<1>1. ASSUME NEW i \in 1 .. Len(Coming), At(i, t, e)
      PROVE  i \in 1 .. Len(Coming') /\ At(i, t, e)'
  BY <1>1 DEF Sends, At
<1>2. ASSUME NEW i \in 1 .. Len(Coming'), At(i, t, e)', ~At(i, t, e)
      PROVE  i = Len(Coming) + 1 /\ m.type = t /\ m.id = e
  BY <1>2 DEF Sends, At
<1>3. ASSUME m.type = t, m.id = e
      PROVE  /\ \A k \in Nat : k = Len(Coming) + 1 => At(k, t, e)'
             /\ Sent(t, e)'
  <2>1. PICK k \in Nat : k = Len(Coming) + 1
    BY DEF Sends
  <2>2. k \in 1 .. Len(Coming') /\ Coming'[k] = m
    BY <2>1 DEF Sends
  <2>3. At(k, t, e)'
    BY <1>3, <2>2 DEF At
  <2>4. \A l \in Nat : l = Len(Coming) + 1 => At(l, t, e)'
    BY <2>1, <2>3
  <2> QED
    BY <2>2, <2>3, <2>4 DEF Sent
<1>4. Sent(t, e) => Sent(t, e)'
  BY <1>1 DEF Sent
<1>5. Sent(t, e)' => Sent(t, e) \/ (m.type = t /\ m.id = e)
  <2> SUFFICES ASSUME NEW i \in 1 .. Len(Coming'), At(i, t, e)', ~(m.type = t /\ m.id = e)
               PROVE  Sent(t, e)
    BY DEF Sent
  <2>1. At(i, t, e)
    BY <1>2
  <2> QED
    BY <2>1 DEF Sent, At
<1> QED
  BY <1>1, <1>2, <1>3, <1>4, <1>5

-----------------------------------------------------------------------------
(* An event of another exchange, or of none *)

Still(e) == pc'[e] = pc[e] /\ reqText'[e] = reqText[e] /\ respText'[e] = respText[e]

LEMMA OtherSent ==
  ASSUME NEW m, NEW e, Sends(m), m.id # e, Still(e), UNCHANGED entries, View(e)
  PROVE  View(e)'
<1>1. Listed(e)' = Listed(e) /\ Rows' = Rows
  BY DEF Listed, Rows
<1>2. ASSUME NEW t
      PROVE  /\ \A i \in 1 .. Len(Coming') : At(i, t, e)' => i \in 1 .. Len(Coming) /\ At(i, t, e)
             /\ \A i \in 1 .. Len(Coming) : At(i, t, e) => i \in 1 .. Len(Coming') /\ At(i, t, e)'
             /\ Sent(t, e)' => Sent(t, e)
             /\ Sent(t, e) => Sent(t, e)'
  <2>1. /\ \A i \in 1 .. Len(Coming') : At(i, t, e)' => At(i, t, e)
        /\ \A i \in 1 .. Len(Coming) : At(i, t, e) => At(i, t, e)'
        /\ Sent(t, e)' => Sent(t, e)
        /\ Sent(t, e) => Sent(t, e)'
    BY SendsAt
  <2>2. /\ \A i : At(i, t, e) => i \in 1 .. Len(Coming)
        /\ \A i : At(i, t, e)' => i \in 1 .. Len(Coming')
    BY DEF At
  <2> QED
    BY <2>1, <2>2
<1>3. /\ \A i \in 1 .. Len(Coming) : Coming'[i] = Coming[i] /\ i \in 1 .. Len(Coming')
      /\ \A i \in 1 .. Len(Coming') :
           Coming'[i].id = e => i \in 1 .. Len(Coming) /\ Coming[i].id = e
  BY DEF Sends
<1>4. Known(e)'
  BY <1>1, <1>2, <1>3 DEF View, Known, Still
<1>5. Truthful(e)'
  <2>1. /\ reqText'[e] # "none" => pc'[e] # "idle"
        /\ respText'[e] => pc'[e] = "over"
    BY DEF View, Truthful, Still
  <2>2. ASSUME NEW i \in 1 .. Len(Coming')
        PROVE  /\ At(i, "tuiReqBodyMsg", e)' => Coming'[i].body /\ reqText'[e] = "sent"
               /\ At(i, "tuiRespMsg", e)' => ~Coming'[i].body
               /\ At(i, "tuiRespBodyMsg", e)' => /\ Coming'[i].body = respText'[e]
                                                 /\ pc'[e] \in {"head", "over"}
    BY <1>2, <1>3 DEF View, Truthful, Still
  <2> QED
    BY <1>1, <2>1, <2>2 DEF View, Truthful, Still
<1>6. ReqBodyComes(e)' /\ RespComes(e)'
  BY <1>1, <1>2 DEF View, ReqBodyComes, RespComes, Still
<1>7. RespBodyComes(e)'
  BY <1>1, <1>2 DEF View, RespBodyComes, Still
<1> QED
  BY <1>4, <1>5, <1>6, <1>7 DEF View

\* An event of another exchange is seen, or of none.
LEMMA OtherTaken ==
  ASSUME NEW m, NEW e, Takes(m), m.id # e, Still(e), View(e), Len(entries) \in Nat,
         Len(entries') \in Nat,
         \A i \in Rows : i \in Rows' /\ (entries[i].id = e => entries'[i] = entries[i]),
         \A i \in Rows' : entries'[i].id = e => i \in Rows /\ entries'[i] = entries[i]
  PROVE  View(e)'
<1>1. Listed(e)' => Listed(e)
  BY DEF Listed
<1>2. Listed(e) => Listed(e)'
  BY DEF Listed
<1>3. ASSUME NEW t
      PROVE  /\ \A i \in 1 .. Len(Coming') : At(i, t, e)' => At(i + 1, t, e)
             /\ \A i \in 1 .. Len(Coming) : At(i, t, e) => At(i - 1, t, e)'
             /\ Sent(t, e)' => Sent(t, e)
             /\ Sent(t, e) => Sent(t, e)'
  BY TakesAt
<1>4. /\ \A i \in 1 .. Len(Coming') : i + 1 \in 1 .. Len(Coming) /\ Coming'[i] = Coming[i + 1]
      /\ Len(Coming') \in Nat
  BY DEF Takes
<1>5. Known(e)'
  <2>1. pc'[e] = "idle" => ~Listed(e)' /\ \A i \in 1 .. Len(Coming') : Coming'[i].id # e
    BY <1>1, <1>4 DEF View, Known, Still
  <2>2. pc'[e] # "idle" => Listed(e)' \/ Sent("tuiReqMsg", e)'
    BY <1>2, <1>3 DEF View, Known, Still
  <2>3. ASSUME NEW i \in 1 .. Len(Coming'), At(i, "tuiReqMsg", e)'
        PROVE  ~Listed(e)' /\ \A j \in 1 .. Len(Coming') : Coming'[j].id = e => i <= j
    <3>1. At(i + 1, "tuiReqMsg", e)
      BY <1>3, <2>3
    <3>2. ~Listed(e) /\ \A j \in 1 .. Len(Coming) : Coming[j].id = e => i + 1 <= j
      BY <1>4, <3>1 DEF View, Known
    <3>3. ASSUME NEW j \in 1 .. Len(Coming'), Coming'[j].id = e PROVE i <= j
      <4>1. i + 1 <= j + 1
        BY <1>4, <3>2, <3>3
      <4> QED
        BY <1>4, <4>1
    <3> QED
      BY <1>1, <3>2, <3>3
  <2> QED
    BY <2>1, <2>2, <2>3 DEF Known
<1>6. Truthful(e)'
  <2>1. /\ reqText'[e] # "none" => pc'[e] # "idle"
        /\ respText'[e] => pc'[e] = "over"
    BY DEF View, Truthful, Still
  <2>2. ASSUME NEW i \in 1 .. Len(Coming')
        PROVE  /\ At(i, "tuiReqBodyMsg", e)' => Coming'[i].body /\ reqText'[e] = "sent"
               /\ At(i, "tuiRespMsg", e)' => ~Coming'[i].body
               /\ At(i, "tuiRespBodyMsg", e)' => /\ Coming'[i].body = respText'[e]
                                                 /\ pc'[e] \in {"head", "over"}
    BY <1>3, <1>4 DEF View, Truthful, Still
  <2>3. ASSUME NEW i \in Rows', entries'[i].id = e
        PROVE  /\ entries'[i].reqBody => reqText'[e] = "sent"
               /\ entries'[i].respBody => respText'[e]
    BY <2>3 DEF View, Truthful, Still
  <2> QED
    BY <2>1, <2>2, <2>3 DEF Truthful
<1>7. ReqBodyComes(e)'
  BY <1>3 DEF View, ReqBodyComes, Still
<1>8. RespComes(e)'
  BY <1>3 DEF View, RespComes, Still
<1>9. RespBodyComes(e)'
  <2> SUFFICES ASSUME respText[e] PROVE RespBodyComes(e)'
    BY DEF RespBodyComes, Still
  <2>1. CASE /\ ~Sent("tuiRespMsg", e)
             /\ \E i \in Rows : entries[i].id = e /\ entries[i].respBody
    BY <1>3, <2>1 DEF RespBodyComes
  <2>2. ASSUME NEW k \in 1 .. Len(Coming), At(k, "tuiRespBodyMsg", e),
               \A j \in 1 .. Len(Coming) : At(j, "tuiRespMsg", e) => j < k
        PROVE  RespBodyComes(e)'
    <3>1. k - 1 \in 1 .. Len(Coming') /\ At(k - 1, "tuiRespBodyMsg", e)'
      BY <1>3, <2>2 DEF At
    <3>2. ASSUME NEW j \in 1 .. Len(Coming'), At(j, "tuiRespMsg", e)' PROVE j < k - 1
      <4>1. j + 1 < k
        BY <1>3, <1>4, <2>2, <3>2
      <4> QED
        BY <1>4, <4>1
    <3> QED
      BY <3>1, <3>2 DEF RespBodyComes
  <2> QED
    BY <2>1, <2>2 DEF View, RespBodyComes
<1> QED
  BY <1>5, <1>6, <1>7, <1>8, <1>9 DEF View

-----------------------------------------------------------------------------
(* An event is seen *)

\* The entry of an exchange that has been listed.
LEMMA InPlaceTaken ==
  ASSUME NEW m, NEW e, Takes(m), m.id = e, InPlaceEffect(m.type, e, m.body), Still(e),
         m.type \in {"tuiRespMsg", "tuiReqBodyMsg", "tuiRespBodyMsg"}, Unique, View(e)
  PROVE  View(e)'
<1>1. /\ Len(Coming) \in Nat /\ Len(Coming') \in Nat /\ Len(Coming) > 0 /\ Coming[1] = m
      /\ \A i \in 1 .. Len(Coming') : i + 1 \in 1 .. Len(Coming) /\ Coming'[i] = Coming[i + 1]
  BY DEF Takes
<1>2. At(1, m.type, e)
  BY <1>1 DEF At
<1>3. Listed(e)
  BY <1>1, FirstIsListed DEF View
<1>4. PICK row \in Rows : entries[row].id = e
  BY <1>3 DEF Listed
<1>5. /\ Rows' = Rows /\ row \in Rows' /\ entries'[row].id = e
      /\ \A i \in Rows : entries[i].id = e => i = row
      /\ \A i \in Rows : entries'[i].id = e => i = row
  BY <1>4 DEF InPlaceEffect, Rows, Unique
<1>6. /\ entries'[row].pending = IF m.type = "tuiRespMsg" THEN FALSE ELSE entries[row].pending
      /\ entries'[row].reqBody = IF m.type = "tuiReqBodyMsg" THEN m.body ELSE entries[row].reqBody
      /\ entries'[row].respBody = IF m.type \in {"tuiRespMsg", "tuiRespBodyMsg"}
                                    THEN m.body ELSE entries[row].respBody
  BY <1>4 DEF InPlaceEffect
<1>7. ASSUME NEW t
      PROVE  /\ \A i \in 1 .. Len(Coming') : At(i, t, e)' => At(i + 1, t, e)
             /\ Sent(t, e)' => Sent(t, e)
             /\ Sent(t, e) => Sent(t, e)' \/ m.type = t
  BY TakesAt
<1>8. /\ m.type = "tuiReqBodyMsg" => m.body /\ reqText[e] = "sent"
      /\ m.type = "tuiRespMsg" => ~m.body
      /\ m.type = "tuiRespBodyMsg" => m.body = respText[e] /\ pc[e] \in {"head", "over"}
  BY <1>1, <1>2 DEF View, Truthful
<1>9. Listed(e)'
  BY <1>5 DEF Listed
<1>10. Known(e)'
  <2>1. pc'[e] # "idle"
    BY <1>3 DEF View, Known, Still
  <2>2. ASSUME NEW i \in 1 .. Len(Coming'), At(i, "tuiReqMsg", e)' PROVE FALSE
    BY <1>1, <1>3, <1>7, <2>2 DEF View, Known
  <2> QED
    BY <1>9, <2>1, <2>2 DEF Known
<1>11. Truthful(e)'
  <2>1. /\ reqText'[e] # "none" => pc'[e] # "idle"
        /\ respText'[e] => pc'[e] = "over"
    BY DEF View, Truthful, Still
  <2>2. ASSUME NEW i \in 1 .. Len(Coming')
        PROVE  /\ At(i, "tuiReqBodyMsg", e)' => Coming'[i].body /\ reqText'[e] = "sent"
               /\ At(i, "tuiRespMsg", e)' => ~Coming'[i].body
               /\ At(i, "tuiRespBodyMsg", e)' => /\ Coming'[i].body = respText'[e]
                                                 /\ pc'[e] \in {"head", "over"}
    BY <1>1, <1>7 DEF View, Truthful, Still
  <2>3. /\ entries[row].reqBody => reqText[e] = "sent"
        /\ entries[row].respBody => respText[e]
    BY <1>4 DEF View, Truthful
  <2>4. /\ entries'[row].reqBody => reqText'[e] = "sent"
        /\ entries'[row].respBody => respText'[e]
    BY <1>6, <1>8, <2>3 DEF Still
  <2> QED
    BY <1>5, <2>1, <2>2, <2>4 DEF Truthful
<1>12. ReqBodyComes(e)'
  <2> SUFFICES ASSUME reqText[e] = "sent", ~Sent("tuiReqBodyMsg", e)'
               PROVE  entries'[row].reqBody
    BY <1>5 DEF ReqBodyComes, Still
  <2>1. CASE m.type = "tuiReqBodyMsg"
    BY <1>6, <1>8, <2>1
  <2>2. CASE m.type # "tuiReqBodyMsg"
    <3>1. entries[row].reqBody
      BY <1>5, <1>7, <2>2 DEF View, ReqBodyComes
    <3> QED
      BY <1>6, <2>2, <3>1
  <2> QED
    BY <2>1, <2>2
<1>13. RespComes(e)'
  <2> SUFFICES ASSUME pc[e] \in {"copy", "over"}, ~Sent("tuiRespMsg", e)'
               PROVE  ~entries'[row].pending
    BY <1>5 DEF RespComes, Still
  <2>1. CASE m.type = "tuiRespMsg"
    BY <1>6, <2>1
  <2>2. CASE m.type # "tuiRespMsg"
    <3>1. ~entries[row].pending
      BY <1>5, <1>7, <2>2 DEF View, RespComes
    <3> QED
      BY <1>6, <2>2, <3>1
  <2> QED
    BY <2>1, <2>2
<1>14. RespBodyComes(e)'
  <2> SUFFICES ASSUME respText[e] PROVE RespBodyComes(e)'
    BY DEF RespBodyComes, Still
  <2>1. CASE ~Sent("tuiRespMsg", e) /\ entries[row].respBody
    <3>1. m.type # "tuiRespMsg"
      BY <1>1, <1>2, <2>1 DEF Sent
    <3>2. entries'[row].respBody
      BY <1>6, <1>8, <2>1, <3>1
    <3> QED
      BY <1>5, <1>7, <2>1, <3>2 DEF RespBodyComes
  <2>2. ASSUME NEW k \in 1 .. Len(Coming), At(k, "tuiRespBodyMsg", e),
               \A j \in 1 .. Len(Coming) : At(j, "tuiRespMsg", e) => j < k
        PROVE  RespBodyComes(e)'
    <3>1. CASE k = 1
      <4>1. m.type = "tuiRespBodyMsg"
        BY <1>1, <2>2, <3>1 DEF At
      <4>2. ASSUME NEW j \in 1 .. Len(Coming'), At(j, "tuiRespMsg", e)' PROVE FALSE
        <5>1. j + 1 < k
          BY <1>1, <1>7, <2>2, <4>2
        <5> QED
          BY <1>1, <3>1, <5>1
      <4>3. ~Sent("tuiRespMsg", e)'
        BY <4>2 DEF Sent
      <4>4. entries'[row].respBody
        BY <1>6, <1>8, <4>1
      <4> QED
        BY <1>5, <4>3, <4>4 DEF RespBodyComes
    <3>2. CASE k # 1
      <4>1. k - 1 \in 1 .. Len(Coming') /\ At(k - 1, "tuiRespBodyMsg", e)'
        <5>1. k - 1 \in 1 .. Len(Coming') /\ (k - 1) + 1 = k
          BY <1>1, <3>2 DEF Takes
        <5>2. Coming'[k - 1] = Coming[k]
          BY <1>1, <5>1
        <5> QED
          BY <2>2, <5>1, <5>2 DEF At
      <4>2. ASSUME NEW j \in 1 .. Len(Coming'), At(j, "tuiRespMsg", e)' PROVE j < k - 1
        <5>1. j + 1 < k
          BY <1>1, <1>7, <2>2, <4>2
        <5> QED
          BY <1>1, <5>1
      <4> QED
        BY <4>1, <4>2 DEF RespBodyComes
    <3> QED
      BY <3>1, <3>2
  <2> QED
    BY <1>5, <2>1, <2>2 DEF View, RespBodyComes
<1> QED
  BY <1>10, <1>11, <1>12, <1>13, <1>14 DEF View

\* A new entry, for an exchange that has none.
LEMMA ReqTaken ==
  ASSUME NEW m, NEW e \in Exchanges, Takes(m), m.id = e, m.type = "tuiReqMsg", AppendEffect(e),
         Still(e), Unique, View(e)
  PROVE  View(e)' /\ Unique'
<1>1. /\ Len(Coming) \in Nat /\ Len(Coming') \in Nat /\ Len(Coming) > 0 /\ Coming[1] = m
      /\ \A i \in 1 .. Len(Coming') : i + 1 \in 1 .. Len(Coming) /\ Coming'[i] = Coming[i + 1]
  BY DEF Takes
<1>2. At(1, "tuiReqMsg", e)
  BY <1>1 DEF At
<1>3. ~Listed(e)
  BY <1>1, <1>2 DEF View, Known
<1>4. PICK row \in Nat : row = Len(entries) + 1
  BY DEF AppendEffect
<1>5. /\ Rows' = Rows \cup {row} /\ row \notin Rows
      /\ \A i \in Rows : entries'[i] = entries[i] /\ entries[i].id # e
      /\ entries'[row] = [Blank EXCEPT !.id = e]
  BY <1>3, <1>4 DEF AppendEffect, Rows, Listed
<1>6. /\ entries'[row].id = e /\ entries'[row].pending
      /\ ~entries'[row].reqBody /\ ~entries'[row].respBody
  BY <1>5 DEF Blank
<1>7. ASSUME NEW t
      PROVE  /\ \A i \in 1 .. Len(Coming') : At(i, t, e)' => At(i + 1, t, e)
             /\ Sent(t, e)' => Sent(t, e)
             /\ t # "tuiReqMsg" => (Sent(t, e) => Sent(t, e)')
  BY TakesAt
<1>8. Unique'
  <2> SUFFICES ASSUME NEW i \in Rows', NEW j \in Rows', entries'[i].id = entries'[j].id
               PROVE  i = j
    BY DEF Unique
  <2>1. CASE i \in Rows /\ j \in Rows
    <3>1. entries[i].id = entries[j].id
      BY <1>5, <2>1
    <3> QED
      BY <2>1, <3>1 DEF Unique
  <2>2. CASE i = row \/ j = row
    BY <1>5, <1>6, <2>2
  <2> QED
    BY <1>5, <2>1, <2>2
<1>9. Listed(e)'
  BY <1>5, <1>6 DEF Listed
<1>10. Known(e)'
  <2>1. pc'[e] # "idle"
    BY <1>1, <1>2 DEF View, Known, Still
  <2>2. ASSUME NEW i \in 1 .. Len(Coming'), At(i, "tuiReqMsg", e)' PROVE FALSE
    <3>1. At(i + 1, "tuiReqMsg", e)
      BY <1>7, <2>2
    <3>2. i + 1 <= 1
      BY <1>1, <3>1 DEF View, Known
    <3> QED
      BY <3>2
  <2> QED
    BY <1>9, <2>1, <2>2 DEF Known
<1>11. Truthful(e)'
  <2>1. /\ reqText'[e] # "none" => pc'[e] # "idle"
        /\ respText'[e] => pc'[e] = "over"
    BY DEF View, Truthful, Still
  <2>2. ASSUME NEW i \in 1 .. Len(Coming')
        PROVE  /\ At(i, "tuiReqBodyMsg", e)' => Coming'[i].body /\ reqText'[e] = "sent"
               /\ At(i, "tuiRespMsg", e)' => ~Coming'[i].body
               /\ At(i, "tuiRespBodyMsg", e)' => /\ Coming'[i].body = respText'[e]
                                                 /\ pc'[e] \in {"head", "over"}
    BY <1>1, <1>7 DEF View, Truthful, Still
  <2> QED
    BY <1>5, <1>6, <2>1, <2>2 DEF Truthful
<1>12. ReqBodyComes(e)' /\ RespComes(e)'
  BY <1>5, <1>7 DEF View, ReqBodyComes, RespComes, Still
<1>13. RespBodyComes(e)'
  <2> SUFFICES ASSUME respText[e] PROVE RespBodyComes(e)'
    BY DEF RespBodyComes, Still
  <2>1. PICK k \in 1 .. Len(Coming) :
          /\ At(k, "tuiRespBodyMsg", e)
          /\ \A j \in 1 .. Len(Coming) : At(j, "tuiRespMsg", e) => j < k
    BY <1>5 DEF View, RespBodyComes
  <2>2. k # 1
    BY <1>1, <2>1 DEF At
  <2>3. k - 1 \in 1 .. Len(Coming') /\ At(k - 1, "tuiRespBodyMsg", e)'
    <3>1. k - 1 \in 1 .. Len(Coming') /\ (k - 1) + 1 = k
      BY <1>1, <2>2 DEF Takes
    <3>2. Coming'[k - 1] = Coming[k]
      BY <1>1, <3>1
    <3> QED
      BY <2>1, <3>1, <3>2 DEF At
  <2>4. ASSUME NEW j \in 1 .. Len(Coming'), At(j, "tuiRespMsg", e)' PROVE j < k - 1
    <3>1. j + 1 < k
      BY <1>1, <1>7, <2>1, <2>4
    <3> QED
      BY <1>1, <3>1
  <2> QED
    BY <2>3, <2>4 DEF RespBodyComes
<1> QED
  BY <1>8, <1>10, <1>11, <1>12, <1>13 DEF View

\* The listener's messages reach every exchange of the view.
LEMMA UpdateView ==
  ASSUME IInv, IInv', ViewInv, running, Update
  PROVE  ViewInv'
<1>1. PICK m \in inbox : \/ UpdateReq(m) \/ UpdateResp(m) \/ UpdateReqBody(m)
                         \/ UpdateRespBody(m) \/ UpdateDone(m)
  BY DEF Update
<1>2. Unique /\ \A e \in Exchanges : View(e)
  BY DEF ViewInv
<1>3. Len(entries) \in Nat /\ Len(entries') \in Nat
  BY DEF IInv, Types
<1>4. CASE UpdateResp(m) \/ UpdateReqBody(m) \/ UpdateRespBody(m)
  <2>1. /\ InPlaceEffect(m.type, m.id, m.body) /\ Takes(m)
        /\ m.type \in {"tuiRespMsg", "tuiReqBodyMsg", "tuiRespBodyMsg"}
        /\ UNCHANGED <<pc, reqText, respText, running>>
    BY <1>4, InPlaceChanges
  <2>2. Unique'
    BY <1>2, <2>1 DEF InPlaceEffect, Unique, Rows
  <2>3. ASSUME NEW e \in Exchanges PROVE View(e)'
    <3>1. Still(e)
      BY <2>1 DEF Still
    <3>2. CASE m.id = e
      BY <1>2, <2>1, <3>1, <3>2, InPlaceTaken
    <3>3. CASE m.id # e
      <4>1. /\ \A i \in Rows : i \in Rows' /\ (entries[i].id = e => entries'[i] = entries[i])
            /\ \A i \in Rows' : entries'[i].id = e => i \in Rows /\ entries'[i] = entries[i]
        BY <2>1, <3>3 DEF InPlaceEffect, Rows
      <4> QED
        BY <1>2, <1>3, <2>1, <3>1, <3>3, <4>1, OtherTaken
    <3> QED
      BY <3>2, <3>3
  <2> QED
    BY <2>2, <2>3 DEF ViewInv
<1>5. CASE UpdateReq(m)
  <2>1. /\ AppendEffect(m.id) /\ Takes(m) /\ m.type = "tuiReqMsg" /\ m.id \in Exchanges
        /\ UNCHANGED <<pc, reqText, respText, running>>
    BY <1>5, ReqChanges
  <2>2. Still(m.id)
    BY <2>1 DEF Still
  <2>3. Unique' /\ View(m.id)'
    BY <1>2, <2>1, <2>2, ReqTaken
  <2>4. ASSUME NEW e \in Exchanges, e # m.id PROVE View(e)'
    <3>1. Still(e)
      BY <2>1 DEF Still
    <3>2. entries'[Len(entries) + 1].id = m.id
      BY <2>1 DEF AppendEffect, Blank
    <3>3. /\ \A i \in Rows : i \in Rows' /\ (entries[i].id = e => entries'[i] = entries[i])
          /\ \A i \in Rows' : entries'[i].id = e => i \in Rows /\ entries'[i] = entries[i]
      <4>1. PICK row \in Nat : row = Len(entries) + 1
        BY <1>3
      <4>2. Rows' = Rows \cup {row} /\ \A i \in Rows : entries'[i] = entries[i]
        BY <2>1, <4>1 DEF AppendEffect, Rows
      <4>3. entries'[row].id = m.id
        BY <3>2, <4>1
      <4> QED
        BY <2>4, <4>2, <4>3
    <3> QED
      BY <1>2, <1>3, <2>1, <2>4, <3>1, <3>3, OtherTaken
  <2>5. \A e \in Exchanges : View(e)'
    <3> SUFFICES ASSUME NEW e \in Exchanges PROVE View(e)'
      OBVIOUS
    <3> QED
      BY <2>3, <2>4
  <2> QED
    BY <2>3, <2>5 DEF ViewInv
<1>6. CASE UpdateDone(m)
  <2>1. /\ UNCHANGED <<entries, queue, running, pc, reqText, respText>>
        /\ m.type = "tuiDoneMsg" /\ Receive(m, m.type)
    BY <1>6 DEF UpdateDone, Receive, proxy
  <2>2. Takes(m)
    BY <2>1, ReceiveEffect
  <2>3. m.id = NoExchange
    BY <2>1 DEF Receive, IInv, Types, Message, Msg, MsgTypes
  <2>4. ASSUME NEW e \in Exchanges PROVE View(e)'
    <3>1. Still(e) /\ m.id # e
      BY <2>1, <2>3, NoExchangeAssumption DEF Still
    <3>2. Rows' = Rows
      BY <2>1 DEF Rows
    <3> QED
      BY <1>2, <1>3, <2>1, <2>2, <3>1, <3>2, OtherTaken
  <2> QED
    BY <1>2, <2>1, <2>4 DEF ViewInv, Unique, Rows
<1> QED
  BY <1>1, <1>4, <1>5, <1>6

-----------------------------------------------------------------------------
(* An event is sent *)

\* A later event of exchange e agrees with what the handler knows, and no head is
\* sent behind a body that has a text.
Agrees(m, e) ==
  /\ m.type \in {"tuiRespMsg", "tuiReqBodyMsg", "tuiRespBodyMsg"}
  /\ pc[e] # "idle" /\ pc'[e] # "idle"
  /\ reqText'[e] = "sent" => reqText[e] = "sent" \/ m.type = "tuiReqBodyMsg"
  /\ reqText[e] = "sent" => reqText'[e] = "sent"
  /\ m.type = "tuiReqBodyMsg" => m.body /\ reqText'[e] = "sent"
  /\ m.type = "tuiRespMsg" => ~m.body
  /\ m.type = "tuiRespBodyMsg" => m.body = respText'[e] /\ pc'[e] \in {"head", "over"}
  /\ pc[e] \in {"head", "over"} => pc'[e] \in {"head", "over"} /\ respText'[e] = respText[e]
  /\ respText'[e] => /\ pc'[e] = "over"
                     /\ \/ m.type = "tuiRespBodyMsg"
                        \/ m.type # "tuiRespMsg" /\ respText[e]
  /\ pc'[e] \in {"copy", "over"} => pc[e] \in {"copy", "over"} \/ m.type = "tuiRespMsg"

LEMMA OwnSent ==
  ASSUME NEW m, NEW e, Sends(m), m.id = e, Agrees(m, e), UNCHANGED entries, View(e)
  PROVE  View(e)'
<1>1. Rows' = Rows /\ (Listed(e)' => Listed(e)) /\ (Listed(e) => Listed(e)')
  BY DEF Listed, Rows
<1>2. /\ Len(Coming) \in Nat /\ Len(Coming') = Len(Coming) + 1
      /\ \A i \in 1 .. Len(Coming) : Coming'[i] = Coming[i] /\ i \in 1 .. Len(Coming')
  BY DEF Sends
<1>3. PICK last \in Nat : last = Len(Coming) + 1
  BY <1>2
<1>4. last \in 1 .. Len(Coming') /\ Coming'[last] = m
  BY <1>2, <1>3 DEF Sends
<1>5. ASSUME NEW t
      PROVE  /\ \A i \in 1 .. Len(Coming) : At(i, t, e) => At(i, t, e)'
             /\ \A i \in 1 .. Len(Coming') : At(i, t, e)' => At(i, t, e) \/ (i = last /\ m.type = t)
             /\ m.type = t => At(last, t, e)' /\ Sent(t, e)'
             /\ Sent(t, e) => Sent(t, e)'
             /\ Sent(t, e)' => Sent(t, e) \/ m.type = t
  BY <1>3, SendsAt
<1>6. ASSUME NEW t, m.type # t, NEW i \in 1 .. Len(Coming'), At(i, t, e)'
      PROVE  At(i, t, e)
  BY <1>6, SendsAt
<1>7. ASSUME NEW i, NEW t, At(i, t, e)
      PROVE  i \in 1 .. Len(Coming) /\ i < last /\ Coming'[i] = Coming[i]
  BY <1>2, <1>3, <1>7 DEF At
<1>8. Known(e)'
  <2>1. Listed(e)' \/ Sent("tuiReqMsg", e)'
    BY <1>1, <1>5 DEF View, Known, Agrees
  <2>2. ASSUME NEW i \in 1 .. Len(Coming'), At(i, "tuiReqMsg", e)'
        PROVE  ~Listed(e)' /\ \A j \in 1 .. Len(Coming') : Coming'[j].id = e => i <= j
    <3>1. At(i, "tuiReqMsg", e)
      <4>1. m.type # "tuiReqMsg"
        BY DEF Agrees
      <4> QED
        BY <1>6, <2>2, <4>1
    <3>2. ~Listed(e) /\ \A j \in 1 .. Len(Coming) : Coming[j].id = e => i <= j
      BY <1>7, <3>1 DEF View, Known
    <3>3. ASSUME NEW j \in 1 .. Len(Coming'), Coming'[j].id = e PROVE i <= j
      <4>1. CASE j \in 1 .. Len(Coming)
        BY <1>2, <3>2, <3>3, <4>1
      <4>2. CASE j \notin 1 .. Len(Coming)
        BY <1>2, <1>3, <1>7, <3>1, <4>2
      <4> QED
        BY <4>1, <4>2
    <3> QED
      BY <1>1, <3>2, <3>3
  <2> QED
    BY <2>1, <2>2 DEF Known, Agrees
<1>9. Truthful(e)'
  <2>1. /\ reqText'[e] # "none" => pc'[e] # "idle"
        /\ respText'[e] => pc'[e] = "over"
    BY DEF Agrees
  <2>2. /\ reqText[e] = "sent" => reqText'[e] = "sent"
        /\ respText[e] => respText'[e]
    BY DEF View, Truthful, Agrees
  <2>3. ASSUME NEW i \in 1 .. Len(Coming')
        PROVE  /\ At(i, "tuiReqBodyMsg", e)' => Coming'[i].body /\ reqText'[e] = "sent"
               /\ At(i, "tuiRespMsg", e)' => ~Coming'[i].body
               /\ At(i, "tuiRespBodyMsg", e)' => /\ Coming'[i].body = respText'[e]
                                                 /\ pc'[e] \in {"head", "over"}
    <3>1. CASE i = last
      <4>1. \A t : At(i, t, e)' => m.type = t
        BY <1>4, <3>1 DEF At
      <4> QED
        BY <1>4, <3>1, <4>1 DEF Agrees
    <3>2. CASE i # last
      <4>1. \A t : At(i, t, e)' => At(i, t, e)
        BY <1>5, <3>2
      <4>2. i \in 1 .. Len(Coming) /\ Coming'[i] = Coming[i]
        BY <1>2, <1>3, <3>2
      <4>3. /\ At(i, "tuiReqBodyMsg", e) => Coming[i].body /\ reqText[e] = "sent"
            /\ At(i, "tuiRespMsg", e) => ~Coming[i].body
            /\ At(i, "tuiRespBodyMsg", e) => /\ Coming[i].body = respText[e]
                                             /\ pc[e] \in {"head", "over"}
        BY <4>2 DEF View, Truthful
      <4> QED
        BY <2>2, <4>1, <4>2, <4>3 DEF Agrees
    <3> QED
      BY <3>1, <3>2
  <2>4. \A i \in Rows : entries[i].id = e => /\ entries[i].reqBody => reqText[e] = "sent"
                                             /\ entries[i].respBody => respText[e]
    BY DEF View, Truthful
  <2>5. \A i \in Rows' : entries'[i].id = e => /\ entries'[i].reqBody => reqText'[e] = "sent"
                                               /\ entries'[i].respBody => respText'[e]
    BY <1>1, <2>2, <2>4
  <2> QED
    BY <2>1, <2>3, <2>5 DEF Truthful
<1>10. ReqBodyComes(e)'
  BY <1>1, <1>5 DEF View, ReqBodyComes, Agrees
<1>11. RespComes(e)'
  BY <1>1, <1>5 DEF View, RespComes, Agrees
<1>12. RespBodyComes(e)'
  <2> SUFFICES ASSUME respText'[e] PROVE RespBodyComes(e)'
    BY DEF RespBodyComes
  <2>1. CASE m.type = "tuiRespBodyMsg"
    <3>1. At(last, "tuiRespBodyMsg", e)'
      BY <1>5, <2>1
    <3>2. ASSUME NEW j \in 1 .. Len(Coming'), At(j, "tuiRespMsg", e)' PROVE j < last
      <4>1. m.type # "tuiRespMsg"
        BY <2>1
      <4>2. At(j, "tuiRespMsg", e)
        BY <1>6, <3>2, <4>1
      <4> QED
        BY <1>7, <4>2
    <3> QED
      BY <1>4, <3>1, <3>2 DEF RespBodyComes
  <2>2. CASE m.type # "tuiRespBodyMsg"
    <3>1. m.type # "tuiRespMsg" /\ respText[e]
      BY <2>2 DEF Agrees
    <3>2. CASE /\ ~Sent("tuiRespMsg", e)
               /\ \E i \in Rows : entries[i].id = e /\ entries[i].respBody
      BY <1>1, <1>5, <3>1, <3>2 DEF RespBodyComes
    <3>3. ASSUME NEW k \in 1 .. Len(Coming), At(k, "tuiRespBodyMsg", e),
                 \A j \in 1 .. Len(Coming) : At(j, "tuiRespMsg", e) => j < k
          PROVE  RespBodyComes(e)'
      <4>1. k \in 1 .. Len(Coming') /\ At(k, "tuiRespBodyMsg", e)'
        BY <1>2, <1>5, <3>3
      <4>2. \A j \in 1 .. Len(Coming') : At(j, "tuiRespMsg", e)' => j < k
        BY <1>5, <1>7, <3>1, <3>3
      <4> QED
        BY <4>1, <4>2 DEF RespBodyComes
    <3> QED
      BY <3>1, <3>2, <3>3 DEF View, RespBodyComes
  <2> QED
    BY <2>1, <2>2
<1> QED
  BY <1>8, <1>9, <1>10, <1>11, <1>12 DEF View

\* The first event of an exchange.
LEMMA FirstSent ==
  ASSUME NEW m, NEW e, Sends(m), m.id = e, m.type = "tuiReqMsg", pc[e] = "idle",
         pc'[e] = "sent", reqText'[e] # "sent", respText'[e] = respText[e],
         UNCHANGED entries, View(e)
  PROVE  View(e)'
<1>1. /\ ~Listed(e) /\ ~Listed(e)' /\ Rows' = Rows
      /\ \A i \in Rows : entries[i].id # e
  BY DEF View, Known, Listed, Rows
<1>2. /\ Len(Coming) \in Nat /\ Len(Coming') = Len(Coming) + 1
      /\ \A i \in 1 .. Len(Coming) : Coming'[i] = Coming[i] /\ Coming[i].id # e
  BY DEF Sends, View, Known
<1>3. PICK last \in Nat : last = Len(Coming) + 1
  BY <1>2
<1>4. last \in 1 .. Len(Coming') /\ Coming'[last] = m
  BY <1>2, <1>3 DEF Sends
<1>5. \A j \in 1 .. Len(Coming') : Coming'[j].id = e => j = last
  BY <1>2, <1>3
<1>6. At(last, "tuiReqMsg", e)' /\ \A i, t : At(i, t, e)' => i = last /\ t = "tuiReqMsg"
  BY <1>4, <1>5 DEF At
<1>7. Sent("tuiReqMsg", e)'
  BY <1>4, <1>6 DEF Sent
<1>8. Known(e)'
  BY <1>1, <1>3, <1>5, <1>6, <1>7 DEF Known
<1>9. ~respText[e]
  BY DEF View, Truthful
<1>10. Truthful(e)'
  BY <1>1, <1>6, <1>9 DEF Truthful
<1>11. ReqBodyComes(e)' /\ RespComes(e)' /\ RespBodyComes(e)'
  BY <1>9 DEF ReqBodyComes, RespComes, RespBodyComes
<1> QED
  BY <1>8, <1>10, <1>11 DEF View

\* A failure is sent to nobody.
LEMMA NothingSent ==
  ASSUME NEW e, Coming' = Coming, UNCHANGED entries, View(e),
         reqText'[e] = reqText[e], respText'[e] = respText[e],
         pc'[e] = pc[e] \/ (pc[e] = "sent" /\ pc'[e] = "failed")
  PROVE  View(e)'
<1>1. Rows' = Rows /\ (Listed(e)' => Listed(e)) /\ (Listed(e) => Listed(e)')
  BY DEF Listed, Rows
<1>2. \A i, t : At(i, t, e)' => At(i, t, e)
  BY DEF At
<1>3. \A i, t : At(i, t, e) => At(i, t, e)'
  BY DEF At
<1>4. \A t : (Sent(t, e)' => Sent(t, e)) /\ (Sent(t, e) => Sent(t, e)')
  BY <1>2, <1>3 DEF Sent
<1>5. Known(e)'
  BY <1>1, <1>2, <1>3, <1>4 DEF View, Known
<1>6. Truthful(e)'
  BY <1>1, <1>2, <1>3 DEF View, Truthful
<1>7. ReqBodyComes(e)' /\ RespComes(e)'
  BY <1>1, <1>4 DEF View, ReqBodyComes, RespComes
<1>8. RespBodyComes(e)'
  BY <1>1, <1>2, <1>3, <1>4 DEF View, RespBodyComes
<1> QED
  BY <1>5, <1>6, <1>7, <1>8 DEF View

\* A handler's event is one of its own exchange.
LEMMA ProxyView ==
  ASSUME IInv, IInv', ProxyTypes, ViewInv, Proxy
  PROVE  ViewInv'
<1>1. running /\ Unique /\ \A e \in Exchanges : View(e)
  BY DEF ViewInv, Proxy
<1>2. ASSUME UNCHANGED entries, \A e \in Exchanges : View(e)' PROVE ViewInv'
  BY <1>1, <1>2 DEF ViewInv, Unique, Rows
<1>3. ASSUME NEW f \in Exchanges, NEW m, Sends(m), m.id = f, UNCHANGED entries, View(f)',
             \A e \in Exchanges : e # f => Still(e)
      PROVE  ViewInv'
  <2>1. ASSUME NEW e \in Exchanges PROVE View(e)'
    <3>1. CASE e = f
      BY <1>3, <3>1
    <3>2. CASE e # f
      BY <1>1, <1>3, <3>2, OtherSent
    <3> QED
      BY <3>1, <3>2
  <2> QED
    BY <1>2, <1>3, <2>1
<1>4. CASE CommandExits
  <2>1. Sends(Msg("tuiDoneMsg", NoExchange, FALSE)) /\ UNCHANGED <<entries, pc, reqText, respText>>
    BY <1>1, <1>4, SendEffect DEF CommandExits
  <2>2. Msg("tuiDoneMsg", NoExchange, FALSE).id = NoExchange
    BY DEF Msg
  <2>3. ASSUME NEW e \in Exchanges PROVE View(e)'
    <3>1. Still(e) /\ e # NoExchange
      BY <2>1, NoExchangeAssumption DEF Still
    <3> QED
      BY <1>1, <2>1, <2>2, <3>1, OtherSent
  <2> QED
    BY <1>2, <2>1, <2>3
<1>5. ASSUME NEW f \in Exchanges, logRequest(f) PROVE ViewInv'
  <2>1. PICK m : m = Msg("tuiReqMsg", f, FALSE)
    OBVIOUS
  <2>2. Sends(m) /\ UNCHANGED <<entries, respText>> /\ m.id = f /\ m.type = "tuiReqMsg"
    BY <1>1, <1>5, <2>1, SendEffect DEF logRequest, Msg
  <2>3. /\ pc[f] = "idle" /\ pc'[f] = "sent" /\ reqText'[f] \in ReqTexts
        /\ \A e \in Exchanges : e # f => Still(e)
    BY <1>5 DEF logRequest, Handler, ProxyTypes, Still
  <2>4. View(f)'
    BY <1>1, <2>2, <2>3, ReqTextsAssumption, FirstSent
  <2> QED
    BY <1>3, <2>2, <2>3, <2>4
<1>6. ASSUME NEW f \in Exchanges, NEW type, NEW body, tuiSend(type, f, body),
             Agrees(Msg(type, f, body), f), \A e \in Exchanges : e # f => Still(e)
      PROVE  ViewInv'
  <2>1. PICK m : m = Msg(type, f, body)
    OBVIOUS
  <2>2. Sends(m) /\ UNCHANGED entries /\ m.id = f
    BY <1>1, <1>6, <2>1, SendEffect DEF Msg
  <2>3. View(f)'
    BY <1>1, <1>6, <2>1, <2>2, OwnSent
  <2> QED
    BY <1>3, <1>6, <2>2, <2>3
<1>7. ASSUME NEW f \in Exchanges
      PROVE  /\ respText[f] => pc[f] = "over"
             /\ reqText[f] # "none" => pc[f] # "idle"
  BY <1>1, <1>7 DEF View, Truthful
<1>8. ASSUME NEW f \in Exchanges, onRequestBody(f) PROVE ViewInv'
  <2>1. /\ Agrees(Msg("tuiReqBodyMsg", f, TRUE), f) /\ tuiSend("tuiReqBodyMsg", f, TRUE)
        /\ \A e \in Exchanges : e # f => Still(e)
    BY <1>7, <1>8 DEF onRequestBody, Agrees, Msg, ProxyTypes, Still
  <2> QED
    BY <1>6, <2>1
<1>9. ASSUME NEW f \in Exchanges, logResponse(f) PROVE ViewInv'
  <2>1. CASE Handler(f, "sent", "head") /\ tuiSend("tuiRespBodyMsg", f, FALSE)
    <3>1. /\ Agrees(Msg("tuiRespBodyMsg", f, FALSE), f)
          /\ \A e \in Exchanges : e # f => Still(e)
      BY <1>7, <1>9, <2>1 DEF logResponse, Handler, Agrees, Msg, ProxyTypes, Still
    <3> QED
      BY <1>6, <2>1, <3>1
  <2>2. CASE Handler(f, "sent", "copy") /\ tuiSend("tuiRespMsg", f, FALSE)
    <3>1. /\ Agrees(Msg("tuiRespMsg", f, FALSE), f)
          /\ \A e \in Exchanges : e # f => Still(e)
      BY <1>7, <1>9, <2>2 DEF logResponse, Handler, Agrees, Msg, ProxyTypes, Still
    <3> QED
      BY <1>6, <2>2, <3>1
  <2> QED
    BY <1>9, <2>1, <2>2 DEF logResponse
<1>10. ASSUME NEW f \in Exchanges, sendHead(f) PROVE ViewInv'
  <2>1. /\ Agrees(Msg("tuiRespMsg", f, FALSE), f) /\ tuiSend("tuiRespMsg", f, FALSE)
        /\ \A e \in Exchanges : e # f => Still(e)
    BY <1>7, <1>10 DEF sendHead, Handler, Agrees, Msg, ProxyTypes, Still
  <2> QED
    BY <1>6, <2>1
<1>11. ASSUME NEW f \in Exchanges, onResponseBody(f) PROVE ViewInv'
  <2>1. PICK text \in BOOLEAN : /\ respText' = [respText EXCEPT ![f] = text]
                                /\ tuiSend("tuiRespBodyMsg", f, text)
    BY <1>11 DEF onResponseBody
  <2>2. /\ Agrees(Msg("tuiRespBodyMsg", f, text), f)
        /\ \A e \in Exchanges : e # f => Still(e)
    BY <1>7, <1>11, <2>1 DEF onResponseBody, Handler, Agrees, Msg, ProxyTypes, Still
  <2> QED
    BY <1>6, <2>1, <2>2
<1>12. ASSUME NEW f \in Exchanges, discardReqID(f) PROVE ViewInv'
  <2>1. /\ UNCHANGED <<entries, queue, inbox, reqText, respText>>
        /\ pc[f] = "sent" /\ pc' = [pc EXCEPT ![f] = "failed"]
    BY <1>12 DEF discardReqID, Handler, model
  <2>2. Coming' = Coming
    BY <2>1 DEF Coming
  <2>3. ASSUME NEW e \in Exchanges PROVE View(e)'
    <3>1. pc'[e] = pc[e] \/ (pc[e] = "sent" /\ pc'[e] = "failed")
      BY <2>1 DEF ProxyTypes
    <3> QED
      BY <1>1, <2>1, <2>2, <3>1, NothingSent
  <2> QED
    BY <1>2, <2>1, <2>3
<1> QED
  BY <1>4, <1>5, <1>8, <1>9, <1>10, <1>11, <1>12 DEF Proxy

\* The view starts empty, and every step keeps it.
LEMMA ViewInvariance == Spec => [](IInv /\ ViewInv)
<1>1. Init => ViewInv
  <2> SUFFICES ASSUME Init PROVE Unique /\ \A e \in Exchanges : View(e)
    BY DEF ViewInv
  <2>1. Coming = <<>> /\ entries = <<>>
    BY DEF Init, Coming
  <2>2. Rows = {} /\ 1 .. Len(Coming) = {}
    BY <2>1 DEF Rows
  <2>3. ASSUME NEW e \in Exchanges
        PROVE  pc[e] = "idle" /\ reqText[e] = "none" /\ respText[e] = FALSE
    BY <2>3 DEF Init
  <2>4. ASSUME NEW e \in Exchanges PROVE View(e)
    BY <2>2, <2>3 DEF View, Known, Truthful, ReqBodyComes, RespComes, RespBodyComes, Listed
  <2> QED
    BY <2>2, <2>4 DEF Unique
<1>2. IInv /\ IInv' /\ ProxyTypes /\ ViewInv /\ [Next]_vars => ViewInv'
  <2> SUFFICES ASSUME IInv, IInv', ProxyTypes, ViewInv, [Next]_vars PROVE ViewInv'
    OBVIOUS
  <2>1. ASSUME Coming' = Coming, UNCHANGED <<entries, running, pc, reqText, respText>>
        PROVE  ViewInv'
    <3>1. ASSUME NEW e \in Exchanges, running PROVE View(e)'
      BY <2>1, <3>1, NothingSent DEF ViewInv
    <3> QED
      BY <2>1, <3>1 DEF ViewInv, Unique, Rows
  <2>2. CASE Proxy
    BY <2>2, ProxyView
  <2>3. CASE Pop
    BY <2>1, <2>3, PopEffect DEF Pop, proxy, model
  <2>4. CASE Update
    <3>1. running
      BY <2>4 DEF Update, UpdateReq, UpdateResp, UpdateReqBody, UpdateRespBody, InPlace,
         UpdateDone, Receive
    <3> QED
      BY <2>4, <3>1, UpdateView
  <2>5. CASE User
    <3>1. CASE KeyQuit
      BY <3>1 DEF KeyQuit, ViewInv
    <3>2. CASE ~KeyQuit
      <4>1. UNCHANGED <<queue, inbox, entries, running, pc, reqText, respText>>
        BY <2>5, <3>2 DEF User, KeyUp, KeyDown, KeyTop, KeyBottom, KeyEnter, KeyEsc, KeyScroll,
           WindowSize, Select, ShowDetail, Others, proxy
      <4> QED
        BY <2>1, <4>1 DEF Coming
    <3> QED
      BY <3>1, <3>2
  <2>6. CASE UNCHANGED vars
    <3>1. UNCHANGED <<queue, inbox, entries, running, pc, reqText, respText>>
      BY <2>6 DEF vars, proxy, model
    <3> QED
      BY <2>1, <3>1 DEF Coming
  <2> QED
    BY <2>2, <2>3, <2>4, <2>5, <2>6 DEF Next
<1> QED
  BY <1>1, <1>2, TypesInvariance, PTL DEF Spec

\* Two truth values that imply each other.
LEMMA SameTruth == ASSUME NEW a \in BOOLEAN, NEW b \in BOOLEAN, a => b, b => a PROVE a = b
  OBVIOUS

\* Once every event has been taken in there is one entry for each exchange, and it
\* shows the bodies that were sent and that the response has come, whichever of the
\* head and the body was sent first (main.go:554-764, tui.go:198-241).
THEOREM ViewIsSettled == Spec => []SettledView
<1>1. IInv /\ ProxyTypes /\ ViewInv => SettledView
  <2> SUFFICES ASSUME IInv, ProxyTypes, ViewInv, running, queue = <<>>, inbox = {},
                      NEW e \in Exchanges
               PROVE  /\ Cardinality({i \in Rows : entries[i].id = e})
                           = IF pc[e] = "idle" THEN 0 ELSE 1
                      /\ \A i \in Rows : entries[i].id = e =>
                           /\ reqText[e] = "sent" <=> entries[i].reqBody
                           /\ pc[e] \in {"copy", "over"} => ~entries[i].pending
                           /\ pc[e] = "over" => entries[i].respBody = respText[e]
    BY DEF SettledView, Rows
  <2>1. Coming = <<>>
    BY DEF Coming
  <2>2. \A t : ~Sent(t, e)
    BY <2>1 DEF Sent
  <2>3. View(e) /\ Unique
    BY DEF ViewInv
  <2>4. Cardinality({i \in Rows : entries[i].id = e}) = IF pc[e] = "idle" THEN 0 ELSE 1
    <3>1. CASE pc[e] = "idle"
      <4>1. {i \in Rows : entries[i].id = e} = {}
        BY <2>3, <3>1 DEF View, Known, Listed
      <4> QED
        BY <3>1, <4>1, FS_EmptySet
    <3>2. CASE pc[e] # "idle"
      <4>1. PICK row \in Rows : entries[row].id = e
        BY <2>2, <2>3, <3>2 DEF View, Known, Listed
      <4>2. {i \in Rows : entries[i].id = e} = {row}
        BY <2>3, <4>1 DEF Unique
      <4> QED
        BY <3>2, <4>2, FS_Singleton
    <3> QED
      BY <3>1, <3>2
  <2>5. ASSUME NEW i \in Rows, entries[i].id = e
        PROVE  /\ reqText[e] = "sent" <=> entries[i].reqBody
               /\ pc[e] \in {"copy", "over"} => ~entries[i].pending
               /\ pc[e] = "over" => entries[i].respBody = respText[e]
    <3>1. \A j \in Rows : entries[j].id = e => j = i
      BY <2>3, <2>5 DEF Unique
    <3>2. reqText[e] = "sent" <=> entries[i].reqBody
      BY <2>2, <2>3, <2>5, <3>1 DEF View, Truthful, ReqBodyComes
    <3>3. pc[e] \in {"copy", "over"} => ~entries[i].pending
      BY <2>2, <2>3, <3>1 DEF View, RespComes
    <3>4. ASSUME pc[e] = "over" PROVE entries[i].respBody = respText[e]
      <4>1. entries[i].respBody => respText[e]
        BY <2>3, <2>5 DEF View, Truthful
      <4>2. ~\E k \in 1 .. Len(Coming) : At(k, "tuiRespBodyMsg", e)
        BY <2>1
      <4>3. respText[e] => entries[i].respBody
        BY <2>3, <3>1, <4>2 DEF View, RespBodyComes
      <4>4. entries[i].respBody \in BOOLEAN /\ respText[e] \in BOOLEAN
        <5>1. entries[i] \in Entry
          BY DEF IInv, Types, Rows
        <5>2. entries[i].respBody \in BOOLEAN
          BY <5>1, Zenon DEF Entry
        <5>3. respText[e] \in BOOLEAN
          BY Zenon DEF ProxyTypes
        <5> QED
          BY <5>2, <5>3
      <4> QED
        BY <4>1, <4>3, <4>4, SameTruth
    <3> QED
      BY <3>2, <3>3, <3>4
  <2> QED
    BY <2>4, <2>5
<1> QED
  BY <1>1, ViewInvariance, TypesInvariance, PTL

-----------------------------------------------------------------------------
(* The queue *)
(* NoLostWakeup is inductive as it stands, given the types: the consumer goes to *)
(* wait only on an empty queue, an append is followed by a signal of the same    *)
(* goroutine, and the only step that takes a token brings the consumer back to   *)
(* look.                                                                         *)

\* One step keeps the types.
LEMMA QueueTypeStep == QueueTypeOK /\ [QueueNext]_queueVars => QueueTypeOK'
<1> SUFFICES ASSUME QueueTypeOK, [QueueNext]_queueVars PROVE QueueTypeOK'
  OBVIOUS
<1> USE DEF QueueTypeOK
<1>1. ASSUME NEW p \in Producers, push(p) PROVE QueueTypeOK'
  <2>1. pushes[p] + 1 \in 1 .. MaxPushes
    BY <1>1, MaxPushesAssumption DEF push
  <2>2. <<p, pushes[p] + 1>> \in Event
    BY <2>1 DEF Event
  <2>3. pushes' \in [Producers -> 0 .. MaxPushes]
    BY <1>1, <2>1, MaxPushesAssumption DEF push
  <2> QED
    BY <1>1, <2>2, <2>3, AppendProperties DEF push
<1>2. ASSUME NEW p \in Producers, Signal(p) PROVE QueueTypeOK'
  BY <1>2 DEF Signal
<1>3. CASE Listen
  BY <1>3 DEF Listen
<1>4. CASE Look
  <2>1. CASE items # <<>>
    <3>1. Head(items) \in Event /\ Tail(items) \in Seq(Event)
      BY <2>1, HeadTailProperties
    <3>2. Append(popped, Head(items)) \in Seq(Event)
      BY <3>1, AppendProperties
    <3>3. items' \in Seq(Event) /\ popped' \in Seq(Event) /\ consumer' = "away"
      BY <1>4, <2>1, <3>1, <3>2 DEF Look
    <3> QED
      BY <1>4, <3>3 DEF Look
  <2>2. CASE items = <<>>
    BY <1>4, <2>2 DEF Look
  <2> QED
    BY <2>1, <2>2
<1>5. CASE Wait
  BY <1>5 DEF Wait
<1>6. CASE Wake
  BY <1>6 DEF Wake
<1>7. CASE UNCHANGED queueVars
  BY <1>7 DEF queueVars
<1> QED
  BY <1>1, <1>2, <1>3, <1>4, <1>5, <1>6, <1>7 DEF QueueNext

\* The variables keep their types.
THEOREM QueueTypeCorrect == QueueSpec => []QueueTypeOK
<1>1. QueueInit => QueueTypeOK
  <2>1. 0 \in 0 .. MaxPushes
    BY MaxPushesAssumption
  <2>2. <<>> \in Seq(Event)
    BY EmptySeq
  <2> QED
    BY <2>1, <2>2 DEF QueueInit, QueueTypeOK
<1> QED
  BY <1>1, QueueTypeStep, PTL DEF QueueSpec

\* The UI's goroutine never sleeps on a queued event without a token in the
\* channel or a producer about to leave one, for any number of producers.
THEOREM NoWakeupIsLost == QueueSpec => []NoLostWakeup
<1>1. QueueInit => NoLostWakeup
  BY DEF QueueInit, NoLostWakeup
<1>2. NoLostWakeup /\ [QueueNext]_queueVars => NoLostWakeup'
  <2> SUFFICES ASSUME NoLostWakeup, [QueueNext]_queueVars PROVE NoLostWakeup'
    OBVIOUS
  <2> USE DEF NoLostWakeup
  <2>1. ASSUME NEW p \in Producers, push(p) PROVE NoLostWakeup'
    BY <2>1 DEF push
  <2>2. ASSUME NEW p \in Producers, Signal(p) PROVE NoLostWakeup'
    BY <2>2 DEF Signal
  <2>3. CASE Listen
    BY <2>3 DEF Listen
  <2>4. CASE Look
    BY <2>4 DEF Look
  <2>5. CASE Wait
    BY <2>5 DEF Wait
  <2>6. CASE Wake
    BY <2>6 DEF Wake
  <2>7. CASE UNCHANGED queueVars
    BY <2>7 DEF queueVars
  <2> QED
    BY <2>1, <2>2, <2>3, <2>4, <2>5, <2>6, <2>7 DEF QueueNext
<1> QED
  BY <1>1, <1>2, PTL DEF QueueSpec

\* Appending to the end of a concatenation.
LEMMA AppendToConcat ==
  ASSUME NEW s \in Seq(Event), NEW t \in Seq(Event), NEW e \in Event
  PROVE  Append(s \o t, e) = s \o Append(t, e)
<1>1. <<e>> \in Seq(Event)
  OBVIOUS
<1>2. Append(s \o t, e) = (s \o t) \o <<e>>
  BY ConcatProperties, AppendIsConcat
<1>3. s \o Append(t, e) = s \o (t \o <<e>>)
  BY AppendIsConcat
<1> QED
  BY <1>1, <1>2, <1>3, ConcatAssociative

\* Moving the head of the second sequence to the end of the first.
LEMMA MoveHead ==
  ASSUME NEW s \in Seq(Event), NEW t \in Seq(Event), t # <<>>
  PROVE  Append(s, Head(t)) \o Tail(t) = s \o t
<1>1. Head(t) \in Event /\ Tail(t) \in Seq(Event) /\ <<Head(t)>> \in Seq(Event)
  BY HeadTailProperties
<1>2. Append(s, Head(t)) = s \o <<Head(t)>>
  BY <1>1, AppendIsConcat
<1>3. <<Head(t)>> \o Tail(t) = t
  OBVIOUS
<1> QED
  BY <1>1, <1>2, <1>3, ConcatAssociative

\* What has been returned, followed by what is queued, is what was pushed: the
\* queue is a FIFO whatever the interleaving of its producers.
THEOREM IsInOrder == QueueSpec => []InOrder
<1>1. QueueInit => InOrder
  BY DEF QueueInit, InOrder
<1>2. QueueTypeOK /\ InOrder /\ [QueueNext]_queueVars => InOrder'
  <2> SUFFICES ASSUME QueueTypeOK, InOrder, [QueueNext]_queueVars PROVE InOrder'
    OBVIOUS
  <2> USE DEF InOrder
  <2>1. ASSUME NEW p \in Producers, push(p) PROVE InOrder'
    <3>1. <<p, pushes[p] + 1>> \in Event
      BY <2>1, MaxPushesAssumption DEF push, QueueTypeOK, Event
    <3> QED
      BY <2>1, <3>1, AppendToConcat DEF push, QueueTypeOK
  <2>2. ASSUME NEW p \in Producers, Signal(p) PROVE InOrder'
    BY <2>2 DEF Signal
  <2>3. CASE Listen
    BY <2>3 DEF Listen
  <2>4. CASE Look
    <3>1. CASE items # <<>>
      BY <2>4, <3>1, MoveHead DEF Look, QueueTypeOK
    <3>2. CASE items = <<>>
      BY <2>4, <3>2 DEF Look
    <3> QED
      BY <3>1, <3>2
  <2>5. CASE Wait
    BY <2>5 DEF Wait
  <2>6. CASE Wake
    BY <2>6 DEF Wake
  <2>7. CASE UNCHANGED queueVars
    BY <2>7 DEF queueVars
  <2> QED
    BY <2>1, <2>2, <2>3, <2>4, <2>5, <2>6, <2>7 DEF QueueNext
<1> QED
  BY <1>1, <1>2, QueueTypeCorrect, PTL DEF QueueSpec
=============================================================================
