---------------------------- MODULE Forward_proofs ----------------------------
(***************************************************************************)
(* Proofs about Forward and about the ExchangeJoiner it calls, for any set *)
(* of request numbers and any combination of --record and --har.           *)
(*                                                                         *)
(* The joiner comes first, for callers that keep to its protocol and for   *)
(* any values of the halves.  Its inductive invariant says what each of    *)
(* the three maps holds as a function of the calls made so far (MapsInv),  *)
(* that every task and every entry written is the pair of the halves given *)
(* (TasksInv, OutputsInv), and that no exchange is written twice           *)
(* (WrittenOnce).  The link between them: an exchange one half of which    *)
(* has not been given is in no task and in no output, so a new task never  *)
(* repeats one.                                                            *)
(*                                                                         *)
(* Then the handlers, the transports and the main goroutine: they are      *)
(* callers of that kind (ForwardImplementsJoiner), so all of it carries    *)
(* over.  What they add is told by where the handler of an exchange and    *)
(* the transport stand: which calls it has made (CallsInv), what it has    *)
(* printed (TextInv), and that the count in flight is the number of        *)
(* handlers under way (DrainInv), which is what the drain waits for.       *)
(***************************************************************************)
EXTENDS Forward, SequenceTheorems, FiniteSetTheorems, TLAPS

\* The maps, from the calls: a half waits exactly while its partner and a drop
\* may still come; a drop is remembered exactly until the request half comes.
MapsInv ==
  \A id \in Ids :
    /\ reqs[id] = IF givenResp[id] = Absent /\ id \notin abandoned
                    THEN givenReq[id] ELSE Absent
    /\ resps[id] = IF givenReq[id] = Absent THEN givenResp[id] ELSE Absent
    /\ id \in dropped <=> (id \in abandoned /\ givenReq[id] = Absent)
    /\ id \in abandoned => givenResp[id] = Absent

\* An entry is the pair of the halves given for its exchange.
Given(e) == givenReq[e.id] = e.req /\ givenResp[e.id] = e.resp

TasksInv ==
  \A t \in completing :
    /\ Given(t.entry)
    /\ t.next = "record" => recordMode
    /\ t.next = "har" => harMode
    /\ (t.next = "har" /\ recordMode) =>
         \E j \in 1 .. Len(recorded) : recorded[j] = t.entry

OutputsInv == /\ \A i \in 1 .. Len(recorded) : Given(recorded[i])
              /\ \A i \in 1 .. Len(har) : Given(har[i])

IInv == /\ TypeOK
        /\ MapsInv
        /\ TasksInv
        /\ OutputsInv
        /\ WrittenOnce
        /\ HarWithinRecording

-----------------------------------------------------------------------------

\* One step keeps the types.
LEMMA TypeStep == TypeOK /\ [Next]_vars => TypeOK'
<1> SUFFICES ASSUME TypeOK, [Next]_vars PROVE TypeOK'
  OBVIOUS
<1> USE DEF TypeOK, Half
<1>1. ASSUME NEW id \in Ids, NEW v \in Views, addRequest(id, v) PROVE TypeOK'
  <2>1. resps[id] # Absent => completeExchange(id, v, resps[id]) \in Task
    BY DEF completeExchange, Task, Entry
  <2>2. completing' \subseteq Task
    BY <1>1, <2>1 DEF addRequest
  <2> QED
    BY <1>1, <2>2 DEF addRequest, outputs
<1>2. ASSUME NEW id \in Ids, NEW v \in Views, addResponse(id, v) PROVE TypeOK'
  <2>1. reqs[id] # Absent => completeExchange(id, reqs[id], v) \in Task
    BY DEF completeExchange, Task, Entry
  <2>2. completing' \subseteq Task
    BY <1>2, <2>1 DEF addResponse
  <2> QED
    BY <1>2, <2>2 DEF addResponse, outputs
<1>3. ASSUME NEW id \in Ids, drop(id) PROVE TypeOK'
  BY <1>3 DEF drop, outputs
<1>4. ASSUME NEW t \in completing, writeRecord(t) PROVE TypeOK'
  <2>1. t \in Task /\ t.entry \in Entry /\ [t EXCEPT !.next = "har"] \in Task
    BY DEF Task
  <2>2. recorded' \in Seq(Entry)
    BY <1>4, <2>1 DEF writeRecord
  <2>3. completing' \subseteq Task
    BY <1>4, <2>1 DEF writeRecord
  <2> QED
    BY <1>4, <2>2, <2>3 DEF writeRecord, maps, history
<1>5. ASSUME NEW t \in completing, addHAREntry(t) PROVE TypeOK'
  <2>1. t.entry \in Entry
    BY DEF Task
  <2> QED
    BY <1>5, <2>1 DEF addHAREntry, maps, history
<1>6. CASE UNCHANGED vars
  BY <1>6 DEF vars, maps, outputs, history
<1> QED
  BY <1>1, <1>2, <1>3, <1>4, <1>5, <1>6 DEF Next

\* The variables keep their types: whatever the calls, the maps hold halves and
\* the outputs hold whole entries.
THEOREM TypeCorrect == Spec => []TypeOK
<1>1. Init => TypeOK
  BY DEF Init, TypeOK, Half
<1> QED
  BY <1>1, TypeStep, PTL DEF Spec

-----------------------------------------------------------------------------
(* Lemmas *)

\* What the elements of the outputs and of completing are.
LEMMA EntriesTyped ==
  ASSUME TypeOK
  PROVE  /\ \A t \in completing : /\ t.entry \in Entry
                                  /\ t.next \in {"record", "har"}
         /\ Len(recorded) \in Nat
         /\ \A i \in 1 .. Len(recorded) : recorded[i] \in Entry
         /\ Len(har) \in Nat
         /\ \A i \in 1 .. Len(har) : har[i] \in Entry
  BY ElementOfSeq, LenProperties DEF TypeOK, Task

\* What an output holds after one more entry is written.
LEMMA AfterAppend ==
  ASSUME NEW s \in Seq(Entry), NEW e \in Entry
  PROVE  /\ Len(Append(s, e)) = Len(s) + 1
         /\ \A i \in 1 .. Len(s) + 1 :
              \/ i \in 1 .. Len(s) /\ Append(s, e)[i] = s[i]
              \/ i = Len(s) + 1 /\ Append(s, e)[i] = e
  BY AppendProperties, LenProperties

\* An exchange with a half still to come is in no task and in no output.
LEMMA HalfMissing ==
  ASSUME IInv, NEW id \in Ids, givenReq[id] = Absent \/ givenResp[id] = Absent
  PROVE  /\ \A t \in completing : t.entry.id # id
         /\ \A i \in 1 .. Len(recorded) : recorded[i].id # id
         /\ \A i \in 1 .. Len(har) : har[i].id # id
<1>1. \A e \in Entry : Given(e) => e.id # id
  BY AbsentAssumption DEF Entry, Given
<1> QED
  BY <1>1, EntriesTyped DEF IInv, TasksInv, OutputsInv

\* A call that brings a half of id, or that abandons it, changes what is given
\* for no exchange that a task or an output holds.
LEMMA GivenKept ==
  ASSUME IInv, NEW id \in Ids,
         givenReq[id] = Absent \/ givenResp[id] = Absent,
         \A k \in Ids \ {id} : givenReq'[k] = givenReq[k] /\ givenResp'[k] = givenResp[k],
         recorded' = recorded, har' = har
  PROVE  OutputsInv' /\ \A t \in completing : givenReq'[t.entry.id] = t.entry.req
                                           /\ givenResp'[t.entry.id] = t.entry.resp
<1>1. /\ \A t \in completing : t.entry.id \in Ids \ {id}
      /\ \A i \in 1 .. Len(recorded) : recorded[i].id \in Ids \ {id}
      /\ \A i \in 1 .. Len(har) : har[i].id \in Ids \ {id}
  BY HalfMissing, EntriesTyped DEF IInv, Entry
<1> QED
  BY <1>1 DEF IInv, OutputsInv, TasksInv, Given

-----------------------------------------------------------------------------
(* The inductive invariant *)

\* The second half of id, r or rs, puts one task for id into completing.
LEMMA NewTask ==
  ASSUME IInv, NEW id \in Ids, NEW r \in Views, NEW rs \in Views,
         givenReq[id] = Absent \/ givenResp[id] = Absent,
         \A k \in Ids \ {id} : givenReq'[k] = givenReq[k] /\ givenResp'[k] = givenResp[k],
         givenReq'[id] = r, givenResp'[id] = rs,
         completing' = completing \cup {completeExchange(id, r, rs)},
         recorded' = recorded, har' = har
  PROVE  TasksInv' /\ OutputsInv' /\ WrittenOnce' /\ HarWithinRecording'
<1> DEFINE new == completeExchange(id, r, rs)
<1>1. /\ new.entry.id = id /\ new.entry.req = r /\ new.entry.resp = rs
      /\ new.next = IF recordMode THEN "record" ELSE "har"
  BY DEF completeExchange
<1> HIDE DEF new
<1>2. OutputsInv'
  BY GivenKept
<1>3. TasksInv'
  BY <1>1, GivenKept, ModeAssumption DEF IInv, TasksInv, Given, new
<1>4. WrittenOnce'
  BY <1>1, HalfMissing DEF IInv, WrittenOnce, new
<1>5. HarWithinRecording'
  BY DEF IInv, HarWithinRecording
<1> QED
  BY <1>2, <1>3, <1>4, <1>5

\* A call that makes no pair leaves the tasks and the outputs as they are.
LEMMA NoTask ==
  ASSUME IInv, NEW id \in Ids,
         givenReq[id] = Absent \/ givenResp[id] = Absent,
         \A k \in Ids \ {id} : givenReq'[k] = givenReq[k] /\ givenResp'[k] = givenResp[k],
         completing' = completing, recorded' = recorded, har' = har
  PROVE  TasksInv' /\ OutputsInv' /\ WrittenOnce' /\ HarWithinRecording'
<1>1. OutputsInv' /\ TasksInv'
  BY GivenKept DEF IInv, TasksInv, Given
<1> QED
  BY <1>1 DEF IInv, WrittenOnce, HarWithinRecording

\* The call that brings a half keeps the invariant.
LEMMA CallStep ==
  ASSUME IInv, TypeOK', NEW id \in Ids, NEW v \in Views,
         addRequest(id, v) \/ addResponse(id, v)
  PROVE  IInv'
<1> USE DEF IInv
<1>1. ASSUME addRequest(id, v) PROVE IInv'
  <2>1. givenReq[id] = Absent /\ recorded' = recorded /\ har' = har
    BY <1>1 DEF addRequest, outputs
  <2>2. \A k \in Ids \ {id} : givenReq'[k] = givenReq[k] /\ givenResp'[k] = givenResp[k]
    BY <1>1 DEF addRequest, TypeOK
  <2>3. givenReq'[id] = v /\ givenResp'[id] = givenResp[id]
    BY <1>1 DEF addRequest, TypeOK
  <2>4. MapsInv'
    BY <1>1, AbsentAssumption DEF addRequest, MapsInv, TypeOK
  <2>5. CASE id \in dropped \/ resps[id] = Absent
    <3>1. completing' = completing
      BY <1>1, <2>5 DEF addRequest, MapsInv
    <3> QED
      BY <2>1, <2>2, <2>4, <3>1, NoTask
  <2>6. CASE id \notin dropped /\ resps[id] # Absent
    <3>1. resps[id] \in Views /\ givenResp[id] = resps[id]
      BY <2>1, <2>6 DEF MapsInv, TypeOK, Half
    <3>2. completing' = completing \cup {completeExchange(id, v, resps[id])}
      BY <1>1, <2>6 DEF addRequest
    <3> QED
      BY <2>1, <2>2, <2>3, <2>4, <3>1, <3>2, NewTask
  <2> QED
    BY <2>5, <2>6
<1>2. ASSUME addResponse(id, v) PROVE IInv'
  <2>1. /\ givenResp[id] = Absent /\ id \notin abandoned
        /\ recorded' = recorded /\ har' = har
    BY <1>2 DEF addResponse, outputs
  <2>2. \A k \in Ids \ {id} : givenReq'[k] = givenReq[k] /\ givenResp'[k] = givenResp[k]
    BY <1>2 DEF addResponse, TypeOK
  <2>3. givenResp'[id] = v /\ givenReq'[id] = givenReq[id]
    BY <1>2 DEF addResponse, TypeOK
  <2>4. MapsInv'
    BY <1>2, AbsentAssumption DEF addResponse, MapsInv, TypeOK
  <2>5. CASE reqs[id] = Absent
    <3>1. completing' = completing
      BY <1>2, <2>5 DEF addResponse
    <3> QED
      BY <2>1, <2>2, <2>4, <3>1, NoTask
  <2>6. CASE reqs[id] # Absent
    <3>1. reqs[id] \in Views /\ givenReq[id] = reqs[id]
      BY <2>1, <2>6 DEF MapsInv, TypeOK, Half
    <3>2. completing' = completing \cup {completeExchange(id, reqs[id], v)}
      BY <1>2, <2>6 DEF addResponse
    <3> QED
      BY <2>1, <2>2, <2>3, <2>4, <3>1, <3>2, NewTask
  <2> QED
    BY <2>5, <2>6
<1> QED
  BY <1>1, <1>2

\* So does abandoning an exchange.
LEMMA DropStep ==
  ASSUME IInv, TypeOK', NEW id \in Ids, drop(id)
  PROVE  IInv'
<1> USE DEF IInv
<1>1. /\ givenResp[id] = Absent /\ completing' = completing
      /\ recorded' = recorded /\ har' = har
      /\ givenReq' = givenReq /\ givenResp' = givenResp
  BY DEF drop, outputs
<1>2. MapsInv'
  BY DEF drop, MapsInv, TypeOK
<1> QED
  BY <1>1, <1>2, NoTask

\* Each of the two writes keeps the invariant.
LEMMA WriteStep ==
  ASSUME IInv, TypeOK', NEW t \in completing, writeRecord(t) \/ addHAREntry(t)
  PROVE  IInv'
<1> USE DEF IInv
<1>1. t.entry \in Entry /\ recorded \in Seq(Entry) /\ har \in Seq(Entry)
  BY EntriesTyped DEF TypeOK
<1>2. Given(t.entry)
  BY DEF TasksInv
<1>3. MapsInv'
  BY DEF writeRecord, addHAREntry, maps, history, MapsInv
<1>4. ASSUME writeRecord(t) PROVE IInv'
  <2> DEFINE hand == [t EXCEPT !.next = "har"]
  <2>1. hand.entry = t.entry /\ hand.next = "har"
    BY DEF TypeOK, Task
  <2> HIDE DEF hand
  <2>2. /\ recorded' = Append(recorded, t.entry) /\ har' = har /\ t.next = "record"
        /\ completing' = (completing \ {t}) \cup (IF harMode THEN {hand} ELSE {})
        /\ givenReq' = givenReq /\ givenResp' = givenResp
    BY <1>4 DEF writeRecord, history, hand
  <2>3. \A i \in 1 .. Len(recorded') :
          \/ i \in 1 .. Len(recorded) /\ recorded'[i] = recorded[i]
          \/ i = Len(recorded) + 1 /\ recorded'[i] = t.entry
    BY <1>1, <2>2, AfterAppend
  <2>4. /\ Len(recorded) \in Nat /\ Len(recorded') = Len(recorded) + 1
        /\ recorded'[Len(recorded) + 1] = t.entry
        /\ \A i \in 1 .. Len(recorded) : recorded'[i] = recorded[i]
    BY <1>1, <2>2, AppendProperties, LenProperties
  <2>5. OutputsInv'
    BY <1>2, <2>2, <2>3 DEF OutputsInv, Given
  <2>6. TasksInv'
    BY <1>2, <2>1, <2>2, <2>4 DEF TasksInv, Given
  <2>7. WrittenOnce'
    BY <2>1, <2>2, <2>3 DEF WrittenOnce
  <2>8. HarWithinRecording'
    BY <2>2, <2>4 DEF HarWithinRecording
  <2> QED
    BY <1>3, <2>5, <2>6, <2>7, <2>8
<1>5. ASSUME addHAREntry(t) PROVE IInv'
  <2>1. /\ har' = Append(har, t.entry) /\ recorded' = recorded /\ t.next = "har"
        /\ completing' = completing \ {t}
        /\ givenReq' = givenReq /\ givenResp' = givenResp
    BY <1>5 DEF addHAREntry, history
  <2>2. \A i \in 1 .. Len(har') : \/ i \in 1 .. Len(har) /\ har'[i] = har[i]
                                  \/ i = Len(har) + 1 /\ har'[i] = t.entry
    BY <1>1, <2>1, AfterAppend
  <2>3. OutputsInv'
    BY <1>2, <2>1, <2>2 DEF OutputsInv, Given
  <2>4. TasksInv'
    BY <2>1 DEF TasksInv, Given
  <2>5. WrittenOnce'
    BY <2>1, <2>2 DEF WrittenOnce
  <2>6. HarWithinRecording'
    BY <2>1, <2>2 DEF HarWithinRecording, TasksInv
  <2> QED
    BY <1>3, <2>3, <2>4, <2>5, <2>6
<1> QED
  BY <1>4, <1>5

\* The inductive invariant holds of every behaviour.
THEOREM Invariance == Spec => []IInv
<1>1. Init => IInv
  <2> SUFFICES ASSUME Init PROVE IInv
    OBVIOUS
  <2>1. TypeOK
    BY DEF Init, TypeOK, Half
  <2>2. Len(recorded) = 0 /\ Len(har) = 0
    BY DEF Init
  <2>3. MapsInv
    BY DEF Init, MapsInv
  <2>4. TasksInv
    BY DEF Init, TasksInv
  <2>5. OutputsInv
    BY <2>2 DEF OutputsInv
  <2>6. WrittenOnce
    BY <2>2 DEF Init, WrittenOnce
  <2>7. HarWithinRecording
    BY <2>2 DEF HarWithinRecording
  <2> QED
    BY <2>1, <2>3, <2>4, <2>5, <2>6, <2>7 DEF IInv
<1>2. IInv /\ [Next]_vars => IInv'
  <2> SUFFICES ASSUME IInv, [Next]_vars PROVE IInv'
    OBVIOUS
  <2>1. TypeOK'
    BY TypeStep DEF IInv
  <2>2. ASSUME NEW id \in Ids, NEW v \in Views, addRequest(id, v) \/ addResponse(id, v)
        PROVE  IInv'
    BY <2>1, <2>2, CallStep
  <2>3. ASSUME NEW id \in Ids, drop(id) PROVE IInv'
    BY <2>1, <2>3, DropStep
  <2>4. ASSUME NEW t \in completing, writeRecord(t) \/ addHAREntry(t) PROVE IInv'
    BY <2>1, <2>4, WriteStep
  <2>5. CASE UNCHANGED vars
    BY <2>5 DEF vars, maps, outputs, history, IInv, TypeOK, MapsInv, TasksInv, OutputsInv,
                Given, WrittenOnce, HarWithinRecording
  <2> QED
    BY <2>2, <2>3, <2>4, <2>5 DEF Next
<1> QED
  BY <1>1, <1>2, PTL DEF Spec

-----------------------------------------------------------------------------
(* What follows from it *)

\* An exchange with no more calls to come leaves nothing in the joiner's maps,
\* in whatever order its halves and its drop came.
THEOREM NothingIsParkedForever == Spec => []NothingParkedForever
<1>1. IInv => NothingParkedForever
  <2> SUFFICES ASSUME IInv, NEW id \in Ids, Settled(id) PROVE ~Parked(id)
    BY DEF NothingParkedForever
  <2> QED
    BY DEF IInv, MapsInv, Settled, Parked
<1> QED
  BY <1>1, Invariance, PTL

\* No exchange is recorded twice or put in the HAR twice.
THEOREM IsWrittenOnce == Spec => []WrittenOnce
  BY Invariance, PTL DEF IInv

\* With both outputs on, every HAR entry has been recorded before.
THEOREM HarIsWithinRecording == Spec => []HarWithinRecording
  BY Invariance, PTL DEF IInv

-----------------------------------------------------------------------------
(* Refinement: each output is the log of ExchangeLog *)

\* The initial state is one of ExchangeLog under either mapping.
LEMMA InitRefines == Init => Recording!Init /\ HarLog!Init
  BY DEF Init, Recording!Init, HarLog!Init

\* A step of the joiner is a step of ExchangeLog or leaves it unchanged.
LEMMA RecordingStep == IInv /\ [Next]_vars => [Recording!Next]_(Recording!vars)
<1> SUFFICES ASSUME IInv, [Next]_vars PROVE [Recording!Next]_(Recording!vars)
  OBVIOUS
<1> USE DEF Recording!Next, Recording!vars
<1>1. ASSUME NEW id \in Ids, NEW v \in Views, addRequest(id, v)
      PROVE  Recording!GiveRequest(id, v)
  BY <1>1 DEF addRequest, outputs, Recording!GiveRequest
<1>2. ASSUME NEW id \in Ids, NEW v \in Views, addResponse(id, v)
      PROVE  Recording!GiveResponse(id, v)
  BY <1>2 DEF addResponse, outputs, Recording!GiveResponse
<1>3. ASSUME NEW id \in Ids, drop(id) PROVE Recording!Abandon(id)
  BY <1>3 DEF drop, outputs, Recording!Abandon
<1>4. ASSUME NEW t \in completing, writeRecord(t)
      PROVE  t.entry.id \in Ids /\ Recording!WriteEntry(t.entry.id)
  <2>1. t.entry \in Entry
    BY EntriesTyped DEF IInv
  <2>2. t.entry = [id |-> t.entry.id, req |-> givenReq[t.entry.id],
                   resp |-> givenResp[t.entry.id]]
    BY <2>1 DEF Entry, IInv, TasksInv, Given
  <2>3. t.entry.id \in Ids /\ Recording!Complete(t.entry.id)
    BY <2>1, AbsentAssumption DEF Entry, IInv, TasksInv, Given, Recording!Complete
  <2>4. t.entry.id \notin Recording!LoggedIds
    BY <1>4 DEF IInv, WrittenOnce, writeRecord, Recording!LoggedIds
  <2> QED
    BY <1>4, <2>2, <2>3, <2>4 DEF writeRecord, history, Recording!WriteEntry
<1>5. ASSUME NEW t \in completing, addHAREntry(t) PROVE UNCHANGED Recording!vars
  BY <1>5 DEF addHAREntry, history
<1>6. CASE UNCHANGED vars
  BY <1>6 DEF vars, outputs, history
<1> QED
  BY <1>1, <1>2, <1>3, <1>4, <1>5, <1>6 DEF Next

LEMMA HarLogStep == IInv /\ [Next]_vars => [HarLog!Next]_(HarLog!vars)
<1> SUFFICES ASSUME IInv, [Next]_vars PROVE [HarLog!Next]_(HarLog!vars)
  OBVIOUS
<1> USE DEF HarLog!Next, HarLog!vars
<1>1. ASSUME NEW id \in Ids, NEW v \in Views, addRequest(id, v)
      PROVE  HarLog!GiveRequest(id, v)
  BY <1>1 DEF addRequest, outputs, HarLog!GiveRequest
<1>2. ASSUME NEW id \in Ids, NEW v \in Views, addResponse(id, v)
      PROVE  HarLog!GiveResponse(id, v)
  BY <1>2 DEF addResponse, outputs, HarLog!GiveResponse
<1>3. ASSUME NEW id \in Ids, drop(id) PROVE HarLog!Abandon(id)
  BY <1>3 DEF drop, outputs, HarLog!Abandon
<1>4. ASSUME NEW t \in completing, writeRecord(t) PROVE UNCHANGED HarLog!vars
  BY <1>4 DEF writeRecord, history
<1>5. ASSUME NEW t \in completing, addHAREntry(t)
      PROVE  t.entry.id \in Ids /\ HarLog!WriteEntry(t.entry.id)
  <2>1. t.entry \in Entry
    BY EntriesTyped DEF IInv
  <2>2. t.entry = [id |-> t.entry.id, req |-> givenReq[t.entry.id],
                   resp |-> givenResp[t.entry.id]]
    BY <2>1 DEF Entry, IInv, TasksInv, Given
  <2>3. t.entry.id \in Ids /\ HarLog!Complete(t.entry.id)
    BY <2>1, AbsentAssumption DEF Entry, IInv, TasksInv, Given, HarLog!Complete
  <2>4. t.entry.id \notin HarLog!LoggedIds
    BY DEF IInv, WrittenOnce, HarLog!LoggedIds
  <2> QED
    BY <1>5, <2>2, <2>3, <2>4 DEF addHAREntry, history, HarLog!WriteEntry
<1>6. CASE UNCHANGED vars
  BY <1>6 DEF vars, outputs, history
<1> QED
  BY <1>1, <1>2, <1>3, <1>4, <1>5, <1>6 DEF Next

\* The recording is a log of the exchanges: each complete exchange at most once,
\* paired from its own halves, and no abandoned one.
THEOREM RecordingIsALog == Spec => RecordingSpec
  BY InitRefines, RecordingStep, Invariance, PTL DEF Spec, RecordingSpec, Recording!Spec

\* And so is the list of HAR entries.
THEOREM HarIsALog == Spec => HarLogSpec
  BY InitRefines, HarLogStep, Invariance, PTL DEF Spec, HarLogSpec, HarLog!Spec

-----------------------------------------------------------------------------
(* No pair is lost on its way to the outputs *)

\* An exchange whose two halves have been given is in the recording or about to be
\* written there, and in the HAR entries or in the hands of a goroutine that will
\* put it there: nothing drops a pair between the maps and the outputs
\* (exchange.go:96-104, main.go:422-431).
NothingLost ==
  \A e \in Ids :
    (givenReq[e] # Absent /\ givenResp[e] # Absent) =>
      /\ recordMode => \/ Captured(recorded, e)
                       \/ \E t \in completing : t.entry.id = e /\ t.next = "record"
      /\ harMode => Captured(har, e) \/ HandingOver(e)

\* What is captured stays captured when an entry is appended, which is captured too.
LEMMA CapturedAppend ==
  ASSUME NEW s \in Seq(Entry), NEW n \in Entry, NEW e, Captured(s, e) \/ n.id = e
  PROVE  Captured(Append(s, n), e)
<1>1. /\ Len(Append(s, n)) = Len(s) + 1 /\ Len(s) \in Nat
      /\ Append(s, n)[Len(s) + 1] = n
      /\ \A i \in 1 .. Len(s) : Append(s, n)[i] = s[i]
  BY AppendProperties, LenProperties
<1> QED
  BY <1>1 DEF Captured

\* A call to the joiner loses no pair.
LEMMA CallLosesNothing ==
  ASSUME IInv, NothingLost, NEW id \in Ids,
         drop(id) \/ \E v \in Views : addRequest(id, v) \/ addResponse(id, v)
  PROVE  NothingLost'
<1> SUFFICES ASSUME NEW e \in Ids, givenReq'[e] # Absent, givenResp'[e] # Absent
             PROVE  /\ recordMode => \/ Captured(recorded', e)
                                     \/ \E t \in completing' : t.entry.id = e /\ t.next = "record"
                    /\ harMode => Captured(har', e) \/ \E t \in completing' : t.entry.id = e
  BY DEF NothingLost, HandingOver
<1>1. recorded' = recorded /\ har' = har /\ completing \subseteq completing'
  BY DEF addRequest, addResponse, drop, outputs
<1>2. CASE givenReq[e] # Absent /\ givenResp[e] # Absent
  BY <1>1, <1>2 DEF NothingLost, HandingOver
<1>3. CASE givenReq[e] = Absent
  <2>1. PICK v \in Views : e = id /\ addRequest(id, v) /\ givenResp[id] # Absent
    BY <1>3 DEF IInv, TypeOK, addRequest, addResponse, drop
  <2> DEFINE new == completeExchange(id, v, resps[id])
  <2>2. new \in completing'
    BY <1>3, <2>1 DEF IInv, MapsInv, addRequest
  <2>3. new.entry.id = id /\ (recordMode => new.next = "record")
    BY DEF completeExchange
  <2> HIDE DEF new
  <2> QED
    BY <2>1, <2>2, <2>3
<1>4. CASE givenReq[e] # Absent /\ givenResp[e] = Absent
  <2>1. PICK v \in Views : e = id /\ addResponse(id, v) /\ id \notin abandoned
    BY <1>4 DEF IInv, TypeOK, addRequest, addResponse, drop
  <2> DEFINE new == completeExchange(id, reqs[id], v)
  <2>2. new \in completing'
    BY <1>4, <2>1 DEF IInv, MapsInv, addResponse
  <2>3. new.entry.id = id /\ (recordMode => new.next = "record")
    BY DEF completeExchange
  <2> HIDE DEF new
  <2> QED
    BY <2>1, <2>2, <2>3
<1> QED
  BY <1>2, <1>3, <1>4

\* Nor does either of the two writes.
LEMMA WriteLosesNothing ==
  ASSUME IInv, NothingLost, NEW t \in completing, writeRecord(t) \/ addHAREntry(t)
  PROVE  NothingLost'
<1> SUFFICES ASSUME NEW e \in Ids, givenReq'[e] # Absent, givenResp'[e] # Absent
             PROVE  /\ recordMode => \/ Captured(recorded', e)
                                     \/ \E u \in completing' : u.entry.id = e /\ u.next = "record"
                    /\ harMode => Captured(har', e) \/ \E u \in completing' : u.entry.id = e
  BY DEF NothingLost, HandingOver
<1>1. t.entry \in Entry /\ recorded \in Seq(Entry) /\ har \in Seq(Entry)
  BY EntriesTyped DEF IInv, TypeOK
<1>2. givenReq[e] # Absent /\ givenResp[e] # Absent
  BY DEF writeRecord, addHAREntry, history
<1>3. CASE writeRecord(t)
  <2> DEFINE hand == [t EXCEPT !.next = "har"]
  <2>1. hand.entry = t.entry
    BY DEF IInv, TypeOK, Task
  <2>2. \A u \in completing : u # t => u \in completing'
    BY <1>3 DEF writeRecord
  <2>3. harMode => hand \in completing'
    BY <1>3 DEF writeRecord
  <2>4. har' = har /\ recorded' = Append(recorded, t.entry)
    BY <1>3 DEF writeRecord
  <2>5. Captured(recorded, e) \/ t.entry.id = e => Captured(recorded', e)
    BY <1>1, <2>4, CapturedAppend
  <2>6. (\E u \in completing : u.entry.id = e /\ u.next = "record") =>
          t.entry.id = e \/ \E u \in completing' : u.entry.id = e /\ u.next = "record"
    BY <2>2
  <2>7. harMode /\ (\E u \in completing : u.entry.id = e) => \E u \in completing' : u.entry.id = e
    BY <2>1, <2>2, <2>3
  <2> HIDE DEF hand
  <2> QED
    BY <1>2, <2>4, <2>5, <2>6, <2>7 DEF NothingLost, HandingOver
<1>4. CASE addHAREntry(t)
  <2>1. completing' = completing \ {t} /\ t.next = "har"
    BY <1>4 DEF addHAREntry
  <2>2. recorded' = recorded /\ har' = Append(har, t.entry)
    BY <1>4 DEF addHAREntry
  <2>3. Captured(har, e) \/ t.entry.id = e => Captured(har', e)
    BY <1>1, <2>2, CapturedAppend
  <2> QED
    BY <1>2, <2>1, <2>2, <2>3 DEF NothingLost, HandingOver
<1> QED
  BY <1>3, <1>4

\* No complete exchange is lost, in whatever order its halves came and whatever
\* the goroutines handing over others do meanwhile.
THEOREM NothingIsLost == Spec => []NothingLost
<1>1. Init => NothingLost
  BY DEF Init, NothingLost
<1>2. IInv /\ NothingLost /\ [Next]_vars => NothingLost'
  <2> SUFFICES ASSUME IInv, NothingLost, [Next]_vars PROVE NothingLost'
    OBVIOUS
  <2>1. ASSUME NEW id \in Ids, NEW v \in Views, addRequest(id, v) \/ addResponse(id, v)
        PROVE  NothingLost'
    BY <2>1, CallLosesNothing
  <2>2. ASSUME NEW id \in Ids, drop(id) PROVE NothingLost'
    BY <2>2, CallLosesNothing
  <2>3. ASSUME NEW t \in completing, writeRecord(t) \/ addHAREntry(t) PROVE NothingLost'
    BY <2>3, WriteLosesNothing
  <2>4. CASE UNCHANGED vars
    BY <2>4 DEF vars, outputs, history, NothingLost, Captured, HandingOver
  <2> QED
    BY <2>1, <2>2, <2>3, <2>4 DEF Next
<1> QED
  BY <1>1, <1>2, Invariance, PTL DEF Spec

-----------------------------------------------------------------------------
(* Forward calls the joiner by its protocol *)

\* The types that each step keeps by itself.  What ForwardTypeOK adds, that start
\* times and notes of order are those of logged exchanges and that the count in
\* flight is a number, follows from HandlerInv, CallsInv and DrainInv.
FTypes ==
  /\ TypeOK
  /\ pc \in [Ids -> {"idle", "logRequest", "newRequest", "roundTrip", "logResponse",
                     "endBlock", "head", "copy", "return", "done"}]
  /\ logged \subseteq Ids /\ requestFirst \subseteq Ids
  /\ reqKind \in [Ids -> ReqKinds \cup {"none"}]
  /\ reqBody \in [Ids -> {"none", "NoBody", "raw", "sampled"}]
  /\ transport \in [Ids -> {"none", "reading", "block", "done"}]
  /\ respKind \in [Ids -> RespKinds \cup {"none"}]
  /\ respEnd \in [Ids -> {"none", "eof", "err", "clientGone"}]
  /\ client \in [Ids -> {"waiting", "500", "502", "gone", "broken", "complete"}]
  /\ reqStartTimes \subseteq Ids
  /\ textOut \in [Ids -> Seq({"REQUEST", "BODY", "RESPONSE", "END"})]
  /\ main \in {"running", "draining", "writeHAR", "cleanup", "gone"}
  /\ owed \subseteq Ids /\ timedOut \in BOOLEAN
  /\ harFile \in Seq(Entry)

\* The main goroutine touches no exchange and makes no call.
LEMMA MainStep ==
  ASSUME Main
  PROVE  /\ UNCHANGED <<reqs, resps, dropped, completing, recorded, har>>
         /\ UNCHANGED <<givenReq, givenResp, abandoned, pc, logged, reqKind, reqBody>>
         /\ UNCHANGED <<transport, respKind, respEnd, client, requestFirst>>
         /\ UNCHANGED <<reqStartTimes, inflight, textOut>>
  BY DEF Main, CommandExits, drainInflight, finishHAR, Exit, vars, maps, outputs, history,
         exchangeVars

\* A view that a sampler reports is a half.
LEMMA ViewsReported == /\ whole \in Views /\ cut \in Views
                       /\ \A e, how : ReportedViews(e, how) \subseteq Views
  BY ViewsAssumption DEF ReportedViews

\* Whatever a step of Forward is, for the joiner it is one of its calls, one of the
\* writes of completeExchange, or nothing.
LEMMA JoinerStep == [ForwardNext]_forwardVars => [Next]_vars
<1> SUFFICES ASSUME ForwardNext PROVE [Next]_vars
  BY DEF forwardVars
<1>1. CASE Main
  BY <1>1, MainStep DEF vars, maps, outputs, history
<1>2. ASSUME NEW e \in Ids, NEW v \in Views, addRequest(e, v) PROVE [Next]_vars
  BY <1>2 DEF Next
<1>3. ASSUME NEW e \in Ids, NEW v \in Views, addResponse(e, v) PROVE [Next]_vars
  BY <1>3 DEF Next
<1>4. ASSUME NEW e \in Ids, Handler(e) PROVE [Next]_vars
  <2>1. CASE \E kind \in ReqKinds, shouldLog \in BOOLEAN : Begin(e, kind, shouldLog)
    BY <2>1 DEF Begin
  <2>2. CASE logRequest(e)
    BY <2>2, <1>2, ViewsReported DEF logRequest
  <2>3. CASE Send(e) \/ EmitHead(e) \/ EmitEnd(e) \/ Return(e)
    BY <2>3 DEF Send, EmitHead, EmitEnd, Return
  <2>4. CASE logResponse(e)
    BY <2>4, <1>3, ViewsReported DEF logResponse, onResponseBody
  <2>5. CASE NewRequestFails(e) \/ DoFails(e)
    BY <2>5 DEF NewRequestFails, DoFails, Fails, discardReqID, Next
  <2>6. CASE \E kind \in RespKinds : DoReturns(e, kind)
    BY <2>6 DEF DoReturns
  <2>7. CASE \E how \in {"eof", "err", "clientGone"} : CopyEnds(e, how)
    BY <2>7, <1>3, ViewsReported DEF CopyEnds, onResponseBody
  <2> QED
    BY <1>4, <2>1, <2>2, <2>3, <2>4, <2>5, <2>6, <2>7 DEF Handler, OwnStep
<1>5. ASSUME NEW e \in Ids, Transport(e) PROVE [Next]_vars
  BY <1>5, <1>2, ViewsReported DEF Transport, RequestBodyEnds, EmitRequestBody
<1>6. ASSUME NEW e \in Ids, HandOver(e) PROVE [Next]_vars
  BY <1>6 DEF HandOver, Next
<1> QED
  BY <1>1, <1>4, <1>5, <1>6 DEF ForwardNext

\* The program is one of the callers the joiner was written for: what is proved of
\* the joiner under any of them holds in it, in whatever order handlers, transports
\* and the main goroutine run (main.go:422-431).
THEOREM ForwardImplementsJoiner == ForwardSpec => Spec
<1>1. ForwardInit => Init
  BY DEF ForwardInit
<1> QED
  BY <1>1, JoinerStep, PTL DEF ForwardSpec, Spec

\* Its consequences for the program.
COROLLARY ForwardKeepsJoiner ==
  ForwardSpec => /\ [](NothingParkedForever /\ HarWithinRecording /\ NothingLost)
                 /\ RecordingSpec /\ HarLogSpec
  BY ForwardImplementsJoiner, NothingIsParkedForever, HarIsWithinRecording, NothingIsLost,
     RecordingIsALog, HarIsALog, PTL

-----------------------------------------------------------------------------
(* Where a handler and its transport stand *)

\* What the steps of the handler of e have done by the time it is at pc[e]: whether
\* there is a response, what has become of the request body, and that a start time
\* is on file from logRequest to logResponse, or to the failure.
HandlerInv ==
  \A e \in Ids :
    /\ pc[e] \in {"idle", "logRequest", "newRequest", "roundTrip"} => respKind[e] = "none"
    /\ pc[e] \in {"logResponse", "head", "copy", "endBlock"} => respKind[e] # "none"
    /\ pc[e] \in {"logRequest", "logResponse", "head", "endBlock"} => e \in logged
    /\ pc[e] = "idle" => e \notin logged /\ reqBody[e] = "none"
    /\ reqBody[e] = "sampled" => e \in logged /\ pc[e] # "logRequest"
    /\ (e \in logged /\ pc[e] # "logRequest") => reqBody[e] \in {"NoBody", "sampled"}
    /\ (pc[e] # "idle" /\ reqKind[e] \in {"NoBody", "h2Empty"}) => reqBody[e] = "NoBody"
    /\ e \in reqStartTimes <=>
         e \in logged /\ pc[e] \in {"newRequest", "roundTrip", "logResponse"}

\* The transport begins when the handler sends, and has nothing to read or to report
\* of an absent body; a response means that it has begun.
TransportInv ==
  \A e \in Ids :
    /\ pc[e] \in {"idle", "logRequest", "newRequest"} => transport[e] = "none"
    /\ transport[e] = "none" => respKind[e] = "none" /\ pc[e] # "roundTrip"
    /\ reqBody[e] = "NoBody" => transport[e] \in {"none", "done"}
    /\ transport[e] = "block" => reqBody[e] = "sampled"

-----------------------------------------------------------------------------

\* One step keeps the types.
LEMMA FTypesStep ==
  FTypes /\ [ForwardNext]_forwardVars => FTypes'
<1> SUFFICES ASSUME FTypes, [ForwardNext]_forwardVars PROVE FTypes'
  OBVIOUS
<1> USE DEF FTypes, mainVars
<1>0. TypeOK'
  BY JoinerStep, TypeStep
<1> HIDE DEF TypeOK
<1>1. ASSUME NEW e \in Ids, NEW kind \in ReqKinds, NEW shouldLog \in BOOLEAN, Begin(e, kind, shouldLog)
      PROVE  FTypes'
  BY <1>1, <1>0 DEF Begin, Step
<1>2. ASSUME NEW e \in Ids, logRequest(e) PROVE FTypes'
  BY <1>2, <1>0 DEF logRequest, Step, emitText
<1>3. ASSUME NEW e \in Ids, NewRequestFails(e) \/ DoFails(e) PROVE FTypes'
  <2>1. reqStartTimes' \subseteq reqStartTimes
    BY <1>3 DEF NewRequestFails, DoFails, Fails, discardReqID
  <2> QED
    BY <1>3, <1>0, <2>1 DEF NewRequestFails, DoFails, Fails, Step
<1>4. ASSUME NEW e \in Ids, Send(e) PROVE FTypes'
  BY <1>4, <1>0 DEF Send, Step
<1>5. ASSUME NEW e \in Ids, NEW kind \in RespKinds, DoReturns(e, kind) PROVE FTypes'
  BY <1>5, <1>0 DEF DoReturns, Step
<1>6. ASSUME NEW e \in Ids, logResponse(e) PROVE FTypes'
  BY <1>6, <1>0 DEF logResponse, Step, onResponseBody
<1>7. ASSUME NEW e \in Ids, EmitHead(e) PROVE FTypes'
  BY <1>7, <1>0 DEF EmitHead, Step, emitText
<1>8. ASSUME NEW e \in Ids, NEW how \in {"eof", "err", "clientGone"}, CopyEnds(e, how)
      PROVE  FTypes'
  BY <1>8, <1>0 DEF CopyEnds, Step, onResponseBody
<1>9. ASSUME NEW e \in Ids, EmitEnd(e) PROVE FTypes'
  BY <1>9, <1>0 DEF EmitEnd, Step, emitText
<1>10. ASSUME NEW e \in Ids, Return(e) PROVE FTypes'
  BY <1>10, <1>0 DEF Return, Step, ClientSees
<1>11. ASSUME NEW e \in Ids, NEW v \in {whole, cut}, RequestBodyEnds(e, v) PROVE FTypes'
  BY <1>11, <1>0 DEF RequestBodyEnds
<1>12. ASSUME NEW e \in Ids, EmitRequestBody(e) PROVE FTypes'
  BY <1>12, <1>0 DEF EmitRequestBody, emitText
<1>13. ASSUME NEW e \in Ids, HandOver(e) PROVE FTypes'
  BY <1>13, <1>0 DEF HandOver, exchangeVars
<1>14. CASE Main
  <2>1. har \in Seq(Entry) /\ <<>> \in Seq(Entry)
    BY DEF TypeOK
  <2> QED
    BY <1>14, <1>0, <2>1, MainStep DEF Main, CommandExits, drainInflight, finishHAR, Exit
<1>15. CASE UNCHANGED forwardVars
  BY <1>15, <1>0 DEF forwardVars, exchangeVars
<1> QED
  BY <1>1, <1>2, <1>3, <1>4, <1>5, <1>6, <1>7, <1>8, <1>9, <1>10, <1>11, <1>12, <1>13,
     <1>14, <1>15 DEF ForwardNext, Handler, OwnStep, Transport

\* Each step keeps HandlerInv.
LEMMA HandlerStep ==
  FTypes /\ HandlerInv /\ [ForwardNext]_forwardVars => HandlerInv'
<1> SUFFICES ASSUME FTypes, HandlerInv, [ForwardNext]_forwardVars PROVE HandlerInv'
  OBVIOUS
<1> USE DEF FTypes, HandlerInv
<1>1. ASSUME NEW e \in Ids, NEW kind \in ReqKinds, NEW shouldLog \in BOOLEAN, Begin(e, kind, shouldLog)
      PROVE  HandlerInv'
  BY <1>1 DEF Begin, Step
<1>2. ASSUME NEW e \in Ids, logRequest(e) PROVE HandlerInv'
  BY <1>2 DEF logRequest, Step
<1>3. ASSUME NEW e \in Ids, NewRequestFails(e) \/ DoFails(e) PROVE HandlerInv'
  BY <1>3 DEF NewRequestFails, DoFails, Fails, Step, discardReqID
<1>4. ASSUME NEW e \in Ids, Send(e) PROVE HandlerInv'
  BY <1>4 DEF Send, Step
<1>5. ASSUME NEW e \in Ids, NEW kind \in RespKinds, DoReturns(e, kind) PROVE HandlerInv'
  <2>1. kind # "none"
    BY RespKindsAssumption
  <2>2. CASE e \in logged
    BY <1>5, <2>1, <2>2 DEF DoReturns, Step
  <2>3. CASE e \notin logged
    BY <1>5, <2>1, <2>3 DEF DoReturns, Step
  <2> QED
    BY <2>2, <2>3
<1>6. ASSUME NEW e \in Ids, logResponse(e) PROVE HandlerInv'
  BY <1>6 DEF logResponse, Step
<1>7. ASSUME NEW e \in Ids, EmitHead(e) PROVE HandlerInv'
  BY <1>7 DEF EmitHead, Step
<1>8. ASSUME NEW e \in Ids, NEW how \in {"eof", "err", "clientGone"}, CopyEnds(e, how)
      PROVE  HandlerInv'
  BY <1>8 DEF CopyEnds, Step
<1>9. ASSUME NEW e \in Ids, EmitEnd(e) PROVE HandlerInv'
  BY <1>9 DEF EmitEnd, Step
<1>10. ASSUME NEW e \in Ids, Return(e) PROVE HandlerInv'
  BY <1>10 DEF Return, Step
<1>11. ASSUME NEW e \in Ids, NEW v \in {whole, cut}, RequestBodyEnds(e, v) PROVE HandlerInv'
  BY <1>11 DEF RequestBodyEnds
<1>12. ASSUME NEW e \in Ids, EmitRequestBody(e) PROVE HandlerInv'
  BY <1>12 DEF EmitRequestBody
<1>13. ASSUME NEW e \in Ids, HandOver(e) PROVE HandlerInv'
  BY <1>13 DEF HandOver, exchangeVars
<1>14. CASE Main
  BY <1>14, MainStep
<1>15. CASE UNCHANGED forwardVars
  BY <1>15 DEF forwardVars, exchangeVars
<1> QED
  BY <1>1, <1>2, <1>3, <1>4, <1>5, <1>6, <1>7, <1>8, <1>9, <1>10, <1>11, <1>12, <1>13,
     <1>14, <1>15 DEF ForwardNext, Handler, OwnStep, Transport

\* And TransportInv.
LEMMA TransportStep ==
  FTypes /\ HandlerInv /\ TransportInv /\ [ForwardNext]_forwardVars => TransportInv'
<1> SUFFICES ASSUME FTypes, HandlerInv, TransportInv, [ForwardNext]_forwardVars PROVE TransportInv'
  OBVIOUS
<1> USE DEF FTypes, HandlerInv, TransportInv
<1>1. ASSUME NEW e \in Ids, NEW kind \in ReqKinds, NEW shouldLog \in BOOLEAN, Begin(e, kind, shouldLog)
      PROVE  TransportInv'
  BY <1>1 DEF Begin, Step
<1>2. ASSUME NEW e \in Ids, logRequest(e) PROVE TransportInv'
  BY <1>2 DEF logRequest, Step
<1>3. ASSUME NEW e \in Ids, NewRequestFails(e) \/ DoFails(e) PROVE TransportInv'
  BY <1>3 DEF NewRequestFails, DoFails, Fails, Step, discardReqID
<1>4. ASSUME NEW e \in Ids, Send(e) PROVE TransportInv'
  BY <1>4 DEF Send, Step
<1>5. ASSUME NEW e \in Ids, NEW kind \in RespKinds, DoReturns(e, kind) PROVE TransportInv'
  <2>1. kind # "none"
    BY RespKindsAssumption
  <2>2. CASE e \in logged
    BY <1>5, <2>1, <2>2 DEF DoReturns, Step
  <2>3. CASE e \notin logged
    BY <1>5, <2>1, <2>3 DEF DoReturns, Step
  <2> QED
    BY <2>2, <2>3
<1>6. ASSUME NEW e \in Ids, logResponse(e) PROVE TransportInv'
  BY <1>6 DEF logResponse, Step
<1>7. ASSUME NEW e \in Ids, EmitHead(e) PROVE TransportInv'
  BY <1>7 DEF EmitHead, Step
<1>8. ASSUME NEW e \in Ids, NEW how \in {"eof", "err", "clientGone"}, CopyEnds(e, how)
      PROVE  TransportInv'
  BY <1>8 DEF CopyEnds, Step
<1>9. ASSUME NEW e \in Ids, EmitEnd(e) PROVE TransportInv'
  BY <1>9 DEF EmitEnd, Step
<1>10. ASSUME NEW e \in Ids, Return(e) PROVE TransportInv'
  BY <1>10 DEF Return, Step
<1>11. ASSUME NEW e \in Ids, NEW v \in {whole, cut}, RequestBodyEnds(e, v) PROVE TransportInv'
  BY <1>11 DEF RequestBodyEnds
<1>12. ASSUME NEW e \in Ids, EmitRequestBody(e) PROVE TransportInv'
  BY <1>12 DEF EmitRequestBody
<1>13. ASSUME NEW e \in Ids, HandOver(e) PROVE TransportInv'
  BY <1>13 DEF HandOver, exchangeVars
<1>14. CASE Main
  BY <1>14, MainStep
<1>15. CASE UNCHANGED forwardVars
  BY <1>15 DEF forwardVars, exchangeVars
<1> QED
  BY <1>1, <1>2, <1>3, <1>4, <1>5, <1>6, <1>7, <1>8, <1>9, <1>10, <1>11, <1>12, <1>13,
     <1>14, <1>15 DEF ForwardNext, Handler, OwnStep, Transport

-----------------------------------------------------------------------------
(* The calls made *)

\* The handler of e has ended without a response, or is about to.
Failed(e) == respKind[e] = "none" /\ pc[e] \in {"return", "done"}

\* The response half of a logged e has been given: in logResponse if there is no
\* body to wait for, else when the copy ends.
Answered(e) ==
  IF respKind[e] = "NoBody"
    THEN pc[e] \in {"endBlock", "head", "copy", "return", "done"}
    ELSE respKind[e] # "none" /\ pc[e] \in {"endBlock", "return", "done"}

\* The request half has: in logRequest if there is no body, else when the transport
\* is done with it.
RequestGiven(e) == /\ e \in logged /\ pc[e] # "logRequest"
                   /\ reqBody[e] = "NoBody" \/ transport[e] \in {"block", "done"}

\* The calls made for e are those.
CallsInv ==
  \A e \in Ids :
    /\ givenReq[e] # Absent <=> RequestGiven(e)
    /\ givenResp[e] # Absent <=> e \in logged /\ Answered(e)
    /\ e \in abandoned <=> e \in logged /\ Failed(e)
    /\ e \in requestFirst => givenReq[e] # Absent /\ givenResp[e] # Absent

-----------------------------------------------------------------------------

\* What a call adds to the history of calls.
LEMMA CallEffect ==
  ASSUME NEW e \in Ids, NEW v \in Views
  PROVE  /\ v # Absent
         /\ addRequest(e, v) => /\ givenReq' = [givenReq EXCEPT ![e] = v]
                                /\ givenResp' = givenResp /\ abandoned' = abandoned
         /\ addResponse(e, v) => /\ givenResp' = [givenResp EXCEPT ![e] = v]
                                 /\ givenReq' = givenReq /\ abandoned' = abandoned
         /\ drop(e) => /\ abandoned' = abandoned \cup {e}
                       /\ givenReq' = givenReq /\ givenResp' = givenResp
  BY AbsentAssumption DEF addRequest, addResponse, drop

\* Steps that call nobody.
LEMMA NoCall ==
  ASSUME UNCHANGED vars
  PROVE  givenReq' = givenReq /\ givenResp' = givenResp /\ abandoned' = abandoned
  BY DEF vars, history

\* Each step keeps CallsInv.
LEMMA CallsStep ==
  FTypes /\ HandlerInv /\ TransportInv /\ CallsInv /\ [ForwardNext]_forwardVars => CallsInv'
<1> SUFFICES ASSUME FTypes, HandlerInv, TransportInv, CallsInv, [ForwardNext]_forwardVars PROVE CallsInv'
  OBVIOUS
<1> USE DEF FTypes, HandlerInv, TransportInv, CallsInv, TypeOK, Failed, Answered, RequestGiven
<1>1. ASSUME NEW e \in Ids, NEW kind \in ReqKinds, NEW shouldLog \in BOOLEAN, Begin(e, kind, shouldLog)
      PROVE  CallsInv'
  BY <1>1, NoCall DEF Begin, Step
<1>2. ASSUME NEW e \in Ids, logRequest(e) PROVE CallsInv'
  <2>1. CASE addRequest(e, whole) /\ reqBody[e] = "NoBody"
    BY <1>2, <2>1, CallEffect, ViewsReported DEF logRequest, Step
  <2>2. CASE reqBody[e] # "NoBody" /\ UNCHANGED vars
    BY <1>2, <2>2, NoCall DEF logRequest, Step
  <2> QED
    BY <1>2, <2>1, <2>2 DEF logRequest
<1>3. ASSUME NEW e \in Ids, NewRequestFails(e) \/ DoFails(e) PROVE CallsInv'
  <2>1. respKind[e] = "none" /\ pc' = [pc EXCEPT ![e] = "return"] /\ pc[e] # "logRequest"
    BY <1>3 DEF NewRequestFails, DoFails, Fails, Step
  <2>2. CASE e \in logged
    <3>1. drop(e)
      BY <1>3, <2>2 DEF NewRequestFails, DoFails, Fails, discardReqID
    <3> QED
      BY <1>3, <2>1, <2>2, <3>1, CallEffect, ViewsReported DEF NewRequestFails, DoFails, Fails
  <2>3. CASE e \notin logged
    BY <1>3, <2>1, <2>3, NoCall DEF NewRequestFails, DoFails, Fails
  <2> QED
    BY <2>2, <2>3
<1>4. ASSUME NEW e \in Ids, Send(e) PROVE CallsInv'
  BY <1>4, NoCall DEF Send, Step
<1>5. ASSUME NEW e \in Ids, NEW kind \in RespKinds, DoReturns(e, kind) PROVE CallsInv'
  <2>1. kind # "none"
    BY RespKindsAssumption
  <2>2. CASE e \in logged
    BY <1>5, <2>1, <2>2, NoCall DEF DoReturns, Step
  <2>3. CASE e \notin logged
    BY <1>5, <2>1, <2>3, NoCall DEF DoReturns, Step
  <2> QED
    BY <2>2, <2>3
<1>6. ASSUME NEW e \in Ids, logResponse(e) PROVE CallsInv'
  <2>1. CASE respKind[e] = "NoBody"
    BY <1>6, <2>1, CallEffect, ViewsReported DEF logResponse, Step, onResponseBody
  <2>2. CASE respKind[e] # "NoBody"
    BY <1>6, <2>2, NoCall DEF logResponse, Step
  <2> QED
    BY <2>1, <2>2
<1>7. ASSUME NEW e \in Ids, EmitHead(e) PROVE CallsInv'
  BY <1>7, NoCall DEF EmitHead, Step
<1>8. ASSUME NEW e \in Ids, NEW how \in {"eof", "err", "clientGone"}, CopyEnds(e, how) PROVE CallsInv'
  <2>1. CASE e \in logged /\ respKind[e] # "NoBody"
    <3>1. Step(e, "copy", "endBlock") /\ \E v \in Views : onResponseBody(e, v)
      BY <1>8, <2>1, ViewsReported DEF CopyEnds
    <3> QED
      BY <1>8, <2>1, <3>1, CallEffect DEF CopyEnds, Step, onResponseBody
  <2>2. CASE e \notin logged \/ respKind[e] = "NoBody"
    BY <1>8, <2>2, NoCall DEF CopyEnds, Step
  <2> QED
    BY <2>1, <2>2
<1>9. ASSUME NEW e \in Ids, EmitEnd(e) PROVE CallsInv'
  BY <1>9, NoCall DEF EmitEnd, Step
<1>10. ASSUME NEW e \in Ids, Return(e) PROVE CallsInv'
  BY <1>10, NoCall DEF Return, Step
<1>11. ASSUME NEW e \in Ids, NEW v \in {whole, cut}, RequestBodyEnds(e, v) PROVE CallsInv'
  <2>1. CASE reqBody[e] = "sampled"
    <3>1. addRequest(e, v) /\ v \in Views
      BY <1>11, <2>1, ViewsReported DEF RequestBodyEnds
    <3> QED
      BY <1>11, <2>1, <3>1, CallEffect DEF RequestBodyEnds
  <2>2. CASE reqBody[e] # "sampled"
    BY <1>11, <2>2, NoCall DEF RequestBodyEnds
  <2> QED
    BY <2>1, <2>2
<1>12. ASSUME NEW e \in Ids, EmitRequestBody(e) PROVE CallsInv'
  BY <1>12, NoCall DEF EmitRequestBody
<1>13. ASSUME NEW e \in Ids, HandOver(e) PROVE CallsInv'
  BY <1>13 DEF HandOver, exchangeVars, writeRecord, addHAREntry, history
<1>14. CASE Main
  BY <1>14, MainStep
<1>15. CASE UNCHANGED forwardVars
  BY <1>15 DEF forwardVars, exchangeVars, vars, history
<1> QED
  BY <1>1, <1>2, <1>3, <1>4, <1>5, <1>6, <1>7, <1>8, <1>9, <1>10, <1>11, <1>12, <1>13,
     <1>14, <1>15 DEF ForwardNext, Handler, OwnStep, Transport

-----------------------------------------------------------------------------
(* The text of an exchange *)

\* The closing rule of e has been printed: before the head if there is no body.
Closed(e) ==
  IF respKind[e] = "NoBody"
    THEN pc[e] \in {"head", "copy", "return", "done"}
    ELSE respKind[e] # "none" /\ pc[e] \in {"return", "done"}

\* The status line and the headers of the response have been printed.
Headed(e) ==
  IF respKind[e] = "NoBody"
    THEN pc[e] \in {"copy", "return", "done"}
    ELSE respKind[e] # "none" /\ pc[e] \in {"copy", "endBlock", "return", "done"}

\* Each block is printed once, and there exactly from the step that prints it on.
TextOf(e) ==
  /\ \A i, j \in 1 .. Len(textOut[e]) : textOut[e][i] = textOut[e][j] => i = j
  /\ textOut[e] # <<>> => Head(textOut[e]) = "REQUEST"
  /\ "REQUEST" \in Printed(e) <=> e \in logged /\ pc[e] # "logRequest"
  /\ "BODY" \in Printed(e) <=> reqBody[e] = "sampled" /\ transport[e] = "done"
  /\ "RESPONSE" \in Printed(e) <=> e \in logged /\ Headed(e)
  /\ "END" \in Printed(e) <=> e \in logged /\ Closed(e)
  /\ respKind[e] # "NoBody" => Before(e, "RESPONSE", "END")

TextInv == \A e \in Ids : TextOf(e)

Blocks == {"REQUEST", "BODY", "RESPONSE", "END"}

-----------------------------------------------------------------------------

\* What one more block, not printed so far, makes of the text of its exchange.
LEMMA Emitted ==
  ASSUME FTypes, NEW e \in Ids, NEW b \in Blocks, b \notin Printed(e), TextOf(e),
         emitText(e, b)
  PROVE  /\ \A k \in Ids \ {e} : textOut'[k] = textOut[k]
         /\ Printed(e)' = Printed(e) \cup {b}
         /\ \A i, j \in 1 .. Len(textOut'[e]) : textOut'[e][i] = textOut'[e][j] => i = j
         /\ "REQUEST" \in Printed(e) \/ b = "REQUEST" => Head(textOut'[e]) = "REQUEST"
         /\ \A a, c \in Blocks :
              (Before(e, a, c) /\ (b = a => c \notin Printed(e)) /\ a # c) => Before(e, a, c)'
<1> DEFINE s == textOut[e]
           n == Len(s)
<1>1. s \in Seq(Blocks) /\ n \in Nat
  BY LenProperties DEF FTypes, Blocks
<1>2. textOut' = [textOut EXCEPT ![e] = Append(s, b)]
  BY DEF emitText
<1>3. textOut'[e] = Append(s, b) /\ \A k \in Ids \ {e} : textOut'[k] = textOut[k]
  BY <1>2 DEF FTypes
<1>4. /\ Len(textOut'[e]) = n + 1 /\ textOut'[e][n + 1] = b
      /\ \A i \in 1 .. n : textOut'[e][i] = s[i]
  BY <1>1, <1>3, AppendProperties
<1>5. \A i \in 1 .. n : s[i] # b
  BY DEF Printed
<1>6. Printed(e)' = Printed(e) \cup {b}
  BY <1>1, <1>4 DEF Printed
<1>7. \A i, j \in 1 .. n + 1 : textOut'[e][i] = textOut'[e][j] => i = j
  <2>1. \A i, j \in 1 .. n : s[i] = s[j] => i = j
    BY DEF TextOf
  <2>2. \A i \in 1 .. n + 1 : i \in 1 .. n \/ i = n + 1
    BY <1>1
  <2> HIDE DEF s, n
  <2> QED
    BY <1>4, <1>5, <2>1, <2>2
<1>8. "REQUEST" \in Printed(e) \/ b = "REQUEST" => Head(textOut'[e]) = "REQUEST"
  <2>1. s # <<>> => Head(textOut'[e]) = Head(s)
    BY <1>1, <1>3
  <2>2. s = <<>> => Head(textOut'[e]) = b
    BY <1>1, <1>3
  <2>3. "REQUEST" \in Printed(e) => s # <<>>
    BY DEF Printed
  <2> QED
    BY <2>1, <2>2, <2>3 DEF TextOf
<1>9. ASSUME NEW a \in Blocks, NEW c \in Blocks, Before(e, a, c),
             b = a => c \notin Printed(e), a # c
      PROVE  Before(e, a, c)'
  BY <1>1, <1>4, <1>5, <1>9 DEF Before, Printed
<1> QED
  BY <1>3, <1>4, <1>6, <1>7, <1>8, <1>9

\* A step that touches no other exchange than e keeps the texts of the others in order.
LEMMA TextElsewhere ==
  ASSUME NEW e, TextInv,
         \A k \in Ids \ {e} : /\ k \in logged' <=> k \in logged
                              /\ pc'[k] = pc[k] /\ reqBody'[k] = reqBody[k]
                              /\ transport'[k] = transport[k] /\ respKind'[k] = respKind[k]
                              /\ textOut'[k] = textOut[k]
  PROVE  \A k \in Ids \ {e} : TextOf(k)'
<1> SUFFICES ASSUME NEW k \in Ids \ {e} PROVE TextOf(k)'
  OBVIOUS
<1>1. TextOf(k)
  BY DEF TextInv
<1> QED
  BY <1>1 DEF TextOf, Printed, Before, Headed, Closed

\* Nor does e lose its own if nothing is printed and nothing changes that says what
\* ought to be.
LEMMA TextSame ==
  ASSUME NEW e \in Ids, TextInv, textOut' = textOut,
         (e \in logged' /\ pc'[e] # "logRequest") <=> (e \in logged /\ pc[e] # "logRequest"),
         (reqBody'[e] = "sampled" /\ transport'[e] = "done") <=>
           (reqBody[e] = "sampled" /\ transport[e] = "done"),
         (e \in logged /\ Headed(e))' <=> (e \in logged /\ Headed(e)),
         (e \in logged /\ Closed(e))' <=> (e \in logged /\ Closed(e)),
         respKind[e] = "NoBody" => respKind'[e] = "NoBody"
  PROVE  TextOf(e)'
<1> TextOf(e)
  BY DEF TextInv
<1> QED
  BY DEF TextOf, Printed, Before

\* Each step keeps TextInv.
LEMMA TextStep ==
  FTypes /\ HandlerInv /\ TransportInv /\ TextInv /\ [ForwardNext]_forwardVars => TextInv'
<1> SUFFICES ASSUME FTypes, HandlerInv, TransportInv, TextInv, [ForwardNext]_forwardVars PROVE TextInv'
  OBVIOUS
<1> USE DEF FTypes, HandlerInv, TransportInv, TextInv
<1> TextInv
  OBVIOUS
<1>1. ASSUME NEW e \in Ids, NEW kind \in ReqKinds, NEW shouldLog \in BOOLEAN, Begin(e, kind, shouldLog)
      PROVE  TextInv'
  BY <1>1 DEF Begin, Step, TextOf, Printed, Before, Headed, Closed
<1>2. ASSUME NEW e \in Ids, logRequest(e) PROVE TextInv'
  <2>1. emitText(e, "REQUEST") /\ "REQUEST" \in Blocks
    BY <1>2 DEF logRequest, Blocks
  <2>2. "REQUEST" \notin Printed(e)
    BY <1>2 DEF logRequest, Step, TextOf, Headed, Closed
  <2>3. \A k \in Ids \ {e} : /\ pc'[k] = pc[k] /\ reqBody'[k] = reqBody[k]
                              /\ transport'[k] = transport[k] /\ respKind'[k] = respKind[k]
    BY <1>2 DEF logRequest, Step
  <2>4. logged' = logged
    BY <1>2 DEF logRequest
  <2>5. \A k \in Ids \ {e} : TextOf(k)'
    <3>1. \A k \in Ids \ {e} : textOut'[k] = textOut[k]
      BY <2>1, <2>2, Emitted
    <3>2. \A k \in Ids \ {e} : k \in logged' <=> k \in logged
      BY <2>4
    <3> HIDE DEF FTypes, HandlerInv, TransportInv, TextInv
    <3> QED
      BY <2>3, <3>1, <3>2, TextElsewhere
  <2>6. TextOf(e)'
    <3>1. /\ pc'[e] = "newRequest" /\ e \in logged
          /\ transport'[e] = transport[e] /\ respKind'[e] = respKind[e]
          /\ respKind[e] = "none" /\ transport[e] = "none"
      BY <1>2 DEF logRequest, Step, TextOf, Headed, Closed, Printed
    <3>2. TextOf(e)
      OBVIOUS
    <3>3. /\ Printed(e)' = Printed(e) \cup {"REQUEST"}
          /\ \A i, j \in 1 .. Len(textOut'[e]) : textOut'[e][i] = textOut'[e][j] => i = j
          /\ Head(textOut'[e]) = "REQUEST"
      BY <2>1, <2>2, <3>2, Emitted
    <3>4. Before(e, "RESPONSE", "END") => Before(e, "RESPONSE", "END")'
      BY <2>1, <2>2, <3>2, Emitted DEF Blocks
    <3> HIDE DEF FTypes, HandlerInv, TransportInv, TextInv
    <3> QED
      BY <2>4, <3>1, <3>2, <3>3, <3>4 DEF TextOf, Headed, Closed
  <2> QED
    BY <2>5, <2>6
<1>3. ASSUME NEW e \in Ids, NewRequestFails(e) \/ DoFails(e) PROVE TextInv'
  <2>1. \A k \in Ids \ {e} : TextOf(k)'
    BY <1>3, TextElsewhere DEF NewRequestFails, DoFails, Fails, Step
  <2>2. TextOf(e)'
    BY <1>3, TextSame DEF NewRequestFails, DoFails, Fails, Step, Headed, Closed
  <2> QED
    BY <2>1, <2>2
<1>4. ASSUME NEW e \in Ids, Send(e) PROVE TextInv'
  BY <1>4 DEF Send, Step, TextOf, Printed, Before, Headed, Closed
<1>5. ASSUME NEW e \in Ids, NEW kind \in RespKinds, DoReturns(e, kind) PROVE TextInv'
  BY <1>5 DEF DoReturns, Step, TextOf, Printed, Before, Headed, Closed
<1>6. ASSUME NEW e \in Ids, logResponse(e) PROVE TextInv'
  BY <1>6 DEF logResponse, Step, TextOf, Printed, Before, Headed, Closed
<1>7. ASSUME NEW e \in Ids, EmitHead(e) PROVE TextInv'
  <2>1. emitText(e, "RESPONSE") /\ "RESPONSE" \in Blocks
    BY <1>7 DEF EmitHead, Blocks
  <2>2. "RESPONSE" \notin Printed(e)
    BY <1>7 DEF EmitHead, Step, TextOf, Headed, Closed
  <2>3. \A k \in Ids \ {e} : /\ pc'[k] = pc[k] /\ reqBody'[k] = reqBody[k]
                              /\ transport'[k] = transport[k] /\ respKind'[k] = respKind[k]
    BY <1>7 DEF EmitHead, Step
  <2>4. logged' = logged
    BY <1>7 DEF EmitHead
  <2>5. \A k \in Ids \ {e} : TextOf(k)'
    <3>1. \A k \in Ids \ {e} : textOut'[k] = textOut[k]
      BY <2>1, <2>2, Emitted
    <3>2. \A k \in Ids \ {e} : k \in logged' <=> k \in logged
      BY <2>4
    <3> HIDE DEF FTypes, HandlerInv, TransportInv, TextInv
    <3> QED
      BY <2>3, <3>1, <3>2, TextElsewhere
  <2>6. TextOf(e)'
    <3>1. /\ pc[e] = "head" /\ pc'[e] = "copy" /\ e \in logged /\ reqBody'[e] = reqBody[e]
          /\ transport'[e] = transport[e] /\ respKind'[e] = respKind[e] /\ respKind[e] # "none"
      BY <1>7 DEF EmitHead, Step
    <3>2. TextOf(e)
      OBVIOUS
    <3>3. /\ Printed(e)' = Printed(e) \cup {"RESPONSE"}
          /\ \A i, j \in 1 .. Len(textOut'[e]) : textOut'[e][i] = textOut'[e][j] => i = j
          /\ "REQUEST" \in Printed(e) => Head(textOut'[e]) = "REQUEST"
      BY <2>1, <2>2, <3>2, Emitted
    <3>4. Before(e, "RESPONSE", "END") /\ "END" \notin Printed(e) => Before(e, "RESPONSE", "END")'
      BY <2>1, <2>2, <3>2, Emitted DEF Blocks
    <3> HIDE DEF FTypes, HandlerInv, TransportInv, TextInv
    <3> QED
      BY <2>4, <3>1, <3>2, <3>3, <3>4 DEF TextOf, Headed, Closed
  <2> QED
    BY <2>5, <2>6
<1>8. ASSUME NEW e \in Ids, NEW how \in {"eof", "err", "clientGone"}, CopyEnds(e, how) PROVE TextInv'
  <2>1. \A k \in Ids \ {e} : TextOf(k)'
    BY <1>8, TextElsewhere DEF CopyEnds, Step
  <2>2. TextOf(e)'
    BY <1>8, TextSame DEF CopyEnds, Step, Headed, Closed
  <2> QED
    BY <2>1, <2>2
<1>9. ASSUME NEW e \in Ids, EmitEnd(e) PROVE TextInv'
  <2>1. emitText(e, "END") /\ "END" \in Blocks
    BY <1>9 DEF EmitEnd, Blocks
  <2>2. "END" \notin Printed(e)
    BY <1>9 DEF EmitEnd, Step, TextOf, Headed, Closed
  <2>3. \A k \in Ids \ {e} : /\ pc'[k] = pc[k] /\ reqBody'[k] = reqBody[k]
                              /\ transport'[k] = transport[k] /\ respKind'[k] = respKind[k]
    BY <1>9 DEF EmitEnd, Step
  <2>4. logged' = logged
    BY <1>9 DEF EmitEnd
  <2>5. \A k \in Ids \ {e} : TextOf(k)'
    <3>1. \A k \in Ids \ {e} : textOut'[k] = textOut[k]
      BY <2>1, <2>2, Emitted
    <3>2. \A k \in Ids \ {e} : k \in logged' <=> k \in logged
      BY <2>4
    <3> HIDE DEF FTypes, HandlerInv, TransportInv, TextInv
    <3> QED
      BY <2>3, <3>1, <3>2, TextElsewhere
  <2>6. TextOf(e)'
    <3>1. /\ pc[e] = "endBlock" /\ e \in logged /\ reqBody'[e] = reqBody[e]
          /\ pc'[e] = IF respKind[e] = "NoBody" THEN "head" ELSE "return"
          /\ transport'[e] = transport[e] /\ respKind'[e] = respKind[e] /\ respKind[e] # "none"
      BY <1>9 DEF EmitEnd, Step
    <3>2. TextOf(e)
      OBVIOUS
    <3>3. /\ Printed(e)' = Printed(e) \cup {"END"}
          /\ \A i, j \in 1 .. Len(textOut'[e]) : textOut'[e][i] = textOut'[e][j] => i = j
          /\ "REQUEST" \in Printed(e) => Head(textOut'[e]) = "REQUEST"
      BY <2>1, <2>2, <3>2, Emitted
    <3>4. Before(e, "RESPONSE", "END") => Before(e, "RESPONSE", "END")'
      BY <2>1, <2>2, <3>2, Emitted DEF Blocks
    <3> HIDE DEF FTypes, HandlerInv, TransportInv, TextInv
    <3> QED
      BY <2>4, <3>1, <3>2, <3>3, <3>4 DEF TextOf, Headed, Closed
  <2> QED
    BY <2>5, <2>6
<1>10. ASSUME NEW e \in Ids, Return(e) PROVE TextInv'
  BY <1>10 DEF Return, Step, TextOf, Printed, Before, Headed, Closed
<1>11. ASSUME NEW e \in Ids, NEW v \in {whole, cut}, RequestBodyEnds(e, v) PROVE TextInv'
  BY <1>11 DEF RequestBodyEnds, TextOf, Printed, Before, Headed, Closed
<1>12. ASSUME NEW e \in Ids, EmitRequestBody(e) PROVE TextInv'
  <2>1. emitText(e, "BODY") /\ "BODY" \in Blocks
    BY <1>12 DEF EmitRequestBody, Blocks
  <2>2. "BODY" \notin Printed(e)
    BY <1>12 DEF EmitRequestBody, TextOf, Headed, Closed
  <2>3. \A k \in Ids \ {e} : /\ pc'[k] = pc[k] /\ reqBody'[k] = reqBody[k]
                              /\ transport'[k] = transport[k] /\ respKind'[k] = respKind[k]
    BY <1>12 DEF EmitRequestBody
  <2>4. logged' = logged
    BY <1>12 DEF EmitRequestBody
  <2>5. \A k \in Ids \ {e} : TextOf(k)'
    <3>1. \A k \in Ids \ {e} : textOut'[k] = textOut[k]
      BY <2>1, <2>2, Emitted
    <3>2. \A k \in Ids \ {e} : k \in logged' <=> k \in logged
      BY <2>4
    <3> HIDE DEF FTypes, HandlerInv, TransportInv, TextInv
    <3> QED
      BY <2>3, <3>1, <3>2, TextElsewhere
  <2>6. TextOf(e)'
    <3>1. /\ pc'[e] = pc[e] /\ e \in logged /\ pc[e] # "logRequest" /\ reqBody'[e] = reqBody[e]
          /\ transport[e] = "block" /\ transport'[e] = "done" /\ reqBody[e] = "sampled"
          /\ respKind'[e] = respKind[e]
      BY <1>12 DEF EmitRequestBody
    <3>2. TextOf(e)
      OBVIOUS
    <3>3. /\ Printed(e)' = Printed(e) \cup {"BODY"}
          /\ \A i, j \in 1 .. Len(textOut'[e]) : textOut'[e][i] = textOut'[e][j] => i = j
          /\ "REQUEST" \in Printed(e) => Head(textOut'[e]) = "REQUEST"
      BY <2>1, <2>2, <3>2, Emitted
    <3>4. Before(e, "RESPONSE", "END") => Before(e, "RESPONSE", "END")'
      BY <2>1, <2>2, <3>2, Emitted DEF Blocks
    <3> HIDE DEF FTypes, HandlerInv, TransportInv, TextInv
    <3> QED
      BY <2>4, <3>1, <3>2, <3>3, <3>4 DEF TextOf, Headed, Closed
  <2> QED
    BY <2>5, <2>6
<1>13. ASSUME NEW e \in Ids, HandOver(e) PROVE TextInv'
  BY <1>13 DEF HandOver, exchangeVars, TextOf, Printed, Before, Headed, Closed
<1>14. CASE Main
  BY <1>14, MainStep, TextElsewhere
<1>15. CASE UNCHANGED forwardVars
  BY <1>15, TextElsewhere DEF forwardVars, exchangeVars
<1> QED
  BY <1>1, <1>2, <1>3, <1>4, <1>5, <1>6, <1>7, <1>8, <1>9, <1>10, <1>11, <1>12, <1>13,
     <1>14, <1>15 DEF ForwardNext, Handler, OwnStep, Transport

-----------------------------------------------------------------------------
(* The count in flight, and what the drain waits for *)

\* The exchanges whose handlers are under way.
Active == {e \in Ids : pc[e] \notin {"idle", "done"}}

\* The count is their number, so a drain that ends at zero leaves none of those that
\* had begun when the command exited.
DrainInv ==
  /\ IsFiniteSet(Active) /\ inflight = Cardinality(Active)
  /\ main = "running" => owed = {}
  /\ main \in {"running", "draining"} => ~timedOut
  /\ \A e \in owed : pc[e] # "idle" /\ (Drained => pc[e] = "done")

-----------------------------------------------------------------------------

\* A handler goes its way once and stays at its end; in between it is under way.
LEMMA HandlerGoesOn ==
  ASSUME FTypes, NEW e \in Ids, NEW to, pc' = [pc EXCEPT ![e] = to], to # "idle",
         pc[e] # "done", mainVars' = mainVars, DrainInv
  PROVE  /\ \A k \in owed' : pc'[k] # "idle" /\ (Drained' => pc'[k] = "done")
         /\ main' = "running" => owed' = {}
         /\ main' \in {"running", "draining"} => ~timedOut'
         /\ to # "done" => Active' = Active \cup {e}
         /\ to = "done" => Active' = Active \ {e}
<1>1. main' = main /\ owed' = owed /\ timedOut' = timedOut
  BY DEF mainVars
<1>2. Drained' = Drained
  BY <1>1 DEF Drained
<1>3. \A k \in owed' : pc'[k] # "idle" /\ (Drained' => pc'[k] = "done")
  BY <1>1, <1>2 DEF DrainInv, FTypes
<1>4. \A k \in Ids : pc'[k] = IF k = e THEN to ELSE pc[k]
  BY DEF FTypes
<1> QED
  BY <1>1, <1>3, <1>4 DEF DrainInv, Active

\* Between its beginning and its end a handler leaves the count as it is.
LEMMA CountKept ==
  ASSUME FTypes, DrainInv, NEW e \in Ids, NEW from, NEW to, Step(e, from, to),
         to \notin {"idle", "done"}, from \notin {"idle", "done"},
         mainVars' = mainVars, inflight' = inflight
  PROVE  DrainInv'
<1>1. Active' = Active
  BY HandlerGoesOn DEF Active, Step
<1> QED
  BY <1>1, HandlerGoesOn DEF DrainInv, Step

\* As does a step that moves neither a handler nor the main goroutine.
LEMMA NobodyMoves ==
  ASSUME DrainInv, pc' = pc, mainVars' = mainVars, inflight' = inflight
  PROVE  DrainInv'
BY DEF DrainInv, Active, Drained, mainVars

\* Each step keeps DrainInv.
LEMMA DrainStep ==
  FTypes /\ DrainInv /\ [ForwardNext]_forwardVars => DrainInv'
<1> SUFFICES ASSUME FTypes, DrainInv, [ForwardNext]_forwardVars PROVE DrainInv'
  OBVIOUS
<1>1. ASSUME NEW e \in Ids, NEW kind \in ReqKinds, NEW shouldLog \in BOOLEAN, Begin(e, kind, shouldLog) PROVE DrainInv'
  <2>1. pc[e] = "idle" /\ inflight' = inflight + 1 /\ mainVars' = mainVars
    BY <1>1 DEF Begin, Step
  <2> DEFINE to == IF shouldLog THEN "logRequest" ELSE "newRequest"
  <2>2. pc' = [pc EXCEPT ![e] = to] /\ to \notin {"idle", "done"}
    BY <1>1 DEF Begin, Step
  <2> HIDE DEF to
  <2>3. Active' = Active \cup {e} /\ e \notin Active
    BY <2>1, <2>2, HandlerGoesOn DEF Active
  <2>4. IsFiniteSet(Active') /\ inflight' = Cardinality(Active')
    BY <2>1, <2>3, FS_AddElement DEF DrainInv
  <2> QED
    BY <2>1, <2>2, <2>4, HandlerGoesOn DEF DrainInv
<1>2. ASSUME NEW e \in Ids, logRequest(e) PROVE DrainInv'
  <2>1. Step(e, "logRequest", "newRequest")
    BY <1>2 DEF logRequest
  <2>2. mainVars' = mainVars /\ inflight' = inflight
    BY <1>2 DEF logRequest
  <2> QED
    BY <2>1, <2>2, CountKept
<1>3. ASSUME NEW e \in Ids, NewRequestFails(e) \/ DoFails(e) PROVE DrainInv'
  <2>1. Step(e, "newRequest", "return") \/ Step(e, "roundTrip", "return")
    BY <1>3 DEF NewRequestFails, DoFails, Fails
  <2>2. mainVars' = mainVars /\ inflight' = inflight
    BY <1>3 DEF NewRequestFails, DoFails, Fails
  <2> QED
    BY <2>1, <2>2, CountKept
<1>4. ASSUME NEW e \in Ids, Send(e) PROVE DrainInv'
  <2>1. Step(e, "newRequest", "roundTrip")
    BY <1>4 DEF Send
  <2>2. mainVars' = mainVars /\ inflight' = inflight
    BY <1>4 DEF Send
  <2> QED
    BY <2>1, <2>2, CountKept
<1>5. ASSUME NEW e \in Ids, NEW kind \in RespKinds, DoReturns(e, kind) PROVE DrainInv'
  <2>1. Step(e, "roundTrip", IF e \in logged THEN "logResponse" ELSE "copy")
    BY <1>5 DEF DoReturns
  <2>2. mainVars' = mainVars /\ inflight' = inflight
    BY <1>5 DEF DoReturns
  <2> QED
    BY <2>1, <2>2, CountKept
<1>6. ASSUME NEW e \in Ids, logResponse(e) PROVE DrainInv'
  <2>1. Step(e, "logResponse", IF respKind[e] = "NoBody" THEN "endBlock" ELSE "head")
    BY <1>6 DEF logResponse
  <2>2. mainVars' = mainVars /\ inflight' = inflight
    BY <1>6 DEF logResponse
  <2> QED
    BY <2>1, <2>2, CountKept
<1>7. ASSUME NEW e \in Ids, EmitHead(e) PROVE DrainInv'
  <2>1. Step(e, "head", "copy")
    BY <1>7 DEF EmitHead
  <2>2. mainVars' = mainVars /\ inflight' = inflight
    BY <1>7 DEF EmitHead
  <2> QED
    BY <2>1, <2>2, CountKept
<1>8. ASSUME NEW e \in Ids, NEW how \in {"eof", "err", "clientGone"}, CopyEnds(e, how) PROVE DrainInv'
  <2>1. Step(e, "copy", "endBlock") \/ Step(e, "copy", "return")
    BY <1>8 DEF CopyEnds
  <2>2. mainVars' = mainVars /\ inflight' = inflight
    BY <1>8 DEF CopyEnds
  <2> QED
    BY <2>1, <2>2, CountKept
<1>9. ASSUME NEW e \in Ids, EmitEnd(e) PROVE DrainInv'
  <2>1. Step(e, "endBlock", IF respKind[e] = "NoBody" THEN "head" ELSE "return")
    BY <1>9 DEF EmitEnd
  <2>2. mainVars' = mainVars /\ inflight' = inflight
    BY <1>9 DEF EmitEnd
  <2> QED
    BY <2>1, <2>2, CountKept
<1>10. ASSUME NEW e \in Ids, Return(e) PROVE DrainInv'
  <2>1. /\ pc[e] = "return" /\ inflight' = inflight - 1 /\ mainVars' = mainVars
        /\ pc' = [pc EXCEPT ![e] = "done"]
    BY <1>10 DEF Return, Step
  <2>2. Active' = Active \ {e} /\ e \in Active
    BY <2>1, HandlerGoesOn DEF Active
  <2>3. IsFiniteSet(Active') /\ inflight' = Cardinality(Active')
    BY <2>1, <2>2, FS_RemoveElement DEF DrainInv
  <2> QED
    BY <2>1, <2>3, HandlerGoesOn DEF DrainInv
<1>11. ASSUME NEW e \in Ids, NEW v \in {whole, cut}, RequestBodyEnds(e, v) PROVE DrainInv'
  <2>1. pc' = pc /\ mainVars' = mainVars /\ inflight' = inflight
    BY <1>11 DEF RequestBodyEnds
  <2> QED
    BY <2>1, NobodyMoves
<1>12. ASSUME NEW e \in Ids, EmitRequestBody(e) PROVE DrainInv'
  <2>1. pc' = pc /\ mainVars' = mainVars /\ inflight' = inflight
    BY <1>12 DEF EmitRequestBody
  <2> QED
    BY <2>1, NobodyMoves
<1>13. ASSUME NEW e \in Ids, HandOver(e) PROVE DrainInv'
  <2>1. pc' = pc /\ mainVars' = mainVars /\ inflight' = inflight
    BY <1>13 DEF HandOver, exchangeVars
  <2> QED
    BY <2>1, NobodyMoves
<1>14. CASE Main
  <2>1. pc' = pc /\ Active' = Active /\ inflight' = inflight
    BY <1>14, MainStep DEF Active
  <2>2. CASE CommandExits
    BY <2>1, <2>2 DEF CommandExits, DrainInv, Drained
  <2>3. CASE drainInflight
    <3>1. inflight = 0 => Active = {}
      BY FS_EmptySet DEF DrainInv
    <3>2. inflight = 0 => \A e \in owed : pc[e] = "done"
      BY <3>1 DEF DrainInv, Active, FTypes
    <3> QED
      BY <2>1, <2>3, <3>2 DEF drainInflight, DrainInv, Drained
  <2>4. CASE finishHAR \/ Exit
    BY <2>1, <2>4 DEF finishHAR, Exit, DrainInv, Drained
  <2> QED
    BY <1>14, <2>2, <2>3, <2>4 DEF Main
<1>15. CASE UNCHANGED forwardVars
  BY <1>15, NobodyMoves DEF forwardVars, exchangeVars
<1> QED
  BY <1>1, <1>2, <1>3, <1>4, <1>5, <1>6, <1>7, <1>8, <1>9, <1>10, <1>11, <1>12, <1>13,
     <1>14, <1>15 DEF ForwardNext, Handler, OwnStep, Transport

-----------------------------------------------------------------------------
(* What has been captured when the handlers have ended *)

\* A handler that brought the second half of its exchange hands the pair over before it
\* prints the closing rule, so a drain that waited for it finds the pair in the outputs,
\* and so does the HAR file.
CapturedInv ==
  /\ \A e \in requestFirst : Closed(e) => ~HandingOver(e)
  /\ (Drained /\ main # "writeHAR" /\ harMode) =>
       \A e \in owed \cap requestFirst : Captured(harFile, e)

ForwardIInv == /\ IInv
               /\ NothingLost
               /\ FTypes
               /\ HandlerInv
               /\ TransportInv
               /\ CallsInv
               /\ TextInv
               /\ DrainInv
               /\ CapturedInv

-----------------------------------------------------------------------------

\* A goroutine begins to hand over a pair of k only in a call that brings a half of k.
LEMMA HandingOverStarts ==
  ASSUME IInv, NEW k
  PROVE  /\ \A e, v : (addRequest(e, v) \/ addResponse(e, v)) /\ HandingOver(k)' =>
                        HandingOver(k) \/ k = e
         /\ \A e : drop(e) /\ HandingOver(k)' => HandingOver(k)
         /\ \A t : (writeRecord(t) \/ addHAREntry(t)) /\ HandingOver(k)' => HandingOver(k)
         /\ UNCHANGED vars /\ HandingOver(k)' => HandingOver(k)
<1>1. \A e, r, rs : completeExchange(e, r, rs).entry.id = e
  BY DEF completeExchange
<1>2. ASSUME NEW e, NEW v, addRequest(e, v) \/ addResponse(e, v), HandingOver(k)'
      PROVE  HandingOver(k) \/ k = e
  BY <1>1, <1>2 DEF addRequest, addResponse, HandingOver
<1>3. ASSUME NEW t, writeRecord(t) \/ addHAREntry(t), HandingOver(k)'
      PROVE  HandingOver(k)
  <2>1. t \in completing /\ [t EXCEPT !.next = "har"].entry = t.entry
    BY <1>3 DEF writeRecord, addHAREntry, IInv, TypeOK, Task
  <2> QED
    BY <1>3, <2>1 DEF writeRecord, addHAREntry, HandingOver
<1> QED
  BY <1>2, <1>3 DEF drop, vars, HandingOver

\* The hand-overs of exchanges whose handlers have ended are over for good, and what
\* the HAR file is to hold does not change, if no such exchange is given a half or
\* noted as request-first, and the main goroutine rests.
LEMMA CapturedKept ==
  ASSUME FTypes, DrainInv, CapturedInv, mainVars' = mainVars,
         \A k \in Ids : pc[k] = "done" /\ k \in requestFirst' => k \in requestFirst,
         \A k \in requestFirst' : Closed(k)' =>
             \/ k \in requestFirst /\ Closed(k) /\ (HandingOver(k)' => HandingOver(k))
             \/ ~HandingOver(k)'
  PROVE  CapturedInv'
<1>1. main' = main /\ owed' = owed /\ timedOut' = timedOut /\ harFile' = harFile
  BY DEF mainVars
<1>2. Drained' = Drained
  BY <1>1 DEF Drained
<1>3. \A k \in requestFirst' : Closed(k)' => ~HandingOver(k)'
  BY DEF CapturedInv
<1>4. ASSUME Drained', main' # "writeHAR", harMode, NEW e \in owed' \cap requestFirst'
      PROVE  Captured(harFile', e)
  <2>1. e \in owed \cap requestFirst
    BY <1>1, <1>2, <1>4 DEF DrainInv, FTypes
  <2> QED
    BY <1>1, <1>2, <1>4, <2>1 DEF CapturedInv
<1> QED
  BY <1>3, <1>4 DEF CapturedInv, Captured

\* Each step keeps CapturedInv.
LEMMA CapturedStep ==
  ForwardIInv /\ [ForwardNext]_forwardVars => CapturedInv'
<1> SUFFICES ASSUME ForwardIInv, [ForwardNext]_forwardVars PROVE CapturedInv'
  OBVIOUS
<1> USE DEF ForwardIInv, HandlerInv, TransportInv, CallsInv
<1>1. ASSUME NEW e \in Ids, NEW kind \in ReqKinds, NEW shouldLog \in BOOLEAN, Begin(e, kind, shouldLog) PROVE CapturedInv'
  <2>1. /\ mainVars' = mainVars
        /\ \A k \in Ids : pc[k] = "done" /\ k \in requestFirst' => k \in requestFirst
    BY <1>1 DEF Begin, Step
  <2>2. ASSUME NEW k \in requestFirst', Closed(k)'
        PROVE  \/ k \in requestFirst /\ Closed(k) /\ (HandingOver(k)' => HandingOver(k))
               \/ ~HandingOver(k)'
    BY <1>1, <2>2, HandingOverStarts DEF Begin, Step, Closed
  <2> QED
    BY <2>1, <2>2, CapturedKept
<1>2. ASSUME NEW e \in Ids, logRequest(e) PROVE CapturedInv'
  <2>1. /\ mainVars' = mainVars
        /\ \A k \in Ids : pc[k] = "done" /\ k \in requestFirst' => k \in requestFirst
    BY <1>2 DEF logRequest, Step
  <2>2. ASSUME NEW k \in requestFirst', Closed(k)'
        PROVE  \/ k \in requestFirst /\ Closed(k) /\ (HandingOver(k)' => HandingOver(k))
               \/ ~HandingOver(k)'
    BY <1>2, <2>2, HandingOverStarts DEF logRequest, Step, Closed
  <2> QED
    BY <2>1, <2>2, CapturedKept
<1>3. ASSUME NEW e \in Ids, NewRequestFails(e) \/ DoFails(e) PROVE CapturedInv'
  <2>1. /\ mainVars' = mainVars
        /\ \A k \in Ids : pc[k] = "done" /\ k \in requestFirst' => k \in requestFirst
    BY <1>3 DEF NewRequestFails, DoFails, Fails, Step
  <2>2. ASSUME NEW k \in requestFirst', Closed(k)'
        PROVE  \/ k \in requestFirst /\ Closed(k) /\ (HandingOver(k)' => HandingOver(k))
               \/ ~HandingOver(k)'
    <3>1. /\ pc' = [pc EXCEPT ![e] = "return"] /\ pc[e] \in {"newRequest", "roundTrip"}
          /\ respKind' = respKind /\ requestFirst' = requestFirst
      BY <1>3 DEF NewRequestFails, DoFails, Fails, Step
    <3>2. k # e /\ k \in requestFirst /\ Closed(k)
      BY <2>2, <3>1 DEF Closed, FTypes
    <3>3. drop(e) \/ UNCHANGED vars
      BY <1>3 DEF NewRequestFails, DoFails, Fails, discardReqID
    <3> QED
      BY <3>2, <3>3, HandingOverStarts
  <2> QED
    BY <2>1, <2>2, CapturedKept
<1>4. ASSUME NEW e \in Ids, Send(e) PROVE CapturedInv'
  <2>1. /\ mainVars' = mainVars
        /\ \A k \in Ids : pc[k] = "done" /\ k \in requestFirst' => k \in requestFirst
    BY <1>4 DEF Send, Step
  <2>2. ASSUME NEW k \in requestFirst', Closed(k)'
        PROVE  \/ k \in requestFirst /\ Closed(k) /\ (HandingOver(k)' => HandingOver(k))
               \/ ~HandingOver(k)'
    BY <1>4, <2>2, HandingOverStarts DEF Send, Step, Closed
  <2> QED
    BY <2>1, <2>2, CapturedKept
<1>5. ASSUME NEW e \in Ids, NEW kind \in RespKinds, DoReturns(e, kind) PROVE CapturedInv'
  <2>1. /\ mainVars' = mainVars
        /\ \A k \in Ids : pc[k] = "done" /\ k \in requestFirst' => k \in requestFirst
    BY <1>5 DEF DoReturns, Step
  <2>2. ASSUME NEW k \in requestFirst', Closed(k)'
        PROVE  \/ k \in requestFirst /\ Closed(k) /\ (HandingOver(k)' => HandingOver(k))
               \/ ~HandingOver(k)'
    BY <1>5, <2>2, HandingOverStarts DEF DoReturns, Step, Closed
  <2> QED
    BY <2>1, <2>2, CapturedKept
<1>6. ASSUME NEW e \in Ids, logResponse(e) PROVE CapturedInv'
  <2>1. /\ mainVars' = mainVars
        /\ \A k \in Ids : pc[k] = "done" /\ k \in requestFirst' => k \in requestFirst
    BY <1>6 DEF logResponse, onResponseBody, Step
  <2>2. ASSUME NEW k \in requestFirst', Closed(k)'
        PROVE  \/ k \in requestFirst /\ Closed(k) /\ (HandingOver(k)' => HandingOver(k))
               \/ ~HandingOver(k)'
    BY <1>6, <2>2, HandingOverStarts DEF logResponse, onResponseBody, Step, Closed
  <2> QED
    BY <2>1, <2>2, CapturedKept
<1>7. ASSUME NEW e \in Ids, EmitHead(e) PROVE CapturedInv'
  <2>1. /\ mainVars' = mainVars
        /\ \A k \in Ids : pc[k] = "done" /\ k \in requestFirst' => k \in requestFirst
    BY <1>7 DEF EmitHead, Step
  <2>2. ASSUME NEW k \in requestFirst', Closed(k)'
        PROVE  \/ k \in requestFirst /\ Closed(k) /\ (HandingOver(k)' => HandingOver(k))
               \/ ~HandingOver(k)'
    BY <1>7, <2>2, HandingOverStarts DEF EmitHead, Step, Closed
  <2> QED
    BY <2>1, <2>2, CapturedKept
<1>8. ASSUME NEW e \in Ids, NEW how \in {"eof", "err", "clientGone"}, CopyEnds(e, how) PROVE CapturedInv'
  <2>1. /\ mainVars' = mainVars
        /\ \A k \in Ids : pc[k] = "done" /\ k \in requestFirst' => k \in requestFirst
    BY <1>8 DEF CopyEnds, onResponseBody, Step
  <2>2. ASSUME NEW k \in requestFirst', Closed(k)'
        PROVE  \/ k \in requestFirst /\ Closed(k) /\ (HandingOver(k)' => HandingOver(k))
               \/ ~HandingOver(k)'
    <3>1. CASE e \in logged /\ respKind[e] # "NoBody"
      <4>1. /\ pc' = [pc EXCEPT ![e] = "endBlock"] /\ respKind' = respKind
            /\ \E v : onResponseBody(e, v)
        BY <1>8, <3>1 DEF CopyEnds, Step
      <4>2. k # e /\ k \in requestFirst /\ Closed(k)
        BY <2>2, <3>1, <4>1 DEF Closed, onResponseBody, FTypes
      <4> QED
        BY <4>1, <4>2, HandingOverStarts DEF onResponseBody
    <3>2. CASE e \notin logged \/ respKind[e] = "NoBody"
      <4>1. /\ pc' = [pc EXCEPT ![e] = "return"] /\ pc[e] = "copy" /\ respKind' = respKind
            /\ UNCHANGED vars /\ requestFirst' = requestFirst
        BY <1>8, <3>2 DEF CopyEnds, Step
      <4>2. k \in requestFirst /\ Closed(k)
        BY <2>2, <3>2, <4>1 DEF Closed, FTypes
      <4> QED
        BY <4>1, <4>2, HandingOverStarts
    <3> QED
      BY <3>1, <3>2
  <2> QED
    BY <2>1, <2>2, CapturedKept
<1>9. ASSUME NEW e \in Ids, EmitEnd(e) PROVE CapturedInv'
  <2>1. /\ mainVars' = mainVars
        /\ \A k \in Ids : pc[k] = "done" /\ k \in requestFirst' => k \in requestFirst
    BY <1>9 DEF EmitEnd, Step
  <2>2. ASSUME NEW k \in requestFirst', Closed(k)'
        PROVE  \/ k \in requestFirst /\ Closed(k) /\ (HandingOver(k)' => HandingOver(k))
               \/ ~HandingOver(k)'
    BY <1>9, <2>2, HandingOverStarts DEF EmitEnd, Step, Closed
  <2> QED
    BY <2>1, <2>2, CapturedKept
<1>10. ASSUME NEW e \in Ids, Return(e) PROVE CapturedInv'
  <2>1. /\ mainVars' = mainVars
        /\ \A k \in Ids : pc[k] = "done" /\ k \in requestFirst' => k \in requestFirst
    BY <1>10 DEF Return, Step
  <2>2. ASSUME NEW k \in requestFirst', Closed(k)'
        PROVE  \/ k \in requestFirst /\ Closed(k) /\ (HandingOver(k)' => HandingOver(k))
               \/ ~HandingOver(k)'
    BY <1>10, <2>2, HandingOverStarts DEF Return, Step, Closed
  <2> QED
    BY <2>1, <2>2, CapturedKept
<1>11. ASSUME NEW e \in Ids, NEW v \in {whole, cut}, RequestBodyEnds(e, v) PROVE CapturedInv'
  <2>1. /\ mainVars' = mainVars
        /\ \A k \in Ids : pc[k] = "done" /\ k \in requestFirst' => k \in requestFirst
    BY <1>11 DEF RequestBodyEnds
  <2>2. ASSUME NEW k \in requestFirst', Closed(k)'
        PROVE  \/ k \in requestFirst /\ Closed(k) /\ (HandingOver(k)' => HandingOver(k))
               \/ ~HandingOver(k)'
    <3>1. k \in requestFirst /\ Closed(k) /\ k \in Ids
      BY <1>11, <2>2 DEF RequestBodyEnds, Closed, FTypes
    <3>2. reqBody[e] = "sampled" => addRequest(e, v) /\ k # e
      BY <1>11, <3>1 DEF RequestBodyEnds, RequestGiven
    <3>3. reqBody[e] # "sampled" => UNCHANGED vars
      BY <1>11 DEF RequestBodyEnds
    <3> QED
      BY <3>1, <3>2, <3>3, HandingOverStarts
  <2> QED
    BY <2>1, <2>2, CapturedKept
<1>12. ASSUME NEW e \in Ids, EmitRequestBody(e) PROVE CapturedInv'
  <2>1. /\ mainVars' = mainVars
        /\ \A k \in Ids : pc[k] = "done" /\ k \in requestFirst' => k \in requestFirst
    BY <1>12 DEF EmitRequestBody
  <2>2. ASSUME NEW k \in requestFirst', Closed(k)'
        PROVE  \/ k \in requestFirst /\ Closed(k) /\ (HandingOver(k)' => HandingOver(k))
               \/ ~HandingOver(k)'
    BY <1>12, <2>2, HandingOverStarts DEF EmitRequestBody, Closed
  <2> QED
    BY <2>1, <2>2, CapturedKept
<1>13. ASSUME NEW e \in Ids, HandOver(e) PROVE CapturedInv'
  <2>1. /\ mainVars' = mainVars
        /\ \A k \in Ids : pc[k] = "done" /\ k \in requestFirst' => k \in requestFirst
    BY <1>13 DEF HandOver, exchangeVars
  <2>2. ASSUME NEW k \in requestFirst', Closed(k)'
        PROVE  \/ k \in requestFirst /\ Closed(k) /\ (HandingOver(k)' => HandingOver(k))
               \/ ~HandingOver(k)'
    BY <1>13, <2>2, HandingOverStarts DEF HandOver, exchangeVars, Closed
  <2> QED
    BY <2>1, <2>2, CapturedKept
<1>14. CASE Main
  <2>1. /\ requestFirst' = requestFirst /\ pc' = pc /\ respKind' = respKind
        /\ completing' = completing /\ har' = har
    BY <1>14, MainStep
  <2>2. \A e : Closed(e)' = Closed(e) /\ HandingOver(e)' = HandingOver(e)
    BY <2>1 DEF Closed, HandingOver
  <2>3. CASE CommandExits \/ drainInflight
    BY <2>1, <2>2, <2>3 DEF CommandExits, drainInflight, CapturedInv, Drained
  <2>4. CASE finishHAR
    <3>1. ASSUME Drained', harMode, NEW e \in owed' \cap requestFirst'
          PROVE  Captured(harFile', e)
      <4>1. Drained /\ e \in owed \cap requestFirst /\ e \in Ids
        BY <2>1, <2>4, <3>1 DEF finishHAR, Drained, FTypes
      <4>2. pc[e] = "done" /\ givenReq[e] # Absent /\ givenResp[e] # Absent
        BY <4>1 DEF DrainInv
      <4>3. Closed(e)
        BY <4>1, <4>2 DEF Answered, Closed
      <4> QED
        BY <2>4, <3>1, <4>1, <4>2, <4>3 DEF finishHAR, CapturedInv, NothingLost, Captured
    <3> QED
      BY <2>1, <2>2, <3>1 DEF CapturedInv
  <2>5. CASE Exit
    BY <2>1, <2>2, <2>5 DEF Exit, CapturedInv, Captured, Drained
  <2> QED
    BY <1>14, <2>3, <2>4, <2>5 DEF Main
<1>15. CASE UNCHANGED forwardVars
  <2>1. /\ mainVars' = mainVars /\ requestFirst' = requestFirst
        /\ \A k : Closed(k)' = Closed(k) /\ HandingOver(k)' = HandingOver(k)
    BY <1>15 DEF forwardVars, exchangeVars, vars, Closed, HandingOver
  <2> QED
    BY <2>1, CapturedKept DEF CapturedInv
<1> QED
  BY <1>1, <1>2, <1>3, <1>4, <1>5, <1>6, <1>7, <1>8, <1>9, <1>10, <1>11, <1>12, <1>13,
     <1>14, <1>15 DEF ForwardNext, Handler, OwnStep, Transport

-----------------------------------------------------------------------------
(* What holds in every behaviour of the program *)

LEMMA ForwardInitially == ForwardInit => ForwardIInv
<1> SUFFICES ASSUME ForwardInit PROVE ForwardIInv
  OBVIOUS
<1> USE DEF ForwardInit
<1>1. TypeOK
  BY DEF Init, TypeOK, Half
<1>2. MapsInv /\ TasksInv /\ NothingLost
  BY DEF Init, MapsInv, TasksInv, NothingLost
<1>3. Len(recorded) = 0 /\ Len(har) = 0
  BY DEF Init
<1>4. OutputsInv /\ WrittenOnce /\ HarWithinRecording
  BY <1>3 DEF Init, OutputsInv, WrittenOnce, HarWithinRecording
<1>5. FTypes
  <2>1. <<>> \in Seq(Entry) /\ <<>> \in Seq({"REQUEST", "BODY", "RESPONSE", "END"})
    OBVIOUS
  <2> HIDE DEF Init
  <2> QED
    BY <1>1, <2>1 DEF FTypes
<1>6. HandlerInv /\ TransportInv
  BY DEF HandlerInv, TransportInv
<1>7. CallsInv
  BY DEF Init, CallsInv, RequestGiven, Answered, Failed
<1>8. TextInv
  <2> SUFFICES ASSUME NEW e \in Ids PROVE TextOf(e)
    BY DEF TextInv
  <2>1. textOut[e] = <<>> /\ Len(textOut[e]) = 0
    OBVIOUS
  <2>2. Printed(e) = {}
    BY <2>1 DEF Printed
  <2> QED
    BY <2>1, <2>2 DEF TextOf, Headed, Closed, Before
<1>9. DrainInv
  <2>1. Active = {}
    BY DEF Active
  <2> QED
    BY <2>1, FS_EmptySet DEF DrainInv
<1>10. CapturedInv
  BY DEF CapturedInv, Drained
<1> QED
  BY <1>1, <1>2, <1>4, <1>5, <1>6, <1>7, <1>8, <1>9, <1>10 DEF ForwardIInv, IInv

\* The inductive invariant holds of every behaviour.
THEOREM ForwardInvariance == ForwardSpec => []ForwardIInv
<1>1. ForwardInit => ForwardIInv
  BY ForwardInitially
<1>2. (ForwardIInv /\ IInv' /\ NothingLost') /\ [ForwardNext]_forwardVars => ForwardIInv'
  BY FTypesStep, HandlerStep, TransportStep, CallsStep, TextStep, DrainStep, CapturedStep
     DEF ForwardIInv
<1>3. ForwardSpec => []IInv /\ []NothingLost
  BY ForwardImplementsJoiner, Invariance, NothingIsLost, PTL
<1> QED
  BY <1>1, <1>2, <1>3, PTL DEF ForwardSpec

\* The variables keep their types; a start time is on file, and a note of which half
\* came first, for logged exchanges only, and the count in flight is never negative.
THEOREM ForwardTypeCorrect == ForwardSpec => []ForwardTypeOK
<1>1. ForwardIInv => ForwardTypeOK
  <2> SUFFICES ASSUME ForwardIInv PROVE ForwardTypeOK
    OBVIOUS
  <2>1. reqStartTimes \subseteq logged
    BY DEF ForwardIInv, HandlerInv, FTypes
  <2>2. requestFirst \subseteq logged
    BY DEF ForwardIInv, CallsInv, FTypes
  <2>3. inflight \in Nat
    BY FS_CardinalityType DEF ForwardIInv, DrainInv
  <2> QED
    BY <2>1, <2>2, <2>3 DEF ForwardIInv, FTypes, ForwardTypeOK
<1> QED
  BY <1>1, ForwardInvariance, PTL

\* Each handler and each transport keeps to the joiner's protocol, on every error path:
\* no half is given twice, and none after a drop (main.go:422-431).
THEOREM KeepsProtocol == ForwardSpec => []CallsKeepProtocol
<1>1. ForwardIInv => CallsKeepProtocol
  BY DEF ForwardIInv, FTypes, HandlerInv, TransportInv, CallsInv, RequestGiven, Answered,
         Failed, CallsKeepProtocol
<1> QED
  BY <1>1, ForwardInvariance, PTL

\* A request known to be empty goes out without a body, whatever its handler wraps
\* (tunnel.go:46-53).
THEOREM EmptyIsNeverChunked == ForwardSpec => []EmptyNeverChunked
<1>1. ForwardIInv => EmptyNeverChunked
  BY DEF ForwardIInv, HandlerInv, TransportInv, EmptyNeverChunked, Framing
<1> QED
  BY <1>1, ForwardInvariance, PTL

\* An exchange that is over is forgotten, but for a sampled body that nobody ever read
\* (tunnel.go:61).
THEOREM NothingIsLeft == ForwardSpec => []NothingLeft
<1>1. ForwardIInv => NothingLeft
  <2> SUFFICES ASSUME ForwardIInv, NEW e \in Ids, Over(e)
               PROVE  /\ e \notin reqStartTimes
                      /\ Parked(e) => transport[e] = "none" /\ reqBody[e] = "sampled"
    BY DEF NothingLeft
  <2>1. pc[e] = "done" /\ transport[e] \in {"none", "done"} /\ e \notin reqStartTimes
    BY DEF Over, ForwardIInv, HandlerInv
  <2>2. CASE e \notin logged
    <3>1. givenReq[e] = Absent /\ givenResp[e] = Absent /\ e \notin abandoned
      BY <2>2 DEF ForwardIInv, CallsInv, RequestGiven
    <3> QED
      BY <2>1, <3>1 DEF ForwardIInv, IInv, MapsInv, Parked
  <2>3. CASE e \in logged
    <3>1. Failed(e) \/ Answered(e)
      BY <2>1 DEF Failed, Answered
    <3>2. givenResp[e] # Absent \/ e \in abandoned
      BY <2>3, <3>1 DEF ForwardIInv, CallsInv
    <3>3. CASE transport[e] = "none" /\ reqBody[e] # "NoBody"
      BY <2>1, <2>3, <3>3 DEF ForwardIInv, HandlerInv
    <3>4. CASE transport[e] = "done" \/ reqBody[e] = "NoBody"
      <4>1. givenReq[e] # Absent
        BY <2>1, <2>3, <3>4 DEF ForwardIInv, CallsInv, RequestGiven
      <4> QED
        BY <2>1, <3>2, <4>1 DEF ForwardIInv, IInv, MapsInv, Parked
    <3> QED
      BY <2>1, <3>3, <3>4
  <2> QED
    BY <2>1, <2>2, <2>3
<1> QED
  BY <1>1, ForwardInvariance, PTL

\* The text of an exchange is in order, whichever of its handler and its transport
\* prints when (main.go:654-660, 707).
THEOREM TextIsOrdered == ForwardSpec => []TextOrder
<1>1. ForwardIInv => TextOrder
  <2> SUFFICES ASSUME ForwardIInv, NEW e \in Ids
               PROVE  /\ textOut[e] # <<>> => e \in logged /\ Head(textOut[e]) = "REQUEST"
                      /\ \A i, j \in 1 .. Len(textOut[e]) : textOut[e][i] = textOut[e][j] => i = j
                      /\ respKind[e] # "NoBody" => Before(e, "RESPONSE", "END")
    BY DEF TextOrder
  <2>1. TextOf(e) /\ textOut[e] \in Seq(Blocks)
    BY DEF ForwardIInv, TextInv, FTypes, Blocks
  <2>2. ASSUME textOut[e] # <<>> PROVE e \in logged
    <3>1. textOut[e][1] \in Printed(e) /\ textOut[e][1] = Head(textOut[e])
      BY <2>1, <2>2, EmptySeq, LenProperties DEF Printed
    <3> QED
      BY <2>1, <2>2, <3>1 DEF TextOf
  <2> QED
    BY <2>1, <2>2 DEF TextOf
<1> QED
  BY <1>1, ForwardInvariance, PTL

\* A drain that did not give up has waited for every exchange begun before the command
\* exited: its response is printed to the closing rule and reported, and if the request
\* came first the pair is in the recording and in the HAR file (tunnel.go:30-36, 91-95).
THEOREM DrainKeepsAll == ForwardSpec => []DrainIsComplete
<1>1. ForwardIInv => DrainIsComplete
  <2> SUFFICES ASSUME ForwardIInv PROVE DrainIsComplete
    OBVIOUS
  <2>1. DrainedResponses
    <3> SUFFICES ASSUME Drained, NEW e \in owed \cap logged, respKind[e] # "none"
                 PROVE  givenResp[e] # Absent /\ {"RESPONSE", "END"} \subseteq Printed(e)
      BY DEF DrainedResponses
    <3>1. e \in Ids /\ pc[e] = "done"
      BY DEF ForwardIInv, FTypes, DrainInv
    <3>2. Answered(e) /\ Headed(e) /\ Closed(e)
      BY <3>1 DEF Answered, Headed, Closed
    <3> QED
      BY <3>1, <3>2 DEF ForwardIInv, CallsInv, TextInv, TextOf
  <2>2. DrainedCaptured
    <3> SUFFICES ASSUME Drained, main # "writeHAR", NEW e \in owed \cap requestFirst
                 PROVE  /\ recordMode => Captured(recorded, e)
                        /\ harMode => Captured(harFile, e)
      BY DEF DrainedCaptured
    <3>1. e \in Ids /\ pc[e] = "done" /\ givenReq[e] # Absent /\ givenResp[e] # Absent
      BY DEF ForwardIInv, FTypes, DrainInv, CallsInv
    <3>2. Closed(e)
      BY <3>1 DEF ForwardIInv, CallsInv, Answered, Closed
    <3>3. ~HandingOver(e)
      BY <3>2 DEF ForwardIInv, CapturedInv
    <3> QED
      BY <3>1, <3>3 DEF ForwardIInv, CapturedInv, NothingLost, HandingOver
  <2> QED
    BY <2>1, <2>2 DEF DrainIsComplete
<1> QED
  BY <1>1, ForwardInvariance, PTL
=============================================================================
