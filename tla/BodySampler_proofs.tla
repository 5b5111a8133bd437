-------------------------- MODULE BodySampler_proofs --------------------------
(***************************************************************************)
(* Proofs about BodySampler, for bodies and limits of any size and any     *)
(* number of goroutines that close the body.  The inductive invariant has  *)
(* two parts: how far the reading goroutine has counted what it was given  *)
(* (CountInv), and who is on the way to the callback (OnceInv).            *)
(***************************************************************************)
EXTENDS BodySampler, TLAPS

\* The types that no other part of the invariant is needed for.
Typed == /\ size \in Nat /\ size <= MaxSize
         /\ expect \in {-1, size}
         /\ limit \in Nat /\ limit <= MaxLimit
         /\ pos \in Nat /\ pos <= size /\ closed \in BOOLEAN
         /\ kept \in Nat /\ total \in Nat /\ returned \in Nat
         /\ overflow \in BOOLEAN /\ fired \in BOOLEAN
         /\ reader \in {"out", "count", "fire", "callback"}
         /\ got \in [n : Nat, err : {"nil", "EOF", "failed"}]
         /\ closer \in [Closers -> {"out", "fire", "callback", "close", "done"}]
         /\ pending \in [Goroutines -> Report]
         /\ reports \in Seq(Report)

\* What was given is counted, but for what the read under way was given; what
\* was counted is returned, but for what a read still in fire was given.
CountInv ==
  /\ pos = IF reader = "count" THEN total + got.n ELSE total
  /\ total = IF reader \in {"fire", "callback"} THEN returned + got.n ELSE returned
  /\ kept = Least(total, limit)
  /\ overflow <=> total > limit
  /\ reader # "out" /\ got.err = "EOF" => pos = size
  /\ got.n <= size

\* A report that says complete holds the whole body.
Honest(r) == ~r.incomplete => r.kept = size

HonestInv == /\ \A g \in Goroutines : Honest(pending[g])
             /\ \A i \in 1 .. Len(reports) : Honest(reports[i])

\* Only after fired is set is anyone on the way to the callback, one at most,
\* and none when the report was made.
OnceInv ==
  /\ Len(reports) <= 1
  /\ ~fired => reports = <<>>
  /\ reader = "callback" => fired /\ reports = <<>>
  /\ \A c \in Closers : closer[c] = "callback" =>
       /\ fired /\ reports = <<>>
       /\ reader # "callback"
       /\ \A d \in Closers : closer[d] = "callback" => d = c

IInv == Typed /\ CountInv /\ HonestInv /\ OnceInv

-----------------------------------------------------------------------------

\* What fire finds is a report, and an honest one.
LEMMA SampleIsHonest ==
  ASSUME Typed, CountInv, NEW eof \in BOOLEAN, eof => total = size
  PROVE  Sample(eof) \in Report /\ Honest(Sample(eof))
<1>1. kept \in 0 .. MaxLimit
  BY SizeAssumption DEF Typed, CountInv, Least
<1>2. Sample(eof) \in Report
  BY <1>1 DEF Sample, Report, Typed
<1>3. ASSUME ~Sample(eof).incomplete PROVE Sample(eof).kept = size
  <2>1. ~overflow /\ (eof \/ (expect >= 0 /\ total = expect)) /\ Sample(eof).kept = kept
    BY <1>3 DEF Sample
  <2>2. total = size
    BY <2>1 DEF Typed
  <2> QED
    BY <2>1, <2>2 DEF Typed, CountInv, Least
<1> QED
  BY <1>2, <1>3 DEF Honest

\* One report more.
LEMMA Reported ==
  ASSUME Typed, HonestInv, NEW g \in Goroutines, reports = <<>>,
         reports' = Append(reports, pending[g]), size' = size, pending' = pending
  PROVE  reports' \in Seq(Report) /\ Len(reports') = 1 /\ HonestInv'
<1>1. pending[g] \in Report
  BY DEF Typed
<1>2. reports' = <<pending[g]>>
  OBVIOUS
<1> QED
  BY <1>1, <1>2 DEF HonestInv, Honest

\* The inductive invariant is kept by every step.
LEMMA InvStep == IInv /\ [Next]_vars => IInv'
<1> SUFFICES ASSUME IInv, [Next]_vars PROVE IInv'
  OBVIOUS
<1> USE DEF IInv
<1>1. CASE ReadBody
  <2>1. PICK n \in 0 .. size - pos, err \in {"nil", "EOF", "failed"} :
           /\ err = "EOF" => pos + n = size
           /\ got' = [n |-> n, err |-> err]
           /\ pos' = pos + n
    BY <1>1 DEF ReadBody
  <2>2. /\ reader = "out" /\ reader' = "count"
        /\ UNCHANGED <<body, closed, sampler, returned, closer, pending, reports>>
    BY <1>1 DEF ReadBody
  <2>3. n \in Nat /\ pos + n <= size /\ n <= size
    BY <2>1 DEF Typed
  <2>4. Typed'
    BY <2>1, <2>2, <2>3 DEF Typed, body, sampler
  <2>5. CountInv'
    BY <2>1, <2>2, <2>3 DEF Typed, CountInv, body, sampler
  <2>6. HonestInv'
    BY <2>2 DEF HonestInv, Honest, body
  <2>7. OnceInv'
    BY <2>2 DEF OnceInv, sampler
  <2> QED
    BY <2>4, <2>5, <2>6, <2>7
<1>2. CASE Count
  <2>1. /\ reader = "count" /\ total' = total + got.n
        /\ kept' = Least(limit, kept + got.n)
        /\ overflow' = (overflow \/ kept + got.n > limit)
        /\ UNCHANGED <<body, pos, closed, fired, got, closer, pending, reports>>
    BY <1>2 DEF Count
  <2>2. \/ got.err = "nil" /\ reader' = "out" /\ returned' = returned + got.n
        \/ got.err # "nil" /\ reader' = "fire" /\ returned' = returned
    BY <1>2 DEF Count, Returns
  <2>3. got.n \in Nat
    BY DEF Typed
  <2>4. Typed'
    BY <2>1, <2>2, <2>3 DEF Typed, body, Least
  <2>5. CountInv'
    <3>1. (pos = IF reader = "count" THEN total + got.n ELSE total)'
      BY <2>1, <2>2, <2>3 DEF CountInv
    <3>2. (total = IF reader \in {"fire", "callback"} THEN returned + got.n ELSE returned)'
      BY <2>1, <2>2, <2>3 DEF CountInv
    <3>3. kept' = Least(total', limit')
      BY <2>1, <2>3 DEF Typed, CountInv, Least, body
    <3>4. overflow' <=> total' > limit'
      <4>1. total \in Nat /\ limit \in Nat /\ limit' = limit
        BY <2>1 DEF Typed, body
      <4>2. CASE total > limit
        <5>1. overflow'
          BY <2>1, <4>2 DEF CountInv
        <5>2. total' > limit'
          BY <2>1, <2>3, <4>1, <4>2
        <5> QED
          BY <5>1, <5>2
      <4>3. CASE ~(total > limit)
        <5>1. kept = total /\ ~overflow
          BY <4>1, <4>3 DEF CountInv, Least
        <5> QED
          BY <2>1, <4>1, <5>1
      <4> QED
        BY <4>2, <4>3
    <3>5. (/\ reader # "out" /\ got.err = "EOF" => pos = size
           /\ got.n <= size)'
      BY <2>1 DEF CountInv, body
    <3> QED
      BY <3>1, <3>2, <3>3, <3>4, <3>5 DEF CountInv
  <2>6. HonestInv'
    BY <2>1 DEF HonestInv, Honest, body
  <2>7. OnceInv'
    BY <2>1, <2>2 DEF OnceInv
  <2> QED
    BY <2>4, <2>5, <2>6, <2>7
<1>3. CASE ReaderFires
  <2>1. /\ reader = "fire" /\ got.n \in Nat
        /\ UNCHANGED <<body, pos, closed, kept, total, overflow, got, closer, reports>>
    BY <1>3 DEF ReaderFires, Typed
  <2>2. CASE fire(Reader, got.err = "EOF") /\ reader' = "callback" /\ UNCHANGED returned
    <3>1. got.err = "EOF" => total = size
      BY <2>1 DEF CountInv
    <3>2. Sample(got.err = "EOF") \in Report /\ Honest(Sample(got.err = "EOF"))
      BY <3>1, SampleIsHonest
    <3>3. ~fired /\ fired' = TRUE /\ pending' = [pending EXCEPT ![Reader] = Sample(got.err = "EOF")]
      BY <2>2 DEF fire
    <3>4. Typed'
      BY <2>1, <2>2, <3>2, <3>3 DEF Typed, body
    <3>5. CountInv'
      BY <2>1, <2>2 DEF CountInv, body
    <3>6. HonestInv'
      BY <2>1, <3>2, <3>3 DEF HonestInv, Honest, body, Typed
    <3>7. OnceInv'
      BY <2>1, <2>2, <3>3 DEF OnceInv
    <3> QED
      BY <3>4, <3>5, <3>6, <3>7
  <2>3. CASE AlreadyFired /\ Returns
    <3>1. /\ fired' = fired /\ pending' = pending
          /\ reader' = "out" /\ returned' = returned + got.n
      BY <2>3 DEF AlreadyFired, Returns
    <3>2. Typed' /\ CountInv'
      BY <2>1, <3>1 DEF Typed, CountInv, body
    <3>3. HonestInv'
      BY <2>1, <3>1 DEF HonestInv, Honest, body
    <3>4. OnceInv'
      BY <2>1, <3>1 DEF OnceInv
    <3> QED
      BY <3>2, <3>3, <3>4
  <2> QED
    BY <1>3, <2>2, <2>3 DEF ReaderFires
<1>4. CASE ReaderCallback
  <2>1. /\ reader = "callback" /\ got.n \in Nat
        /\ reports' = Append(reports, pending[Reader])
        /\ reader' = "out" /\ returned' = returned + got.n
        /\ UNCHANGED <<body, pos, closed, sampler, got, closer, pending>>
    BY <1>4 DEF ReaderCallback, Returns, Typed
  <2>2. reports = <<>> /\ fired /\ \A c \in Closers : closer[c] # "callback"
    BY <2>1 DEF OnceInv
  <2>3. reports' \in Seq(Report) /\ Len(reports') = 1 /\ HonestInv'
    BY <2>1, <2>2, Reported DEF Goroutines, body
  <2>4. Typed' /\ CountInv'
    BY <2>1, <2>3 DEF Typed, CountInv, body, sampler
  <2>5. OnceInv'
    BY <2>1, <2>2, <2>3 DEF OnceInv, sampler
  <2> QED
    BY <2>3, <2>4, <2>5
<1>5. ASSUME NEW c \in Closers, CloseBegins(c) \/ CloseBody(c) PROVE IInv'
  <2>1. PICK to \in {"fire", "done"} : closer' = [closer EXCEPT ![c] = to]
    BY <1>5 DEF CloseBegins, CloseBody
  <2>2. closed' \in BOOLEAN /\ UNCHANGED <<body, pos, sampler, reader, got, returned, pending, reports>>
    BY <1>5 DEF CloseBegins, CloseBody, Typed
  <2>3. Typed' /\ CountInv'
    BY <2>1, <2>2 DEF Typed, CountInv, body, sampler
  <2>4. HonestInv'
    BY <2>2 DEF HonestInv, Honest, body
  <2>5. OnceInv'
    BY <2>1, <2>2 DEF OnceInv, Typed, sampler
  <2> QED
    BY <2>3, <2>4, <2>5
<1>6. ASSUME NEW c \in Closers, CloserFires(c) PROVE IInv'
  <2>1. /\ closer[c] = "fire"
        /\ UNCHANGED <<body, pos, closed, kept, total, overflow, reader, got, returned, reports>>
    BY <1>6 DEF CloserFires
  <2>2. CASE fire(c, FALSE) /\ closer' = [closer EXCEPT ![c] = "callback"]
    <3>1. Sample(FALSE) \in Report /\ Honest(Sample(FALSE)) /\ c \in Goroutines
      BY SampleIsHonest DEF Goroutines
    <3>2. ~fired /\ fired' = TRUE /\ pending' = [pending EXCEPT ![c] = Sample(FALSE)]
      BY <2>2 DEF fire
    <3>3. Typed'
      BY <2>1, <2>2, <3>1, <3>2 DEF Typed, body
    <3>4. CountInv'
      BY <2>1 DEF CountInv, body
    <3>5. HonestInv'
      BY <2>1, <3>1, <3>2 DEF HonestInv, Honest, body, Typed
    <3>6. OnceInv'
      BY <2>1, <2>2, <3>2 DEF OnceInv, Typed
    <3> QED
      BY <3>3, <3>4, <3>5, <3>6
  <2>3. CASE AlreadyFired /\ closer' = [closer EXCEPT ![c] = "close"]
    <3>1. Typed' /\ CountInv'
      BY <2>1, <2>3 DEF AlreadyFired, Typed, CountInv, body
    <3>2. HonestInv'
      BY <2>1, <2>3 DEF AlreadyFired, HonestInv, Honest, body
    <3>3. OnceInv'
      BY <2>1, <2>3 DEF AlreadyFired, OnceInv, Typed
    <3> QED
      BY <3>1, <3>2, <3>3
  <2> QED
    BY <1>6, <2>2, <2>3 DEF CloserFires
<1>7. ASSUME NEW c \in Closers, CloserCallback(c) PROVE IInv'
  <2>1. /\ closer[c] = "callback" /\ c \in Goroutines
        /\ reports' = Append(reports, pending[c])
        /\ closer' = [closer EXCEPT ![c] = "close"]
        /\ UNCHANGED <<body, pos, closed, sampler, reader, got, returned, pending>>
    BY <1>7 DEF CloserCallback, Goroutines
  <2>2. /\ reports = <<>> /\ fired /\ reader # "callback"
        /\ \A d \in Closers : closer[d] = "callback" => d = c
    BY <2>1 DEF OnceInv
  <2>3. reports' \in Seq(Report) /\ Len(reports') = 1 /\ HonestInv'
    BY <2>1, <2>2, Reported DEF body
  <2>4. Typed' /\ CountInv'
    BY <2>1, <2>3 DEF Typed, CountInv, body, sampler
  <2>5. \A d \in Closers : closer'[d] # "callback"
    BY <2>1, <2>2 DEF Typed
  <2>6. OnceInv'
    BY <2>1, <2>2, <2>3, <2>5 DEF OnceInv, sampler
  <2> QED
    BY <2>3, <2>4, <2>6
<1>8. CASE UNCHANGED vars
  BY <1>8 DEF vars, body, sampler, Typed, CountInv, HonestInv, Honest, OnceInv
<1> QED
  BY <1>1, <1>2, <1>3, <1>4, <1>5, <1>6, <1>7, <1>8 DEF Next, InRead, InClose

\* The inductive invariant holds in every reachable state.
LEMMA Invariance == Spec => []IInv
<1>1. Init => IInv
  <2> SUFFICES ASSUME Init PROVE IInv
    OBVIOUS
  <2>1. NoReport \in Report
    BY SizeAssumption DEF NoReport, Report
  <2>2. size \in Nat /\ size <= MaxSize /\ limit \in Nat /\ limit <= MaxLimit
    BY SizeAssumption DEF Init
  <2>3. pending \in [Goroutines -> Report] /\ closer \in [Closers -> {"out", "fire", "callback", "close", "done"}]
    BY <2>1 DEF Init
  <2>4. reports \in Seq(Report)
    BY DEF Init
  <2>5. Typed
    <3>1. got \in [n : Nat, err : {"nil", "EOF", "failed"}]
      BY DEF Init
    <3>2. pos \in Nat /\ pos <= size /\ kept \in Nat /\ total \in Nat /\ returned \in Nat
      BY <2>2 DEF Init
    <3>3. /\ closed \in BOOLEAN /\ overflow \in BOOLEAN /\ fired \in BOOLEAN
          /\ expect \in {-1, size}
          /\ reader \in {"out", "count", "fire", "callback"}
      BY DEF Init
    <3> QED
      BY <2>2, <2>3, <2>4, <3>1, <3>2, <3>3 DEF Typed
  <2>6. CountInv
    BY SizeAssumption DEF Init, CountInv, Least
  <2>7. HonestInv /\ OnceInv
    BY DEF Init, HonestInv, Honest, OnceInv, NoReport
  <2> QED
    BY <2>5, <2>6, <2>7 DEF IInv
<1> QED
  BY <1>1, InvStep, PTL DEF Spec

-----------------------------------------------------------------------------

\* The variables keep their types: no more is counted or returned than the body
\* has, no more is kept than the limit.
THEOREM TypeCorrect == Spec => []TypeOK
<1>1. IInv => TypeOK
  <2> SUFFICES ASSUME IInv PROVE TypeOK
    OBVIOUS
  <2>1. got \in [n : 0 .. size, err : {"nil", "EOF", "failed"}]
    BY DEF IInv, Typed, CountInv
  <2>2. kept \in 0 .. limit /\ total \in 0 .. size /\ returned \in 0 .. size
    BY DEF IInv, Typed, CountInv, Least
  <2> QED
    BY <2>1, <2>2, SizeAssumption DEF IInv, Typed, TypeOK
<1> QED
  BY <1>1, Invariance, PTL

\* However Read and any number of Closes overlap, the body is reported at most
\* once.
THEOREM IsReportedOnce == Spec => []ReportedOnce
<1>1. IInv => ReportedOnce
  BY DEF IInv, OnceInv, ReportedOnce
<1> QED
  BY <1>1, Invariance, PTL

\* A body reported as complete was kept to its last byte.
THEOREM CompleteIsAlwaysWhole == Spec => []CompleteIsWhole
<1>1. IInv => CompleteIsWhole
  BY DEF IInv, HonestInv, Honest, CompleteIsWhole
<1> QED
  BY <1>1, Invariance, PTL

\* What is kept is the prefix the limit allows, and whether it is one is known.
THEOREM KeptIsAlwaysPrefix == Spec => []KeptIsPrefix
<1>1. IInv => KeptIsPrefix
  BY DEF IInv, CountInv, KeptIsPrefix
<1> QED
  BY <1>1, Invariance, PTL

\* What the consumer has been given was counted: a body whose declared length was
\* delivered in full, and that fits the limit, is never reported as cut off,
\* whoever comes first to fire (stream.go:80-82).
THEOREM DeliveredIsAlwaysComplete == Spec => DeliveredIsComplete
<1>1. IInv /\ [Next]_vars =>
        [(fired' # fired /\ returned = expect /\ size <= limit)
           => \E g \in Goroutines : ~pending'[g].incomplete]_vars
  <2> SUFFICES ASSUME IInv, Next, fired' # fired, returned = expect, size <= limit
               PROVE  \E g \in Goroutines : ~pending'[g].incomplete
    OBVIOUS
  <2>1. total = expect /\ expect >= 0 /\ ~overflow
    <3>1. returned \in Nat /\ total \in Nat /\ got.n \in Nat /\ size \in Nat /\ limit \in Nat
      BY DEF IInv, Typed
    <3>2. returned = size /\ total <= size /\ returned <= total
      BY <3>1 DEF IInv, Typed, CountInv
    <3> QED
      BY <3>1, <3>2 DEF IInv, CountInv
  <2>2. \A eof \in BOOLEAN : ~Sample(eof).incomplete
    BY <2>1 DEF Sample
  <2>3. PICK g \in Goroutines, eof \in BOOLEAN : fire(g, eof)
    <3>1. CASE ReaderFires
      BY <3>1 DEF ReaderFires, AlreadyFired, Goroutines
    <3>2. ASSUME NEW c \in Closers, CloserFires(c)
          PROVE  \E g \in Goroutines, eof \in BOOLEAN : fire(g, eof)
      BY <3>2 DEF CloserFires, AlreadyFired, Goroutines
    <3>3. CASE \/ ReadBody \/ Count \/ ReaderCallback
               \/ \E c \in Closers : CloseBegins(c) \/ CloserCallback(c) \/ CloseBody(c)
      BY <3>3 DEF ReadBody, Count, ReaderCallback, CloseBegins, CloserCallback, CloseBody, sampler
    <3> QED
      BY <3>1, <3>2, <3>3 DEF Next, InRead, InClose
  <2>4. pending'[g] = Sample(eof)
    BY <2>3 DEF fire, IInv, Typed
  <2> QED
    BY <2>2, <2>4
<1> QED
  BY <1>1, Invariance, PTL DEF Spec, DeliveredIsComplete
=============================================================================
