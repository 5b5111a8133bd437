----------------------------- MODULE BodySampler -----------------------------
(***************************************************************************)
(* bodySampler (stream.go): keeps the first bytes of a body while another  *)
(* goroutine streams it, and reports them once, when the body is over.     *)
(*                                                                         *)
(* One goroutine reads the body; any number may close it, while a Read is  *)
(* under way too: the transport abandons an upload, the handler returns    *)
(* before its copy reached EOF.  Only what happens under the sampler's     *)
(* mutex is atomic.  Read has three parts: the read of the body it wraps,  *)
(* the count of what came, and, at an error, fire; the callback runs after *)
(* fire has released the mutex.                                            *)
(*                                                                         *)
(* The body is a number of bytes; what is kept of it is a prefix, so a     *)
(* length stands for it.  The body wrapped is one of net/http (external):  *)
(* it says EOF only at its end, never gives more than it declared, and may *)
(* fail at any time.                                                       *)
(***************************************************************************)
EXTENDS Integers, Sequences

CONSTANTS Closers,   \* goroutines that may close the body
          MaxSize,   \* the longest body
          MaxLimit   \* the largest number of bytes to keep

ASSUME SizeAssumption == MaxSize \in Nat /\ MaxLimit \in Nat

VARIABLES size,      \* length of the body
          expect,    \* declared length, -1 when unknown
          limit,     \* bytes to keep
          pos,       \* bytes the wrapped body has given
          closed,    \* the wrapped body is closed
          kept, total, overflow, fired,  \* fields of the sampler; kept = len(buf)
          reader,    \* the reading goroutine: "out", "count", "fire", "callback"
          got,       \* what its read of the wrapped body returned
          returned,  \* bytes that completed calls of Read gave the consumer
          closer,    \* each closing goroutine: "out", "fire", "callback", "close", "done"
          pending,   \* the reports on their way to the callback, by goroutine
          reports    \* the reports made, in order

body    == <<size, expect, limit>>
sampler == <<kept, total, overflow, fired>>
vars    == <<body, pos, closed, sampler, reader, got, returned, closer, pending, reports>>

Reader     == "reader"
Goroutines == Closers \cup {Reader}
Report     == [kept : 0 .. MaxLimit, incomplete : BOOLEAN]
NoReport   == [kept |-> 0, incomplete |-> TRUE]

Least(a, b) == IF a <= b THEN a ELSE b

Init == /\ size \in 0 .. MaxSize
        /\ expect \in {-1, size}
        /\ limit \in 0 .. MaxLimit
        /\ pos = 0 /\ closed = FALSE
        /\ kept = 0 /\ total = 0 /\ overflow = FALSE /\ fired = FALSE
        /\ reader = "out" /\ got = [n |-> 0, err |-> "nil"]
        /\ returned = 0
        /\ closer = [c \in Closers |-> "out"]
        /\ pending = [g \in Goroutines |-> NoReport]
        /\ reports = <<>>

-----------------------------------------------------------------------------
(* fire *)

\* Mutant: only EOF makes a body complete.
Sample_EOFOnly(reachedEOF) == [kept |-> kept, incomplete |-> overflow \/ ~reachedEOF]

\* What fire finds: complete at EOF, or with the declared length all counted.
Sample(reachedEOF) ==
  LET complete == reachedEOF \/ (expect >= 0 /\ total = expect)
  IN  [kept |-> kept, incomplete |-> overflow \/ ~complete]

\* Mutant: the mutex does not cover the test and the setting of fired.
fire_Unguarded(g, reachedEOF) ==
  /\ fired' = TRUE
  /\ pending' = [pending EXCEPT ![g] = Sample(reachedEOF)]

\* Under the mutex.  It is enabled when the caller is the first, and then the
\* callback is next for it; AlreadyFired is the other outcome.
fire(g, reachedEOF) ==
  /\ ~fired
  /\ fired' = TRUE
  /\ pending' = [pending EXCEPT ![g] = Sample(reachedEOF)]

AlreadyFired == fired /\ UNCHANGED <<fired, pending>>

-----------------------------------------------------------------------------
(* Read *)

\* The wrapped body gives some bytes, an error, or both.
ReadBody ==
  /\ reader = "out"
  /\ \E n \in 0 .. size - pos, err \in {"nil", "EOF", "failed"} :
       /\ closed => n = 0 /\ err = "failed"
       /\ n = 0 => err # "nil"
       /\ err = "EOF" => pos + n = size
       /\ got' = [n |-> n, err |-> err]
       /\ pos' = pos + n
  /\ reader' = "count"
  /\ UNCHANGED <<body, closed, sampler, returned, closer, pending, reports>>

\* Read returns what it got to its caller.
Returns == /\ reader' = "out"
           /\ returned' = returned + got.n

\* Under the mutex: the total, the prefix, and whether it is one.
Count ==
  /\ reader = "count"
  /\ total' = total + got.n
  /\ kept' = Least(limit, kept + got.n)
  /\ overflow' = (overflow \/ kept + got.n > limit)
  /\ IF got.err = "nil" THEN Returns
                        ELSE reader' = "fire" /\ UNCHANGED returned
  /\ UNCHANGED <<body, pos, closed, fired, got, closer, pending, reports>>

\* Mutant: any error is taken for the end of the body.
ReaderFires_AnyError ==
  /\ reader = "fire"
  /\ \/ fire(Reader, TRUE) /\ reader' = "callback" /\ UNCHANGED returned
     \/ AlreadyFired /\ Returns
  /\ UNCHANGED <<body, pos, closed, kept, total, overflow, got, closer, reports>>

ReaderFires ==
  /\ reader = "fire"
  /\ \/ fire(Reader, got.err = "EOF") /\ reader' = "callback" /\ UNCHANGED returned
     \/ AlreadyFired /\ Returns
  /\ UNCHANGED <<body, pos, closed, kept, total, overflow, got, closer, reports>>

ReaderCallback ==
  /\ reader = "callback"
  /\ reports' = Append(reports, pending[Reader])
  /\ Returns
  /\ UNCHANGED <<body, pos, closed, sampler, got, closer, pending>>

-----------------------------------------------------------------------------
(* Close *)

CloseBegins(c) ==
  /\ closer[c] = "out"
  /\ closer' = [closer EXCEPT ![c] = "fire"]
  /\ UNCHANGED <<body, pos, closed, sampler, reader, got, returned, pending, reports>>

\* Mutant: closing reports nothing.
CloserFires_Silent(c) ==
  /\ closer[c] = "fire"
  /\ closer' = [closer EXCEPT ![c] = "close"]
  /\ UNCHANGED <<body, pos, closed, sampler, reader, got, returned, pending, reports>>

CloserFires(c) ==
  /\ closer[c] = "fire"
  /\ \/ fire(c, FALSE) /\ closer' = [closer EXCEPT ![c] = "callback"]
     \/ AlreadyFired /\ closer' = [closer EXCEPT ![c] = "close"]
  /\ UNCHANGED <<body, pos, closed, kept, total, overflow, reader, got, returned, reports>>

CloserCallback(c) ==
  /\ closer[c] = "callback"
  /\ reports' = Append(reports, pending[c])
  /\ closer' = [closer EXCEPT ![c] = "close"]
  /\ UNCHANGED <<body, pos, closed, sampler, reader, got, returned, pending>>

CloseBody(c) ==
  /\ closer[c] = "close"
  /\ closed' = TRUE
  /\ closer' = [closer EXCEPT ![c] = "done"]
  /\ UNCHANGED <<body, pos, sampler, reader, got, returned, pending, reports>>

-----------------------------------------------------------------------------

InRead == Count \/ ReaderFires \/ ReaderCallback

InClose(c) == CloserFires(c) \/ CloserCallback(c) \/ CloseBody(c)

Next == ReadBody \/ InRead \/ \E c \in Closers : CloseBegins(c) \/ InClose(c)

\* A call of Read or of Close that has begun goes on.
Fairness == WF_vars(InRead) /\ \A c \in Closers : WF_vars(InClose(c))

Spec     == Init /\ [][Next]_vars
FairSpec == Spec /\ Fairness

-----------------------------------------------------------------------------
(* Properties *)

TypeOK == /\ size \in 0 .. MaxSize /\ expect \in {-1, size} /\ limit \in 0 .. MaxLimit
          /\ pos \in 0 .. size /\ closed \in BOOLEAN
          /\ kept \in 0 .. limit /\ total \in 0 .. size
          /\ overflow \in BOOLEAN /\ fired \in BOOLEAN
          /\ reader \in {"out", "count", "fire", "callback"}
          /\ got \in [n : 0 .. size, err : {"nil", "EOF", "failed"}]
          /\ returned \in 0 .. size
          /\ closer \in [Closers -> {"out", "fire", "callback", "close", "done"}]
          /\ pending \in [Goroutines -> Report]
          /\ reports \in Seq(Report)

\* However Read and Close overlap, the body is reported at most once
\* (stream.go:68-69, 92-93): a second report would be a second half of the
\* exchange.
ReportedOnce == Len(reports) <= 1

\* A body reported as complete is complete: every byte of it was kept.  No
\* reader of a recording may take a cut-off body for the whole (README.md:252).
CompleteIsWhole ==
  \A i \in 1 .. Len(reports) : ~reports[i].incomplete => reports[i].kept = size

\* The prefix kept is as long as the limit and the bytes counted allow, and what
\* did not fit has been noticed, also when the body ends exactly at the limit.
KeptIsPrefix == kept = Least(total, limit) /\ (overflow <=> total > limit)

\* A body whose declared length the consumer has been given in full, and that
\* fits the limit, is not reported as cut off by a Close that comes before EOF
\* was read (stream.go:80-82).
DeliveredIsComplete ==
  [][(fired' # fired /\ returned = expect /\ size <= limit)
        => \E g \in Goroutines : ~pending'[g].incomplete]_vars

\* A body that is closed, or whose reading met an error, is reported.
EveryBodyIsReported ==
  ((\E c \in Closers : closer[c] # "out") \/ reader = "fire") ~> reports # <<>>
=============================================================================
