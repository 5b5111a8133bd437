---------------------------- MODULE Tunnel_proofs ----------------------------
(***************************************************************************)
(* Proofs about Tunnel, for streams of any length: no end of a relay is    *)
(* told too early that the other has finished, and a relay that closes in  *)
(* good order has delivered everything.  The strengthening says where in   *)
(* handleConnect the copies run and the deadline is gone, and why a copy   *)
(* may be over.                                                            *)
(***************************************************************************)
EXTENDS Tunnel, TLAPS

\* The relay's goroutines run in the relay only, after the setup's deadline is gone;
\* an end is told of the other's by the copy that has ended (tunnel.go:219-243, 292-299).
Order ==
  /\ pc \in {"dial", "proxyReply", "greeted", "splice", "relay"} => deadline = "none"
  /\ pc \in {"connect", "reply", "peek"} => buffered = 0 /\ delivered = 0
  /\ pc \notin {"relay", "closed"} => copyUp = "off" /\ copyDown = "off"
  /\ pc = "closed" => /\ copyUp # "copying" /\ copyDown # "copying"
                     /\ (copyUp = "done" <=> copyDown = "done")
  /\ upSeesEOF => copyUp = "done"
  /\ clientSeesEOF => copyDown = "done"

\* A copy is over because one of its ends is gone, or because its stream has ended and
\* all of it is delivered (tunnel.go:293-294).
Finished ==
  /\ copyUp = "done" => \/ clientEnd = "gone" \/ upEnd = "gone"
                        \/ clientEnd = "eof" /\ delivered = sent - swallowed /\ buffered = 0
  /\ copyDown = "done" => \/ clientEnd = "gone" \/ upEnd = "gone"
                          \/ upEnd = "eof" /\ answered = upSent

IInv == TypeOK /\ Order /\ Finished

-----------------------------------------------------------------------------

\* The strengthening holds when a CONNECT comes in.
LEMMA InitIInv == Init => IInv
<1> SUFFICES ASSUME Init PROVE IInv
  OBVIOUS
<1>1. TypeOK
  <2>1. /\ {sent, upSent} \subseteq 0 .. MaxBytes
        /\ swallowed + buffered + delivered <= sent /\ answered <= upSent
        /\ {swallowed, buffered, delivered, answered} \subseteq Nat
    BY MaxBytesAssumption DEF Init
  <2>2. {upSeesEOF, clientSeesEOF} \subseteq BOOLEAN
    BY Zenon DEF Init
  <2> QED
    BY <2>1, <2>2 DEF Init, TypeOK
<1>2. Order /\ Finished
  BY DEF Init, Order, Finished
<1> QED
  BY <1>1, <1>2 DEF IInv

\* One step keeps the type.
LEMMA TypeStep == IInv /\ [Next]_vars => TypeOK'
<1> SUFFICES ASSUME IInv, [Next]_vars PROVE TypeOK'
  OBVIOUS
<1> USE MaxBytesAssumption DEF IInv, TypeOK, Order, client, upstream, upward, relay, InSocket
<1>1. CASE ClientSends
  BY <1>1 DEF ClientSends
<1>2. CASE ClientEnds
  BY <1>2 DEF ClientEnds
<1>3. CASE TargetSends
  BY <1>3 DEF TargetSends
<1>4. CASE TargetEnds
  BY <1>4 DEF TargetEnds
<1>5. CASE Hijack
  BY <1>5 DEF Hijack, Goto
<1>6. CASE HijackFails
  BY <1>6 DEF HijackFails, Fails, Goto
<1>7. CASE Reply
  BY <1>7 DEF Reply, Goto
<1>8. CASE ReplyFails
  BY <1>8 DEF ReplyFails, Fails, Goto
<1>9. ASSUME NEW k \in 1 .. MaxBytes, Peek(k) PROVE TypeOK'
  BY <1>9 DEF Peek, Goto, FirstByte
<1>10. CASE PeekTimesOut
  BY <1>10 DEF PeekTimesOut, Goto
<1>11. CASE PeekFails
  BY <1>11 DEF PeekFails, Fails, Goto
<1>12. CASE Handshake
  BY <1>12 DEF Handshake, Goto
<1>13. CASE SetupFails
  BY <1>13 DEF SetupFails, Fails, Goto
<1>14. CASE Dial
  BY <1>14 DEF Dial, Goto
<1>15. CASE DialFails
  BY <1>15 DEF DialFails, Fails, Goto
<1>16. CASE ProxyReply
  BY <1>16 DEF ProxyReply
<1>17. CASE RefuseGreeting
  BY <1>17 DEF RefuseGreeting, Fails, Goto
<1>18. CASE ProxyReplyFails
  BY <1>18 DEF ProxyReplyFails, Fails, Goto
<1>19. CASE Splice
  BY <1>19 DEF Splice, Goto
<1>20. CASE CopyUp
  BY <1>20 DEF CopyUp
<1>21. CASE CopyUpEnds
  BY <1>21 DEF CopyUpEnds, CopyUpStops
<1>22. CASE CopyDown
  BY <1>22 DEF CopyDown
<1>23. CASE CopyDownEnds
  BY <1>23 DEF CopyDownEnds, CopyDownStops
<1>24. CASE CloseBoth
  BY <1>24 DEF CloseBoth, Goto
<1>25. CASE UNCHANGED vars
  BY <1>25 DEF vars
<1> QED
  BY <1>1, <1>2, <1>3, <1>4, <1>5, <1>6, <1>7, <1>8, <1>9, <1>10, <1>11, <1>12,
     <1>13, <1>14, <1>15, <1>16, <1>17, <1>18, <1>19, <1>20, <1>21, <1>22, <1>23,
     <1>24, <1>25 DEF Next, Ends, Setup

\* One step keeps the order of the phases.
LEMMA OrderStep == IInv /\ [Next]_vars => Order'
<1> SUFFICES ASSUME IInv, [Next]_vars PROVE Order'
  OBVIOUS
<1> USE DEF IInv, TypeOK, Order, client, upstream, upward, relay
<1>1. CASE ClientSends
  BY <1>1 DEF ClientSends
<1>2. CASE ClientEnds
  BY <1>2 DEF ClientEnds
<1>3. CASE TargetSends
  BY <1>3 DEF TargetSends
<1>4. CASE TargetEnds
  BY <1>4 DEF TargetEnds
<1>5. CASE Hijack
  BY <1>5 DEF Hijack, Goto
<1>6. CASE HijackFails
  BY <1>6 DEF HijackFails, Fails, Goto
<1>7. CASE Reply
  BY <1>7 DEF Reply, Goto
<1>8. CASE ReplyFails
  BY <1>8 DEF ReplyFails, Fails, Goto
<1>9. ASSUME NEW k \in 1 .. MaxBytes, Peek(k) PROVE Order'
  BY <1>9 DEF Peek, Goto, FirstByte
<1>10. CASE PeekTimesOut
  BY <1>10 DEF PeekTimesOut, Goto
<1>11. CASE PeekFails
  BY <1>11 DEF PeekFails, Fails, Goto
<1>12. CASE Handshake
  BY <1>12 DEF Handshake, Goto
<1>13. CASE SetupFails
  BY <1>13 DEF SetupFails, Fails, Goto
<1>14. CASE Dial
  BY <1>14 DEF Dial, Goto
<1>15. CASE DialFails
  BY <1>15 DEF DialFails, Fails, Goto
<1>16. CASE ProxyReply
  BY <1>16 DEF ProxyReply
<1>17. CASE RefuseGreeting
  BY <1>17 DEF RefuseGreeting, Fails, Goto
<1>18. CASE ProxyReplyFails
  BY <1>18 DEF ProxyReplyFails, Fails, Goto
<1>19. CASE Splice
  BY <1>19 DEF Splice, Goto
<1>20. CASE CopyUp
  BY <1>20 DEF CopyUp
<1>21. CASE CopyUpEnds
  BY <1>21 DEF CopyUpEnds, CopyUpStops
<1>22. CASE CopyDown
  BY <1>22 DEF CopyDown
<1>23. CASE CopyDownEnds
  BY <1>23 DEF CopyDownEnds, CopyDownStops
<1>24. CASE CloseBoth
  BY <1>24 DEF CloseBoth, Goto
<1>25. CASE UNCHANGED vars
  BY <1>25 DEF vars
<1> QED
  BY <1>1, <1>2, <1>3, <1>4, <1>5, <1>6, <1>7, <1>8, <1>9, <1>10, <1>11, <1>12,
     <1>13, <1>14, <1>15, <1>16, <1>17, <1>18, <1>19, <1>20, <1>21, <1>22, <1>23,
     <1>24, <1>25 DEF Next, Ends, Setup

\* One step ends no copy too early.
LEMMA FinishedStep == IInv /\ [Next]_vars => Finished'
<1> SUFFICES ASSUME IInv, [Next]_vars PROVE Finished'
  OBVIOUS
<1> USE DEF IInv, TypeOK, Order, Finished, client, upstream, upward, relay, InSocket
<1>1. CASE ClientSends
  BY <1>1 DEF ClientSends
<1>2. CASE ClientEnds
  BY <1>2 DEF ClientEnds
<1>3. CASE TargetSends
  BY <1>3 DEF TargetSends
<1>4. CASE TargetEnds
  BY <1>4 DEF TargetEnds
<1>5. CASE Hijack
  BY <1>5 DEF Hijack, Goto
<1>6. CASE HijackFails
  BY <1>6 DEF HijackFails, Fails, Goto
<1>7. CASE Reply
  BY <1>7 DEF Reply, Goto
<1>8. CASE ReplyFails
  BY <1>8 DEF ReplyFails, Fails, Goto
<1>9. ASSUME NEW k \in 1 .. MaxBytes, Peek(k) PROVE Finished'
  BY <1>9 DEF Peek, Goto, FirstByte
<1>10. CASE PeekTimesOut
  BY <1>10 DEF PeekTimesOut, Goto
<1>11. CASE PeekFails
  BY <1>11 DEF PeekFails, Fails, Goto
<1>12. CASE Handshake
  BY <1>12 DEF Handshake, Goto
<1>13. CASE SetupFails
  BY <1>13 DEF SetupFails, Fails, Goto
<1>14. CASE Dial
  BY <1>14 DEF Dial, Goto
<1>15. CASE DialFails
  BY <1>15 DEF DialFails, Fails, Goto
<1>16. CASE ProxyReply
  BY <1>16 DEF ProxyReply
<1>17. CASE RefuseGreeting
  BY <1>17 DEF RefuseGreeting, Fails, Goto
<1>18. CASE ProxyReplyFails
  BY <1>18 DEF ProxyReplyFails, Fails, Goto
<1>19. CASE Splice
  BY <1>19 DEF Splice, Goto
<1>20. CASE CopyUp
  BY <1>20 DEF CopyUp
<1>21. CASE CopyUpEnds
  BY <1>21 DEF CopyUpEnds, CopyUpStops
<1>22. CASE CopyDown
  BY <1>22 DEF CopyDown
<1>23. CASE CopyDownEnds
  BY <1>23 DEF CopyDownEnds, CopyDownStops
<1>24. CASE CloseBoth
  BY <1>24 DEF CloseBoth, Goto
<1>25. CASE UNCHANGED vars
  BY <1>25 DEF vars
<1> QED
  BY <1>1, <1>2, <1>3, <1>4, <1>5, <1>6, <1>7, <1>8, <1>9, <1>10, <1>11, <1>12,
     <1>13, <1>14, <1>15, <1>16, <1>17, <1>18, <1>19, <1>20, <1>21, <1>22, <1>23,
     <1>24, <1>25 DEF Next, Ends, Setup

\* The strengthening is an invariant.
LEMMA Invariance == Spec => []IInv
<1>1. IInv /\ [Next]_vars => IInv'
  BY TypeStep, OrderStep, FinishedStep DEF IInv
<1> QED
  BY InitIInv, <1>1, PTL DEF Spec

-----------------------------------------------------------------------------

\* The state of a tunnel keeps its type, and counts no byte twice.
THEOREM TypeCorrect == Spec => []TypeOK
  BY Invariance, PTL DEF IInv

\* No end of a relay is told that the other has finished before it has
\* (tunnel.go:301-302).
THEOREM EndIsNeverFalse == Spec => []NoFalseEOF
<1>1. IInv => NoFalseEOF
  BY DEF IInv, TypeOK, Order, Finished, NoFalseEOF
<1> QED
  BY Invariance, <1>1, PTL

\* A relay that closes with both ends there has delivered what both have sent
\* (CHANGELOG.md:26-31).
THEOREM RelayIsUntouched == Spec => []RelayedUntouched
<1>1. IInv => RelayedUntouched
  BY DEF IInv, TypeOK, Order, Finished, RelayedUntouched
<1> QED
  BY Invariance, <1>1, PTL
=============================================================================
