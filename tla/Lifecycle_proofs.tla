--------------------------- MODULE Lifecycle_proofs ---------------------------
(***************************************************************************)
(* Proofs about Lifecycle: what run takes it gives back, the command is    *)
(* served as long as it lives, and the exit code is the command's.  Two    *)
(* strengthenings: Held says what is registered for cleanup at each point  *)
(* of run, and Outcome how the code follows from the command's end through *)
(* cmd.Run and exitCh.                                                     *)
(***************************************************************************)
EXTENDS Lifecycle, SequenceTheorems, TLAPS

\* What is open is registered for its cleanup, and the other way round; all of it
\* is there from the bundle on until the cleanups begin (main.go:1085-1120).
Held ==
  /\ recordFile = "open" <=> cleanups \in {<<"record">>, <<"record", "bundle">>}
  /\ bundle = "present" <=> (halfBuilt \/ cleanups \in {<<"bundle">>, <<"record", "bundle">>})
  /\ halfBuilt => /\ pc \in {"cleanup", "exited", "killed"} /\ runner = "off"
                  /\ cleanups \in {<<>>, <<"record">>}
  /\ pc = "flags" => cleanups = <<>>
  /\ pc \in {"args", "caBundle"} => cleanups = IF recordMode THEN <<"record">> ELSE <<>>
  /\ pc \in {"listen", "notify", "uiStart", "ui", "kill", "collect", "run", "drain", "har"} =>
       cleanups = IF recordMode THEN <<"record", "bundle">> ELSE <<"bundle">>
  /\ pc = "exited" => cleanups = <<>>

\* cmd.Run gives the command's end to exitCh, and main takes the code from there,
\* before it goes on to the end (main.go:1197-1217, 1245-1276).
Outcome ==
  /\ pc \in {"flags", "args", "caBundle", "listen", "notify"} => runner = "off"
  /\ runner \in {"off", "starting"} => command = "none"
  /\ runner \in {"forked", "waiting"} => command # "none"
  /\ runner = "done" => \/ command = "none" /\ exitCh = "failed"
                        \/ command \in Ended /\ exitCh = command
  /\ runner # "done" => exitCh = "empty"
  /\ pc \notin {"cleanup", "exited", "killed"} => ~harLost
  /\ pc \in {"drain", "har"} => runner = "done" /\ code = exitCh
  /\ pc \in {"cleanup", "exited"} =>
       \/ runner = "off" /\ ~harLost
       \/ /\ runner = "done"
          /\ \/ code = exitCh /\ (harLost => code # "zero")
             \/ exitCh = "zero" /\ harLost /\ code = "failed"

IInv == TypeOK /\ Held /\ Outcome

-----------------------------------------------------------------------------

Kinds == {"record", "bundle"}

\* Both, in the order of their registration, are one sequence only.
LEMMA Both ==
  ASSUME NEW s \in Seq(Kinds), Len(s) = 2, s[1] = "record", s[2] = "bundle"
  PROVE  s = <<"record", "bundle">>
<1> DEFINE t == <<"record", "bundle">>
<1>1. t \in Seq(Kinds) /\ Len(t) = 2
  BY DEF Kinds
<1>2. t[1] = "record" /\ t[2] = "bundle"
  OBVIOUS
<1> HIDE DEF t
<1>3. \A i \in 1 .. Len(s) : s[i] = t[i]
  BY <1>2
<1>4. s = t
  BY <1>1, <1>3, SeqEqual
<1> QED
  BY <1>4 DEF t

\* The lists of cleanups, as they grow ...
LEMMA Registered ==
  /\ Append(<<>>, "record") = <<"record">>
  /\ Append(<<>>, "bundle") = <<"bundle">>
  /\ Append(<<"record">>, "bundle") = <<"record", "bundle">>
<1>1. Append(<<>>, "record") = <<"record">>
  OBVIOUS
<1>2. Append(<<>>, "bundle") = <<"bundle">>
  OBVIOUS
<1>3. <<"record">> \in Seq(Kinds)
  BY DEF Kinds
<1>4. ASSUME NEW s, s = Append(<<"record">>, "bundle") PROVE s = <<"record", "bundle">>
  <2>1. s \in Seq(Kinds) /\ Len(s) = 2 /\ s[1] = "record" /\ s[2] = "bundle"
    BY <1>3, <1>4, AppendProperties DEF Kinds
  <2> QED
    BY <2>1, Both
<1> QED
  BY <1>1, <1>2, <1>4

\* ... and as they are worked off.
LEMMA WorkedOff ==
  /\ Len(<<"record">>) = 1 /\ Len(<<"bundle">>) = 1 /\ Len(<<"record", "bundle">>) = 2
  /\ SubSeq(<<"record">>, 1, 0) = <<>>
  /\ SubSeq(<<"bundle">>, 1, 0) = <<>>
  /\ SubSeq(<<"record", "bundle">>, 1, 1) = <<"record">>
<1>1. Len(<<"record">>) = 1 /\ Len(<<"bundle">>) = 1 /\ Len(<<"record", "bundle">>) = 2
  OBVIOUS
<1>2. SubSeq(<<"record">>, 1, 0) = <<>> /\ SubSeq(<<"bundle">>, 1, 0) = <<>>
  BY SubSeqEmpty
<1>3. ASSUME NEW s, NEW t, s = SubSeq(<<"record", "bundle">>, 1, 1), t = <<"record">>
      PROVE  s = t
  <2>1. s \in Seq(Kinds) /\ Len(s) = 1 /\ s[1] = "record"
    <3>1. \A i \in 1 .. 1 : <<"record", "bundle">>[i] \in Kinds
      BY DEF Kinds
    <3> QED
      BY <1>3, <3>1, SubSeqProperties
  <2>2. t \in Seq(Kinds) /\ Len(t) = 1 /\ t[1] = "record"
    BY <1>3 DEF Kinds
  <2>3. \A i \in 1 .. Len(s) : s[i] = t[i]
    BY <2>1, <2>2
  <2> QED
    BY <2>1, <2>2, <2>3, SeqEqual
<1> QED
  BY <1>1, <1>2, <1>3

\* They are all different, which the provers have to be told.
LEMMA Different ==
  /\ <<>> # <<"record">> /\ <<>> # <<"bundle">> /\ <<>> # <<"record", "bundle">>
  /\ <<"record">> # <<"bundle">>
  /\ <<"record">> # <<"record", "bundle">> /\ <<"bundle">> # <<"record", "bundle">>
<1>1. Len(<<>>) = 0 /\ Len(<<"record">>) = 1 /\ Len(<<"record", "bundle">>) = 2
      /\ Len(<<"bundle">>) = 1
  OBVIOUS
<1>2. <<"record">>[1] = "record" /\ <<"bundle">>[1] = "bundle"
  OBVIOUS
<1> QED
  BY <1>1, <1>2

\* The strengthening holds when the program starts.
LEMMA InitIInv == Init => IInv
<1> SUFFICES ASSUME Init PROVE IInv
  OBVIOUS
<1>1. TypeOK
  <2>1. signals \in 0 .. MaxSignals
    BY MaxSignalsAssumption DEF Init
  <2> QED
    BY <2>1, Zenon DEF Init, TypeOK, Ended
<1>2. Held
  BY Different DEF Init, Held
<1>3. Outcome
  BY DEF Init, Outcome
<1> QED
  BY <1>1, <1>2, <1>3 DEF IInv

\* One step keeps the type.
LEMMA TypeStep == IInv /\ [Next]_vars => TypeOK'
<1> SUFFICES ASSUME IInv, [Next]_vars PROVE TypeOK'
  OBVIOUS
<1> USE MaxSignalsAssumption, Registered DEF IInv, TypeOK, Held, Outcome, Ended, flags, resources,
    outcome, process, signalled
<1>1. CASE FlagsReturn
  BY <1>1 DEF FlagsReturn, Return, Goto
<1>2. CASE openRecordFile
  BY <1>2 DEF openRecordFile, Goto
<1>3. CASE openRecordFileFails
  BY <1>3 DEF openRecordFileFails, Return, Goto
<1>4. CASE Args
  BY <1>4 DEF Args, Goto
<1>5. CASE NoArgs
  BY <1>5 DEF NoArgs, Return, Goto
<1>6. CASE buildCABundle
  <2>1. cleanups \in {<<>>, <<"record">>}
    BY <1>6 DEF buildCABundle, Goto
  <2>2. cleanups' \in {<<"bundle">>, <<"record", "bundle">>}
    BY <1>6, <2>1 DEF buildCABundle
  <2> QED
    BY <1>6, <2>2 DEF buildCABundle, Goto
<1>7. CASE buildCABundleFails
  <2>1. bundle' \in {"none", "present", "removed"} /\ halfBuilt' \in BOOLEAN
    BY <1>7 DEF buildCABundleFails
  <2> QED
    BY <1>7, <2>1 DEF buildCABundleFails, Return, Goto
<1>8. CASE Listen
  BY <1>8 DEF Listen, Goto
<1>9. CASE ListenFails
  BY <1>9 DEF ListenFails, Return, Goto
<1>10. CASE StartFails
  BY <1>10 DEF StartFails
<1>11. CASE Fork
  BY <1>11 DEF Fork
<1>12. CASE SetProcess
  BY <1>12 DEF SetProcess
<1>13. CASE RunReturns
  BY <1>13 DEF RunReturns
<1>14. CASE CommandSpawns
  BY <1>14 DEF CommandSpawns
<1>15. CASE DescendantsEnd
  <2>1. pipeHeld' \in BOOLEAN
    BY <1>15, Zenon DEF DescendantsEnd
  <2> QED
    BY <1>15, <2>1 DEF DescendantsEnd
<1>16. CASE CommandEnds
  BY <1>16 DEF CommandEnds
<1>17. CASE UIStarts
  BY <1>17 DEF UIStarts, Goto
<1>18. CASE UIEnds
  BY <1>18 DEF UIEnds
<1>19. CASE Kill
  BY <1>19 DEF Kill, Goto, HasProcess
<1>20. CASE Collect
  BY <1>20 DEF Collect, Goto
<1>21. CASE Notify
  BY <1>21 DEF Notify, Goto
<1>22. CASE RunIsOver
  BY <1>22 DEF RunIsOver, Goto
<1>23. CASE ForwardSignal
  <2>1. told' \in BOOLEAN
    BY <1>23, Zenon DEF ForwardSignal
  <2>2. sigCh' = FALSE /\ forwarder' = "done"
    BY <1>23 DEF ForwardSignal
  <2>3. UNCHANGED <<flags, pc, resources, outcome, process, signals, firstSignal>>
    BY <1>23 DEF ForwardSignal
  <2>4. sigCh' \in BOOLEAN /\ forwarder' \in {"off", "waiting", "done"}
    BY <2>2
  <2> HIDE DEF IInv, Held, Outcome, Ended
  <2>5. UNCHANGED <<ui, recordMode, harMode, cleanups, recordFile, bundle, halfBuilt, code, harLost,
                    runner, command, pipeHeld, exitCh>>
    BY <2>3
  <2> QED
    BY <2>1, <2>3, <2>4, <2>5, Zenon DEF IInv
<1>24. CASE Signal
  BY <1>24 DEF Signal, Notified
<1>25. CASE Drain
  BY <1>25 DEF Drain, Goto
<1>26. CASE finishHAR
  <2>1. code' \in Ended \cup {"failed"}
    BY <1>26 DEF finishHAR
  <2>2. harLost' \in BOOLEAN
    BY <1>26 DEF finishHAR
  <2> QED
    BY <1>26, <2>1, <2>2 DEF finishHAR, Goto
<1>27. CASE RunCleanup
  <2>1. cleanups' \in {<<>>, <<"record">>}
    BY <1>27, WorkedOff DEF RunCleanup
  <2>2. recordFile' \in {"none", "open", "closed"} /\ bundle' \in {"none", "present", "removed"}
    BY <1>27 DEF RunCleanup
  <2> QED
    BY <1>27, <2>1, <2>2 DEF RunCleanup
<1>28. CASE Exit
  BY <1>28 DEF Exit, Goto
<1>29. CASE UNCHANGED vars
  BY <1>29 DEF vars
<1> QED
  BY <1>1, <1>2, <1>3, <1>4, <1>5, <1>6, <1>7, <1>8, <1>9, <1>10, <1>11, <1>12,
     <1>13, <1>14, <1>15, <1>16, <1>17, <1>18, <1>19, <1>20, <1>21, <1>22, <1>23,
     <1>24, <1>25, <1>26, <1>27, <1>28, <1>29 DEF Next, Main, StartUp, Run, World

\* One step keeps what is held and what is registered in agreement.
LEMMA HeldStep == IInv /\ [Next]_vars => Held'
<1> SUFFICES ASSUME IInv, [Next]_vars PROVE Held'
  OBVIOUS
<1> USE Registered, Different DEF IInv, TypeOK, Held, Outcome, flags, resources, outcome, process,
    signalled
<1>1. CASE FlagsReturn
  BY <1>1 DEF FlagsReturn, Return, Goto
<1>2. CASE openRecordFile
  BY <1>2 DEF openRecordFile, Goto
<1>3. CASE openRecordFileFails
  BY <1>3 DEF openRecordFileFails, Return, Goto
<1>4. CASE Args
  BY <1>4 DEF Args, Goto
<1>5. CASE NoArgs
  BY <1>5 DEF NoArgs, Return, Goto
<1>6. CASE buildCABundle
  BY <1>6 DEF buildCABundle, Goto
<1>7. CASE buildCABundleFails
  BY <1>7 DEF buildCABundleFails, Return, Goto
<1>8. CASE Listen
  BY <1>8 DEF Listen, Goto
<1>9. CASE ListenFails
  BY <1>9 DEF ListenFails, Return, Goto
<1>10. CASE StartFails
  BY <1>10 DEF StartFails
<1>11. CASE Fork
  BY <1>11 DEF Fork
<1>12. CASE SetProcess
  BY <1>12 DEF SetProcess
<1>13. CASE RunReturns
  BY <1>13 DEF RunReturns
<1>14. CASE CommandSpawns
  BY <1>14 DEF CommandSpawns
<1>15. CASE DescendantsEnd
  BY <1>15 DEF DescendantsEnd
<1>16. CASE CommandEnds
  BY <1>16 DEF CommandEnds
<1>17. CASE UIStarts
  BY <1>17 DEF UIStarts, Goto
<1>18. CASE UIEnds
  BY <1>18 DEF UIEnds
<1>19. CASE Kill
  BY <1>19 DEF Kill, Goto, HasProcess
<1>20. CASE Collect
  BY <1>20 DEF Collect, Goto
<1>21. CASE Notify
  BY <1>21 DEF Notify, Goto
<1>22. CASE RunIsOver
  BY <1>22 DEF RunIsOver, Goto
<1>23. CASE ForwardSignal
  BY <1>23 DEF ForwardSignal, HasProcess
<1>24. CASE Signal
  BY <1>24 DEF Signal, Notified
<1>25. CASE Drain
  BY <1>25 DEF Drain, Goto
<1>26. CASE finishHAR
  BY <1>26 DEF finishHAR, Goto
<1>27. CASE RunCleanup
  <2>1. CASE cleanups = <<"record">>
    <3>1. cleanups[Len(cleanups)] = "record" /\ cleanups' = <<>>
      BY <1>27, <2>1, WorkedOff DEF RunCleanup
    <3> QED
      BY <1>27, <2>1, <3>1 DEF RunCleanup
  <2>2. CASE cleanups = <<"bundle">>
    <3>1. cleanups[Len(cleanups)] = "bundle" /\ cleanups' = <<>>
      BY <1>27, <2>2, WorkedOff DEF RunCleanup
    <3> QED
      BY <1>27, <2>2, <3>1 DEF RunCleanup
  <2>3. CASE cleanups = <<"record", "bundle">>
    <3>1. cleanups[Len(cleanups)] = "bundle" /\ cleanups' = <<"record">>
      BY <1>27, <2>3, WorkedOff DEF RunCleanup
    <3> QED
      BY <1>27, <2>3, <3>1 DEF RunCleanup
  <2> QED
    BY <1>27, <2>1, <2>2, <2>3 DEF RunCleanup
<1>28. CASE Exit
  BY <1>28 DEF Exit, Goto
<1>29. CASE UNCHANGED vars
  BY <1>29 DEF vars
<1> QED
  BY <1>1, <1>2, <1>3, <1>4, <1>5, <1>6, <1>7, <1>8, <1>9, <1>10, <1>11, <1>12,
     <1>13, <1>14, <1>15, <1>16, <1>17, <1>18, <1>19, <1>20, <1>21, <1>22, <1>23,
     <1>24, <1>25, <1>26, <1>27, <1>28, <1>29 DEF Next, Main, StartUp, Run, World

\* One step keeps the code and the command's end in agreement.
LEMMA OutcomeStep == IInv /\ [Next]_vars => Outcome'
<1> SUFFICES ASSUME IInv, [Next]_vars PROVE Outcome'
  OBVIOUS
<1> USE DEF IInv, TypeOK, Outcome, Ended, flags, resources, outcome, process, signalled
<1>1. CASE FlagsReturn
  BY <1>1 DEF FlagsReturn, Return, Goto
<1>2. CASE openRecordFile
  BY <1>2 DEF openRecordFile, Goto
<1>3. CASE openRecordFileFails
  BY <1>3 DEF openRecordFileFails, Return, Goto
<1>4. CASE Args
  BY <1>4 DEF Args, Goto
<1>5. CASE NoArgs
  BY <1>5 DEF NoArgs, Return, Goto
<1>6. CASE buildCABundle
  BY <1>6 DEF buildCABundle, Goto
<1>7. CASE buildCABundleFails
  BY <1>7 DEF buildCABundleFails, Return, Goto
<1>8. CASE Listen
  BY <1>8 DEF Listen, Goto
<1>9. CASE ListenFails
  BY <1>9 DEF ListenFails, Return, Goto
<1>10. CASE StartFails
  BY <1>10 DEF StartFails
<1>11. CASE Fork
  BY <1>11 DEF Fork
<1>12. CASE SetProcess
  BY <1>12 DEF SetProcess
<1>13. CASE RunReturns
  BY <1>13 DEF RunReturns
<1>14. CASE CommandSpawns
  BY <1>14 DEF CommandSpawns
<1>15. CASE DescendantsEnd
  BY <1>15 DEF DescendantsEnd
<1>16. CASE CommandEnds
  BY <1>16 DEF CommandEnds
<1>17. CASE UIStarts
  BY <1>17 DEF UIStarts, Goto
<1>18. CASE UIEnds
  BY <1>18 DEF UIEnds
<1>19. CASE Kill
  BY <1>19 DEF Kill, Goto, HasProcess
<1>20. CASE Collect
  BY <1>20 DEF Collect, Goto
<1>21. CASE Notify
  BY <1>21 DEF Notify, Goto
<1>22. CASE RunIsOver
  BY <1>22 DEF RunIsOver, Goto
<1>23. CASE ForwardSignal
  BY <1>23 DEF ForwardSignal, HasProcess
<1>24. CASE Signal
  BY <1>24 DEF Signal, Notified
<1>25. CASE Drain
  BY <1>25 DEF Drain, Goto
<1>26. CASE finishHAR
  BY <1>26 DEF finishHAR, Goto
<1>27. CASE RunCleanup
  BY <1>27 DEF RunCleanup
<1>28. CASE Exit
  BY <1>28 DEF Exit, Goto
<1>29. CASE UNCHANGED vars
  BY <1>29 DEF vars
<1> QED
  BY <1>1, <1>2, <1>3, <1>4, <1>5, <1>6, <1>7, <1>8, <1>9, <1>10, <1>11, <1>12,
     <1>13, <1>14, <1>15, <1>16, <1>17, <1>18, <1>19, <1>20, <1>21, <1>22, <1>23,
     <1>24, <1>25, <1>26, <1>27, <1>28, <1>29 DEF Next, Main, StartUp, Run, World

\* The strengthening is an invariant.
LEMMA Invariance == Spec => []IInv
<1>1. IInv /\ [Next]_vars => IInv'
  BY TypeStep, HeldStep, OutcomeStep DEF IInv
<1> QED
  BY InitIInv, <1>1, PTL DEF Spec

-----------------------------------------------------------------------------

\* The state of the program keeps its type.
THEOREM TypeCorrect == Spec => []TypeOK
  BY Invariance, PTL DEF IInv

\* However run returns, it gives back what it took (main.go:250-268, 987-988).
THEOREM EverythingIsReleased == Spec => []Released
<1>1. IInv => Released
  BY DEF IInv, TypeOK, Held, Released
<1> QED
  BY Invariance, <1>1, PTL

\* As long as the command runs and httpmon was not killed, the bundle and the record
\* file are there (main.go:1190-1253).
THEOREM CommandIsAlwaysServed == Spec => []CommandIsServed
<1>1. IInv => CommandIsServed
  BY DEF IInv, TypeOK, Held, Outcome, CommandIsServed, Ended
<1> QED
  BY Invariance, <1>1, PTL

\* The exit code is the command's own, or says that something failed
\* (README.md:119, main.go:1263-1276).
THEOREM CodeIsAlwaysHonest == Spec => []CodeIsHonest
<1>1. IInv => CodeIsHonest
  BY DEF IInv, TypeOK, Outcome, CodeIsHonest, Ended
<1> QED
  BY Invariance, <1>1, PTL
=============================================================================
