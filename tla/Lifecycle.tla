------------------------------ MODULE Lifecycle ------------------------------
(***************************************************************************)
(* The life of the program: run (main.go), which takes the record file and *)
(* the CA bundle, starts the proxy and the wrapped command, waits for it,  *)
(* with the terminal UI in front or without, and gives back what it took.  *)
(*                                                                         *)
(* With --ui the command is run by a goroutine of its own (cmd.Run and     *)
(* exitCh) while main sits in the UI; without, main runs it and another    *)
(* goroutine passes signals on.  cmd.Process is set by cmd.Run and read by *)
(* those others without any synchronisation: a read finds it nil or set.   *)
(*                                                                         *)
(* A signal that nobody has asked for ends a Go program on the spot, with  *)
(* no cleanup: "killed".  bubbletea asks for signals while it runs.        *)
(***************************************************************************)
EXTENDS Naturals, Sequences

CONSTANT MaxSignals   \* SIGINT and SIGTERM sent to httpmon (bounds the state space)

ASSUME MaxSignalsAssumption == MaxSignals \in Nat

VARIABLES
  ui, recordMode, harMode,  \* the flags
  pc,         \* main, through run
  cleanups,   \* what addCleanup has registered
  recordFile, \* "none", "open", "closed"
  bundle,     \* the temporary CA file: "none", "present", "removed"
  halfBuilt,  \* writing the bundle failed (history)
  code,       \* the exit code: "zero", "failed" (1), "other", "signalled" (-1)
  harLost,    \* the HAR file could not be written (history)
  runner,     \* cmd.Run: "off", "starting", "forked", "waiting", "done"
  command,    \* the process: "none", "running", or how it has ended
  pipeHeld,   \* a descendant of the command keeps its output open
  exitCh,     \* the buffered channel, empty or with the code
  sigCh,      \* the buffered channel holds a signal
  forwarder,  \* the signal goroutine: "off", "waiting", "done"
  told,       \* the command has been sent a signal by httpmon (history)
  signals,    \* sent so far
  firstSignal \* where cmd.Run was when the first one came (history)

flags     == <<ui, recordMode, harMode>>
resources == <<cleanups, recordFile, bundle, halfBuilt>>
outcome   == <<code, harLost>>
process   == <<runner, command, pipeHeld, exitCh>>
signalled == <<sigCh, forwarder, told, signals, firstSignal>>
vars == <<flags, pc, resources, outcome, process, signalled>>

\* How a command ends: by itself with 0 or another code, or killed by a signal.
Ended == {"zero", "other", "signalled"}

Init == /\ ui \in BOOLEAN /\ recordMode \in BOOLEAN /\ harMode \in BOOLEAN
        /\ pc = "flags"
        /\ cleanups = <<>> /\ recordFile = "none" /\ bundle = "none" /\ halfBuilt = FALSE
        /\ code = "zero" /\ harLost = FALSE
        /\ runner = "off" /\ command = "none" /\ pipeHeld = FALSE /\ exitCh = "empty"
        /\ sigCh = FALSE /\ forwarder = "off" /\ told = FALSE
        /\ signals = 0 /\ firstSignal = "none"

Alive == pc \notin {"exited", "killed"}

Goto(from, to) == pc = from /\ pc' = to

\* An early return of run, with the cleanups registered so far still to come.
Return(from, c) == /\ Goto(from, "cleanup")
                   /\ code' = c
                   /\ UNCHANGED harLost

-----------------------------------------------------------------------------
(* Start-up *)

\* --version, --replay, or flags that make no sense: nothing has been taken.
FlagsReturn == /\ \E c \in {"zero", "failed", "other"} : Return("flags", c)
               /\ UNCHANGED <<flags, resources, process, signalled>>

openRecordFile ==
  /\ Goto("flags", "args")
  /\ IF recordMode THEN recordFile' = "open" /\ cleanups' = Append(cleanups, "record")
                   ELSE UNCHANGED <<recordFile, cleanups>>
  /\ UNCHANGED <<flags, bundle, halfBuilt, outcome, process, signalled>>

openRecordFileFails == /\ recordMode /\ Return("flags", "failed")
                       /\ UNCHANGED <<flags, resources, process, signalled>>

\* A command was given, or was not.
Args == /\ Goto("args", "caBundle")
        /\ UNCHANGED <<flags, resources, outcome, process, signalled>>

NoArgs == /\ Return("args", "failed")
          /\ UNCHANGED <<flags, resources, process, signalled>>

buildCABundle == /\ Goto("caBundle", "listen")
                 /\ bundle' = "present" /\ cleanups' = Append(cleanups, "bundle")
                 /\ UNCHANGED <<flags, recordFile, halfBuilt, outcome, process, signalled>>

\* The file is not created; or it is, but not written, and its path is lost.
buildCABundleFails ==
  /\ Return("caBundle", "failed")
  /\ \/ UNCHANGED <<bundle, halfBuilt>>
     \/ bundle' = "present" /\ halfBuilt' = TRUE
  /\ UNCHANGED <<flags, cleanups, recordFile, process, signalled>>

\* The proxy listens and is served; with --ui the command is started at once.
Listen == /\ Goto("listen", IF ui THEN "uiStart" ELSE "notify")
          /\ runner' = IF ui THEN "starting" ELSE "off"
          /\ UNCHANGED <<flags, resources, outcome, command, pipeHeld, exitCh, signalled>>

\* Mutant: the port is taken, and the program is left by os.Exit.
ListenFails_Exits == /\ Goto("listen", "exited")
                     /\ code' = "failed"
                     /\ UNCHANGED <<flags, resources, harLost, process, signalled>>

ListenFails == /\ Return("listen", "failed")
               /\ UNCHANGED <<flags, resources, process, signalled>>

-----------------------------------------------------------------------------
(* cmd.Run *)

StartFails == /\ Alive /\ runner = "starting"
              /\ runner' = "done"
              /\ exitCh' = "failed"
              /\ UNCHANGED <<flags, pc, resources, outcome, command, pipeHeld, signalled>>

Fork == /\ Alive /\ runner = "starting"
        /\ runner' = "forked" /\ command' = "running"
        /\ UNCHANGED <<flags, pc, resources, outcome, pipeHeld, exitCh, signalled>>

\* cmd.Process, from here on.
SetProcess == /\ Alive /\ runner = "forked"
              /\ runner' = "waiting"
              /\ UNCHANGED <<flags, pc, resources, outcome, command, pipeHeld, exitCh, signalled>>

HasProcess == runner \in {"waiting", "done"} /\ command # "none"

\* With --ui the output is copied from a pipe, and cmd.Run waits for its end too.
\* The code goes to exitCh, or is the local exitCode.
RunReturns == /\ Alive /\ runner = "waiting" /\ command \in Ended
              /\ ui => ~pipeHeld
              /\ runner' = "done" /\ exitCh' = command
              /\ UNCHANGED <<flags, pc, resources, outcome, command, pipeHeld, signalled>>

\* The command (external).  It may leave descendants, and survive httpmon.
CommandSpawns == /\ command = "running"
                 /\ pipeHeld' = TRUE
                 /\ UNCHANGED <<flags, pc, resources, outcome, runner, command, exitCh, signalled>>

DescendantsEnd == /\ pipeHeld /\ pipeHeld' = FALSE
                  /\ UNCHANGED <<flags, pc, resources, outcome, runner, command, exitCh, signalled>>

CommandEnds == /\ command = "running"
               /\ command' \in Ended
               /\ UNCHANGED <<flags, pc, resources, outcome, runner, pipeHeld, exitCh, signalled>>

-----------------------------------------------------------------------------
(* With the UI *)

\* bubbletea has taken over the terminal and the signals.
UIStarts == /\ Goto("uiStart", "ui")
            /\ UNCHANGED <<flags, resources, outcome, process, signalled>>

\* The user quits, or the terminal fails.
UIEnds == /\ pc' = "kill" /\ pc \in {"uiStart", "ui"}
          /\ UNCHANGED <<flags, resources, outcome, process, signalled>>

\* Mutant: a command without a Process is not waited for.
Kill_NoWait ==
  /\ Goto("kill", IF HasProcess THEN "collect" ELSE "drain")
  /\ command' = IF HasProcess /\ command = "running" THEN "signalled" ELSE command
  /\ UNCHANGED <<flags, resources, outcome, runner, pipeHeld, exitCh, signalled>>

\* Mutant: the command is asked to end, and may go on.
Kill_Politely ==
  /\ Goto("kill", "collect")
  /\ UNCHANGED <<flags, resources, outcome, process, signalled>>

\* The command is killed, if there is a Process and it still runs.
Kill == /\ Goto("kill", "collect")
        /\ command' = IF HasProcess /\ command = "running" THEN "signalled" ELSE command
        /\ UNCHANGED <<flags, resources, outcome, runner, pipeHeld, exitCh, signalled>>

Collect == /\ Goto("collect", "drain")
           /\ exitCh # "empty"
           /\ code' = exitCh
           /\ UNCHANGED <<flags, resources, harLost, process, signalled>>

-----------------------------------------------------------------------------
(* Without the UI *)

\* signal.Notify, the goroutine, and cmd.Run.
Notify == /\ Goto("notify", "run")
          /\ forwarder' = "waiting" /\ runner' = "starting"
          /\ UNCHANGED <<flags, resources, outcome, command, pipeHeld, exitCh, sigCh, told, signals,
                         firstSignal>>

RunIsOver == /\ Goto("run", "drain")
             /\ runner = "done"
             /\ code' = exitCh
             /\ UNCHANGED <<flags, resources, harLost, process, signalled>>

\* The goroutine takes one signal, and passes it on if there is a Process.
ForwardSignal == /\ Alive /\ forwarder = "waiting" /\ sigCh
                 /\ sigCh' = FALSE /\ forwarder' = "done"
                 /\ told' = (HasProcess /\ command = "running")
                 /\ UNCHANGED <<flags, pc, resources, outcome, process, signals, firstSignal>>

-----------------------------------------------------------------------------
(* Signals *)

\* From signal.Notify to the end: not when run returns before it, nor with the UI.
Notified == forwarder # "off"

\* signal.Notify keeps one and drops what does not fit; bubbletea ends the UI.
Signal == /\ Alive /\ signals < MaxSignals
          /\ signals' = signals + 1
          /\ firstSignal' = IF signals = 0 THEN runner ELSE firstSignal
          /\ sigCh' = (sigCh \/ Notified)
          /\ pc' = IF Notified THEN pc ELSE IF pc = "ui" THEN "kill" ELSE "killed"
          /\ UNCHANGED <<flags, resources, outcome, process, forwarder, told>>

-----------------------------------------------------------------------------
(* The end *)

\* drainInflight, which module Forward has in detail: it always ends.
Drain == /\ Goto("drain", "har")
         /\ UNCHANGED <<flags, resources, outcome, process, signalled>>

\* Mutant: the command's code is all that counts.
finishHAR_Silent ==
  /\ Goto("har", "cleanup")
  /\ \/ UNCHANGED <<code, harLost>>
     \/ harMode /\ harLost' = TRUE /\ UNCHANGED code
  /\ UNCHANGED <<flags, resources, process, signalled>>

\* The HAR is written, or the failure shows in a code that would have been 0.
finishHAR ==
  /\ Goto("har", "cleanup")
  /\ \/ UNCHANGED <<code, harLost>>
     \/ /\ harMode /\ harLost' = TRUE
        /\ code' = IF code = "zero" THEN "failed" ELSE code
  /\ UNCHANGED <<flags, resources, process, signalled>>

\* runCleanups, last registered first, one at a time.
RunCleanup ==
  /\ pc = "cleanup" /\ cleanups # <<>>
  /\ LET last == cleanups[Len(cleanups)]
     IN  /\ recordFile' = IF last = "record" THEN "closed" ELSE recordFile
         /\ bundle' = IF last = "bundle" THEN "removed" ELSE bundle
  /\ cleanups' = SubSeq(cleanups, 1, Len(cleanups) - 1)
  /\ UNCHANGED <<flags, pc, halfBuilt, outcome, process, signalled>>

\* os.Exit(code).
Exit == /\ cleanups = <<>>
        /\ Goto("cleanup", "exited")
        /\ UNCHANGED <<flags, resources, outcome, process, signalled>>

-----------------------------------------------------------------------------

StartUp == \/ FlagsReturn \/ openRecordFile \/ openRecordFileFails \/ Args \/ NoArgs
           \/ buildCABundle \/ buildCABundleFails \/ Listen \/ ListenFails

Run == StartFails \/ Fork \/ SetProcess \/ RunReturns

Main == \/ StartUp \/ UIStarts \/ Kill \/ Collect \/ Notify \/ RunIsOver
        \/ Drain \/ finishHAR \/ RunCleanup \/ Exit

World == CommandSpawns \/ DescendantsEnd \/ CommandEnds \/ UIEnds \/ Signal

Next == Main \/ Run \/ ForwardSignal \/ World

\* The program's goroutines run when they can.  Nothing is promised of the
\* command, the user, or who sends signals.
Fairness == WF_vars(Main) /\ WF_vars(Run) /\ WF_vars(ForwardSignal)

Spec     == Init /\ [][Next]_vars
FairSpec == Spec /\ Fairness

-----------------------------------------------------------------------------
(* Properties *)

TypeOK ==
  /\ ui \in BOOLEAN /\ recordMode \in BOOLEAN /\ harMode \in BOOLEAN
  /\ pc \in {"flags", "args", "caBundle", "listen", "uiStart", "ui", "kill", "collect",
             "notify", "run", "drain", "har", "cleanup", "exited", "killed"}
  /\ cleanups \in {<<>>, <<"record">>, <<"bundle">>, <<"record", "bundle">>}
  /\ recordFile \in {"none", "open", "closed"} /\ bundle \in {"none", "present", "removed"}
  /\ halfBuilt \in BOOLEAN
  /\ code \in Ended \cup {"failed"} /\ harLost \in BOOLEAN
  /\ runner \in {"off", "starting", "forked", "waiting", "done"}
  /\ command \in Ended \cup {"none", "running"} /\ pipeHeld \in BOOLEAN
  /\ exitCh \in Ended \cup {"empty", "failed"}
  /\ sigCh \in BOOLEAN /\ forwarder \in {"off", "waiting", "done"} /\ told \in BOOLEAN
  /\ signals \in 0 .. MaxSignals
  /\ firstSignal \in {"none", "off", "starting", "forked", "waiting", "done"}

\* "Every exit path returns a code instead of calling os.Exit directly, which
\* would skip cleanup" (main.go:987-988): however run returns, the record file has
\* been closed and the temporary CA bundle removed, but for one that
\* buildCABundle failed to write, whose path it does not return (main.go:903).
Released == pc = "exited" => recordFile # "open" /\ (bundle = "present" => halfBuilt)

\* The command never runs without what httpmon has given it: as long as it lives
\* and no signal has killed httpmon, the bundle its environment names is there,
\* the proxy's port is held, and its exchanges can be recorded; also when the UI is quit
\* before cmd.Process is set (main.go:1213-1217).
CommandIsServed ==
  (command = "running" /\ pc # "killed") =>
     /\ pc \in {"uiStart", "ui", "kill", "collect", "run"}
     /\ bundle = "present"
     /\ recordMode => recordFile = "open"

\* The exit code is the command's own (README.md:119); it is 1 if the command did not
\* start; and lost traffic never ends in a 0 (main.go:1263-1264).
CodeIsHonest ==
  pc = "exited" =>
    /\ command # "none" => /\ command \in Ended
                           /\ code = command \/ (command = "zero" /\ harLost /\ code = "failed")
    /\ (command = "none" /\ runner # "off") => code = "failed"
    /\ harLost => code # "zero"

Over == pc \in {"exited", "killed"}

\* httpmon ends with its command; when the UI is quit with the command running, the
\* command is ended too, unless a descendant keeps its output open; and the first signal
\* that comes once the command runs reaches it.
StopsWhenAsked ==
  /\ (pc = "run" /\ command \in Ended) ~> Over
  /\ (pc = "kill" /\ runner = "waiting") ~> Over \/ pipeHeld
  /\ (~ui /\ firstSignal = "waiting") ~> told \/ command \in Ended
=============================================================================
