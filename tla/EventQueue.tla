----------------------------- MODULE EventQueue -----------------------------
(***************************************************************************)
(* eventQueue (tui.go): the unbounded queue that carries the events of the *)
(* proxy's goroutines to the terminal UI.                                  *)
(*                                                                         *)
(* push appends under the mutex and, the mutex released, puts a token into *)
(* "ready", a channel with room for one; if a token is there already it    *)
(* leaves none.  pop takes the first event under the mutex, and when there *)
(* is none waits for a token, the mutex released, and looks again.  So a   *)
(* token may be stale, one token may stand for many events, and an event   *)
(* may be taken before its token is left.                                  *)
(*                                                                         *)
(* There is one consumer: the UI has one outstanding listenTUI at a time.  *)
(* Producer p pushes <<p, 1>>, <<p, 2>> and so on.                         *)
(***************************************************************************)
EXTENDS Naturals, Sequences

CONSTANTS Producers,  \* goroutines that push
          MaxPushes   \* events each of them pushes (bounds the state space)

ASSUME MaxPushesAssumption == MaxPushes \in Nat

VARIABLES items,     \* events queued
          token,     \* there is one in "ready"
          signalling,  \* producers between their append and their signal
          pushes,    \* number of events each producer has pushed
          consumer,  \* "away", "look" (before the lock), "unlocked", "wait" (on ready)
          pushed,    \* history: the events in the order they were appended
          popped     \* history: the events in the order they were returned

queueVars == <<items, token, signalling, pushes, consumer, pushed, popped>>

Event == Producers \X (1 .. MaxPushes)

QueueInit == /\ items = <<>>
             /\ token = FALSE
             /\ signalling = {}
             /\ pushes = [p \in Producers |-> 0]
             /\ consumer = "away"
             /\ pushed = <<>>
             /\ popped = <<>>

\* push, up to the release of the mutex.
push(p) ==
  /\ p \notin signalling
  /\ pushes[p] < MaxPushes
  /\ pushes' = [pushes EXCEPT ![p] = @ + 1]
  /\ items'  = Append(items, <<p, pushes[p] + 1>>)
  /\ pushed' = Append(pushed, <<p, pushes[p] + 1>>)
  /\ signalling' = signalling \cup {p}
  /\ UNCHANGED <<token, consumer, popped>>

\* Mutant: the send is dropped unless the consumer is there to receive it.
Signal_Unbuffered(p) ==
  /\ p \in signalling
  /\ signalling' = signalling \ {p}
  /\ token' = (token \/ consumer = "wait")
  /\ UNCHANGED <<items, pushes, consumer, pushed, popped>>

\* The rest of push: the send that gives up when the channel is full.
Signal(p) ==
  /\ p \in signalling
  /\ signalling' = signalling \ {p}
  /\ token' = TRUE
  /\ UNCHANGED <<items, pushes, consumer, pushed, popped>>

\* listenTUI calls pop.
Listen == /\ consumer = "away"
          /\ consumer' = "look"
          /\ UNCHANGED <<items, token, signalling, pushes, pushed, popped>>

\* Mutant: the newest event is returned.
Look_Newest ==
  /\ consumer = "look"
  /\ \/ /\ items # <<>>
        /\ popped' = Append(popped, items[Len(items)])
        /\ items' = SubSeq(items, 1, Len(items) - 1)
        /\ consumer' = "away"
     \/ /\ items = <<>>
        /\ consumer' = "unlocked"
        /\ UNCHANGED <<items, popped>>
  /\ UNCHANGED <<token, signalling, pushes, pushed>>

\* pop, under the mutex: return the first event, or go and wait.
Look == /\ consumer = "look"
        /\ \/ /\ items # <<>>
              /\ popped' = Append(popped, Head(items))
              /\ items' = Tail(items)
              /\ consumer' = "away"
           \/ /\ items = <<>>
              /\ consumer' = "unlocked"
              /\ UNCHANGED <<items, popped>>
        /\ UNCHANGED <<token, signalling, pushes, pushed>>

\* Having found nothing and released the mutex, pop comes to the channel.
Wait == /\ consumer = "unlocked"
        /\ consumer' = "wait"
        /\ UNCHANGED <<items, token, signalling, pushes, pushed, popped>>

\* pop receives the token and goes back to look.
Wake == /\ consumer = "wait" /\ token
        /\ token' = FALSE
        /\ consumer' = "look"
        /\ UNCHANGED <<items, signalling, pushes, pushed, popped>>

QueueNext == (\E p \in Producers : push(p) \/ Signal(p)) \/ Listen \/ Look \/ Wait \/ Wake

\* A goroutine that has appended leaves its token, and the UI goes on calling
\* pop.  No producer is bound to push.
QueueFairness == /\ \A p \in Producers : WF_queueVars(Signal(p))
                 /\ WF_queueVars(Listen) /\ WF_queueVars(Look) /\ WF_queueVars(Wait) /\ WF_queueVars(Wake)

QueueSpec     == QueueInit /\ [][QueueNext]_queueVars
QueueFairSpec == QueueSpec /\ QueueFairness

-----------------------------------------------------------------------------
(* Properties *)

QueueTypeOK == /\ items \in Seq(Event)
               /\ token \in BOOLEAN
               /\ signalling \subseteq Producers
               /\ pushes \in [Producers -> 0 .. MaxPushes]
               /\ consumer \in {"away", "look", "unlocked", "wait"}
               /\ pushed \in Seq(Event)
               /\ popped \in Seq(Event)

\* The consumer never sleeps on an event: when it has found the queue empty, or
\* waits, and there is one, a token is in the channel or on its way (tui.go:57-60,
\* "leaving entries stuck as pending forever").
NoLostWakeup ==
  (consumer \in {"unlocked", "wait"} /\ items # <<>>) => (token \/ signalling # {})

\* Events are returned in the order they were appended, none lost, none twice.
InOrder == pushed = popped \o items

\* Every event pushed is returned.
EveryEventArrives ==
  \A p \in Producers : \A n \in 1 .. MaxPushes :
    (pushes[p] >= n) ~> (\E i \in 1 .. Len(popped) : popped[i] = <<p, n>>)
=============================================================================
