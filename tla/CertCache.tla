------------------------------ MODULE CertCache ------------------------------
(***************************************************************************)
(* generateCert and startCertJanitor (main.go): the cache of the leaf      *)
(* certificates that httpmon signs for the hosts of CONNECT tunnels.       *)
(*                                                                         *)
(* Every tunnel's goroutine looks its host up under certMu, signs a        *)
(* certificate with the mutex released when it finds none that is fresh,   *)
(* and looks again before it stores its own.  A janitor sweeps expired     *)
(* entries; it reads the clock before it takes the mutex.                  *)
(*                                                                         *)
(* Time is a number of ticks.  A certificate is known by the caller that   *)
(* signed it: each caller makes one call.                                  *)
(***************************************************************************)
EXTENDS Naturals

CONSTANTS Hosts,
          Callers,   \* calls of generateCert
          NoEntry,   \* no certificate under this host
          certTTL,   \* --cert-ttl, 0 disables caching
          MaxTime    \* the clock stops here (bounds the state space)

ASSUME TimeAssumption == certTTL \in Nat /\ MaxTime \in Nat

VARIABLES now,      \* the clock
          cache,    \* certCache: the entry of each host
          pc,       \* "idle", "generate", "store", "done", "failed"
          host,     \* the host of each call
          result,   \* the certificate each call returned
          lease,    \* history: [from, to), when it returned and when its entry expires
          janitor,  \* "asleep", "awake" (the clock read, the mutex not taken)
          sweepTime \* what the janitor read

vars == <<now, cache, pc, host, result, lease, janitor, sweepTime>>

Entry == [cert : Callers, expiresAt : 0 .. MaxTime + certTTL]

ASSUME NoEntryAssumption == NoEntry \notin Callers /\ NoEntry \notin Entry

Init == /\ now = 0
        /\ cache = [h \in Hosts |-> NoEntry]
        /\ pc = [c \in Callers |-> "idle"]
        /\ host \in [Callers -> Hosts]
        /\ result = [c \in Callers |-> NoEntry]
        /\ lease = [c \in Callers |-> [from |-> 0, to |-> 0]]
        /\ janitor = "asleep"
        /\ sweepTime = 0

Tick == /\ now < MaxTime
        /\ now' = now + 1
        /\ UNCHANGED <<cache, pc, host, result, lease, janitor, sweepTime>>

\* The test of both looks: there is an entry, and time.Now().Before(expiresAt).
Fresh(h) == cache[h] # NoEntry /\ now < cache[h].expiresAt

Return(c, cert, until) ==
  /\ pc' = [pc EXCEPT ![c] = "done"]
  /\ result' = [result EXCEPT ![c] = cert]
  /\ lease' = [lease EXCEPT ![c] = [from |-> now, to |-> until]]

-----------------------------------------------------------------------------
(* generateCert *)

\* The fast path, under certMu.
Lookup(c) ==
  /\ pc[c] = "idle"
  /\ \/ /\ Fresh(host[c])
        /\ Return(c, cache[host[c]].cert, cache[host[c]].expiresAt)
     \/ /\ ~Fresh(host[c])
        /\ pc' = [pc EXCEPT ![c] = "generate"]
        /\ UNCHANGED <<result, lease>>
  /\ UNCHANGED <<now, cache, host, janitor, sweepTime>>

\* The key and the certificate are made outside the mutex; either may fail.
Generate(c) ==
  /\ pc[c] = "generate"
  /\ \E outcome \in {"store", "failed"} : pc' = [pc EXCEPT ![c] = outcome]
  /\ UNCHANGED <<now, cache, host, result, lease, janitor, sweepTime>>

\* Mutant: the second look is left out.
Store_NoRecheck(c) ==
  /\ pc[c] = "store"
  /\ cache' = [cache EXCEPT ![host[c]] = [cert |-> c, expiresAt |-> now + certTTL]]
  /\ Return(c, c, now + certTTL)
  /\ UNCHANGED <<now, host, janitor, sweepTime>>

\* Under certMu: another call may have stored a certificate meanwhile.
Store(c) ==
  /\ pc[c] = "store"
  /\ \/ /\ certTTL > 0 /\ Fresh(host[c])
        /\ Return(c, cache[host[c]].cert, cache[host[c]].expiresAt)
        /\ UNCHANGED cache
     \/ /\ certTTL > 0 /\ ~Fresh(host[c])
        /\ cache' = [cache EXCEPT ![host[c]] = [cert |-> c, expiresAt |-> now + certTTL]]
        /\ Return(c, c, now + certTTL)
     \/ /\ certTTL = 0
        /\ Return(c, c, now)
        /\ UNCHANGED cache
  /\ UNCHANGED <<now, host, janitor, sweepTime>>

-----------------------------------------------------------------------------
(* The janitor, which run starts only when certTTL > 0 *)

\* The ticker fires; the clock is read.
Wake == /\ certTTL > 0
        /\ janitor = "asleep"
        /\ janitor' = "awake"
        /\ sweepTime' = now
        /\ UNCHANGED <<now, cache, pc, host, result, lease>>

\* Mutant: the comparison is the wrong way round.
Sweep_Reversed ==
  /\ janitor = "awake"
  /\ janitor' = "asleep"
  /\ cache' = [h \in Hosts |-> IF cache[h] # NoEntry /\ sweepTime < cache[h].expiresAt
                                 THEN NoEntry ELSE cache[h]]
  /\ UNCHANGED <<now, pc, host, result, lease, sweepTime>>

\* Under certMu: entries with now.After(expiresAt) go.
Sweep == /\ janitor = "awake"
         /\ janitor' = "asleep"
         /\ cache' = [h \in Hosts |-> IF cache[h] # NoEntry /\ sweepTime > cache[h].expiresAt
                                        THEN NoEntry ELSE cache[h]]
         /\ UNCHANGED <<now, pc, host, result, lease, sweepTime>>

-----------------------------------------------------------------------------

Call(c) == Lookup(c) \/ Generate(c) \/ Store(c)

Next == Tick \/ Wake \/ Sweep \/ \E c \in Callers : Call(c)

\* The clock runs, the ticker fires, and the janitor gets the mutex.
Fairness == WF_vars(Tick) /\ WF_vars(Wake) /\ WF_vars(Sweep)

Spec     == Init /\ [][Next]_vars
FairSpec == Spec /\ Fairness

-----------------------------------------------------------------------------
(* Properties *)

TypeOK == /\ now \in 0 .. MaxTime
          /\ cache \in [Hosts -> Entry \cup {NoEntry}]
          /\ pc \in [Callers -> {"idle", "generate", "store", "done", "failed"}]
          /\ host \in [Callers -> Hosts]
          /\ result \in [Callers -> Callers \cup {NoEntry}]
          /\ lease \in [Callers -> [from : 0 .. MaxTime, to : 0 .. MaxTime + certTTL]]
          /\ janitor \in {"asleep", "awake"}
          /\ sweepTime \in 0 .. now

\* A fresh entry is neither replaced by a call that signed its own certificate
\* meanwhile nor evicted by a sweep, however old the sweep's reading of the
\* clock (main.go:336-338, 383-391).
FreshEntryStays == [][\A h \in Hosts : Fresh(h) => cache'[h] = cache[h]]_vars

\* "Only one cert per host ends up in the cache even if two goroutines race":
\* calls for one host that return within the life of one entry return the same
\* certificate, and it was signed for that host.
OneCertPerHost ==
  \A c, d \in Callers :
    (pc[c] = "done" /\ pc[d] = "done" /\ host[c] = host[d]) =>
       /\ host[result[c]] = host[c]
       /\ lease[c].from <= lease[d].from /\ lease[d].from < lease[c].to
            => result[c] = result[d]

\* An expired entry does not stay in the cache: it is swept or replaced.
ExpiredIsEvicted ==
  \A h \in Hosts : \A c \in Callers :
    (cache[h] # NoEntry /\ cache[h].cert = c /\ cache[h].expiresAt < MaxTime)
       ~> (cache[h] = NoEntry \/ cache[h].cert # c)
=============================================================================
