-------------------------- MODULE CertCache_proofs --------------------------
(***************************************************************************)
(* Proofs about CertCache, for any hosts, any number of concurrent calls   *)
(* and any TTL.  The inductive invariant ties each call that has returned  *)
(* to the cache: while its entry lives, the cache holds exactly the        *)
(* certificate it returned, until the same instant (LeaseInv).             *)
(***************************************************************************)
EXTENDS CertCache, TLAPS

\* The certificate under a host was signed for that host; with --cert-ttl 0
\* there is none.
CacheInv == \A h \in Hosts : cache[h] # NoEntry => host[cache[h].cert] = h /\ certTTL > 0

LeaseInv ==
  \A c \in Callers : pc[c] = "done" =>
    /\ result[c] \in Callers /\ host[result[c]] = host[c]
    /\ lease[c].from <= now
    /\ certTTL > 0 => lease[c].from < lease[c].to
    /\ certTTL = 0 => lease[c].from = lease[c].to
    /\ now < lease[c].to => /\ cache[host[c]] # NoEntry
                            /\ cache[host[c]].cert = result[c]
                            /\ cache[host[c]].expiresAt = lease[c].to

IInv == TypeOK /\ CacheInv /\ LeaseInv /\ OneCertPerHost

-----------------------------------------------------------------------------

\* What is known of an entry that is there, and of one that a call may store.
LEMMA EntryTyped ==
  ASSUME TypeOK
  PROVE  /\ \A h \in Hosts : cache[h] # NoEntry => /\ cache[h].cert \in Callers
                                                   /\ cache[h].expiresAt \in 0 .. MaxTime + certTTL
         /\ \A c \in Callers : /\ [cert |-> c, expiresAt |-> now + certTTL] \in Entry
                               /\ [cert |-> c, expiresAt |-> now + certTTL] # NoEntry
  BY TimeAssumption, NoEntryAssumption DEF TypeOK, Entry

\* The return of a call keeps the types, given a certificate and an end of its
\* lease that have theirs.
LEMMA ReturnTyped ==
  ASSUME TypeOK, NEW c \in Callers, NEW cert \in Callers,
         NEW until \in 0 .. MaxTime + certTTL, Return(c, cert, until)
  PROVE  /\ pc' \in [Callers -> {"idle", "generate", "store", "done", "failed"}]
         /\ result' \in [Callers -> Callers \cup {NoEntry}]
         /\ lease' \in [Callers -> [from : 0 .. MaxTime, to : 0 .. MaxTime + certTTL]]
         /\ pc'[c] = "done" /\ result'[c] = cert
         /\ lease'[c].from = now /\ lease'[c].to = until
         /\ \A d \in Callers \ {c} : /\ pc'[d] = pc[d] /\ result'[d] = result[d]
                                     /\ lease'[d] = lease[d]
  BY DEF TypeOK, Return

\* One step keeps the types.
LEMMA TypeStep == TypeOK /\ [Next]_vars => TypeOK'
<1> SUFFICES ASSUME TypeOK, [Next]_vars PROVE TypeOK'
  OBVIOUS
<1>1. CASE Tick
  BY <1>1, TimeAssumption DEF Tick, TypeOK
<1>2. CASE Wake
  BY <1>2, TimeAssumption DEF Wake, TypeOK
<1>3. CASE Sweep
  BY <1>3 DEF Sweep, TypeOK
<1>4. ASSUME NEW c \in Callers, Lookup(c) PROVE TypeOK'
  <2>1. host[c] \in Hosts
    BY DEF TypeOK
  <2>2. CASE Fresh(host[c])
    BY <1>4, <2>1, <2>2, EntryTyped, ReturnTyped DEF Lookup, Fresh, TypeOK
  <2>3. CASE ~Fresh(host[c])
    BY <1>4, <2>3 DEF Lookup, TypeOK
  <2> QED
    BY <2>2, <2>3
<1>5. ASSUME NEW c \in Callers, Generate(c) PROVE TypeOK'
  BY <1>5 DEF Generate, TypeOK
<1>6. ASSUME NEW c \in Callers, Store(c) PROVE TypeOK'
  <2>1. host[c] \in Hosts /\ now \in 0 .. MaxTime + certTTL /\ now + certTTL \in 0 .. MaxTime + certTTL
    BY TimeAssumption DEF TypeOK
  <2>2. CASE certTTL > 0 /\ Fresh(host[c])
    BY <1>6, <2>1, <2>2, EntryTyped, ReturnTyped DEF Store, Fresh, TypeOK
  <2>3. CASE certTTL > 0 /\ ~Fresh(host[c])
    <3>1. /\ cache' = [cache EXCEPT ![host[c]] = [cert |-> c, expiresAt |-> now + certTTL]]
          /\ Return(c, c, now + certTTL)
          /\ UNCHANGED <<now, host, janitor, sweepTime>>
      BY <1>6, <2>3 DEF Store
    <3>2. cache' \in [Hosts -> Entry \cup {NoEntry}]
      BY <2>1, <3>1, EntryTyped DEF TypeOK
    <3> QED
      BY <2>1, <3>1, <3>2, ReturnTyped DEF TypeOK
  <2>4. CASE certTTL = 0
    BY <1>6, <2>1, <2>4, ReturnTyped DEF Store, TypeOK
  <2> QED
    BY <1>6, <2>2, <2>3, <2>4 DEF Store
<1>7. CASE UNCHANGED vars
  BY <1>7 DEF vars, TypeOK
<1> QED
  BY <1>1, <1>2, <1>3, <1>4, <1>5, <1>6, <1>7 DEF Next, Call

\* The variables keep their types; the janitor's clock is never ahead of the
\* clock.
THEOREM TypeCorrect == Spec => []TypeOK
<1>1. Init => TypeOK
  <2>1. 0 \in 0 .. MaxTime /\ 0 \in 0 .. MaxTime + certTTL
    BY TimeAssumption
  <2> QED
    BY <2>1 DEF Init, TypeOK
<1> QED
  BY <1>1, TypeStep, PTL DEF Spec

-----------------------------------------------------------------------------

\* No step changes an entry that is fresh: neither a call that signed its own
\* certificate meanwhile, nor a sweep with an old reading of the clock.
LEMMA FreshStep ==
  ASSUME TypeOK, [Next]_vars, NEW h \in Hosts, Fresh(h)
  PROVE  cache'[h] = cache[h]
<1>1. CASE Sweep
  <2>1. sweepTime <= now /\ now < cache[h].expiresAt /\ cache[h].expiresAt \in Nat
    BY EntryTyped, TimeAssumption DEF TypeOK, Fresh
  <2> QED
    BY <1>1, <2>1, TimeAssumption DEF Sweep, TypeOK
<1>2. ASSUME NEW c \in Callers, Store(c) PROVE cache'[h] = cache[h]
  BY <1>2 DEF Store, TypeOK
<1> QED
  BY <1>1, <1>2 DEF Next, Call, Tick, Wake, Lookup, Generate, vars

\* A fresh entry stays what it is, for any number of calls and sweeps.
THEOREM FreshEntryAlwaysStays == Spec => FreshEntryStays
<1>1. TypeOK /\ [Next]_vars => [\A h \in Hosts : Fresh(h) => cache'[h] = cache[h]]_vars
  BY FreshStep
<1> QED
  BY <1>1, TypeCorrect, PTL DEF Spec, FreshEntryStays

-----------------------------------------------------------------------------

\* While the lease of a call lasts, the cache holds what the call returned.
LEMMA LeaseIsFresh ==
  ASSUME IInv, NEW d \in Callers, pc[d] = "done", now < lease[d].to
  PROVE  certTTL > 0 /\ Fresh(host[d]) /\ cache[host[d]].cert = result[d]
  BY TimeAssumption DEF IInv, TypeOK, LeaseInv, Fresh

\* A step that lets no call return, and changes no fresh entry, keeps what is
\* known of the calls that have.
LEMMA NoReturn ==
  ASSUME IInv, TypeOK', [Next]_vars, host' = host, result' = result, lease' = lease,
         \A c \in Callers : pc'[c] = "done" <=> pc[c] = "done"
  PROVE  LeaseInv' /\ OneCertPerHost'
<1>1. now <= now' /\ now' \in Nat /\ now \in Nat
  <2>1. now \in Nat /\ now' \in Nat
    BY TimeAssumption DEF IInv, TypeOK
  <2>2. now' = now \/ now' = now + 1
    BY DEF Next, Call, Tick, Wake, Sweep, Lookup, Generate, Store, vars
  <2> QED
    BY <2>1, <2>2
<1>2. OneCertPerHost'
  BY DEF IInv, OneCertPerHost
<1>3. ASSUME NEW c \in Callers, pc[c] = "done", now' < lease[c].to
      PROVE  cache'[host[c]] = cache[host[c]] /\ now < lease[c].to
  <2>1. now < lease[c].to
    BY <1>1, <1>3, TimeAssumption DEF IInv, TypeOK
  <2>2. Fresh(host[c]) /\ host[c] \in Hosts
    BY <1>3, <2>1, LeaseIsFresh DEF IInv, TypeOK
  <2> QED
    BY <2>1, <2>2, FreshStep DEF IInv
<1>4. LeaseInv'
  <2> SUFFICES ASSUME NEW c \in Callers, pc[c] = "done"
               PROVE  /\ lease[c].from <= now'
                      /\ now' < lease[c].to => /\ cache'[host[c]] # NoEntry
                                               /\ cache'[host[c]].cert = result[c]
                                               /\ cache'[host[c]].expiresAt = lease[c].to
    BY DEF IInv, LeaseInv
  <2>1. lease[c].from <= now'
    BY <1>1, TimeAssumption DEF IInv, TypeOK, LeaseInv
  <2> QED
    BY <1>3, <2>1 DEF IInv, LeaseInv
<1> QED
  BY <1>2, <1>4

\* A call that returns what the cache then holds, or its own certificate when
\* there is no cache, agrees with every call whose lease lasts.
LEMMA ReturnStep ==
  ASSUME IInv, TypeOK', NEW c \in Callers, pc[c] # "done",
         NEW cert \in Callers, host[cert] = host[c],
         NEW until \in 0 .. MaxTime + certTTL, Return(c, cert, until),
         now' = now, host' = host,
         \A h \in Hosts : Fresh(h) => cache'[h] = cache[h],
         \/ /\ certTTL > 0 /\ now < until
            /\ cache'[host[c]] # NoEntry
            /\ cache'[host[c]].cert = cert
            /\ cache'[host[c]].expiresAt = until
         \/ certTTL = 0 /\ until = now
  PROVE  LeaseInv' /\ OneCertPerHost'
<1>1. /\ pc'[c] = "done" /\ result'[c] = cert
      /\ lease'[c].from = now /\ lease'[c].to = until
      /\ \A d \in Callers \ {c} : /\ pc'[d] = pc[d] /\ result'[d] = result[d]
                                  /\ lease'[d] = lease[d]
  BY ReturnTyped DEF IInv
<1>2. ASSUME NEW d \in Callers, pc[d] = "done", now < lease[d].to
      PROVE  /\ certTTL > 0
             /\ cache'[host[d]] = cache[host[d]]
             /\ cache'[host[d]].cert = result[d]
  BY <1>2, LeaseIsFresh DEF IInv, TypeOK
<1>3. LeaseInv'
  <2> SUFFICES ASSUME NEW d \in Callers, (pc[d] = "done")'
               PROVE  (/\ result[d] \in Callers /\ host[result[d]] = host[d]
                       /\ lease[d].from <= now
                       /\ certTTL > 0 => lease[d].from < lease[d].to
                       /\ certTTL = 0 => lease[d].from = lease[d].to
                       /\ now < lease[d].to => /\ cache[host[d]] # NoEntry
                                               /\ cache[host[d]].cert = result[d]
                                               /\ cache[host[d]].expiresAt = lease[d].to)'
    BY DEF LeaseInv
  <2>1. CASE d = c
    BY <1>1, <2>1, TimeAssumption DEF IInv, TypeOK
  <2>2. CASE d # c
    BY <1>1, <1>2, <2>2 DEF IInv, LeaseInv
  <2> QED
    BY <2>1, <2>2
<1>4. OneCertPerHost'
  <2> SUFFICES ASSUME NEW d \in Callers, NEW e \in Callers,
                      (pc[d] = "done" /\ pc[e] = "done" /\ host[d] = host[e])'
               PROVE  (/\ host[result[d]] = host[d]
                       /\ lease[d].from <= lease[e].from /\ lease[e].from < lease[d].to
                            => result[d] = result[e])'
    BY DEF OneCertPerHost
  <2>1. (host[result[d]] = host[d])'
    BY <1>3 DEF LeaseInv
  <2>2. CASE d # c /\ e # c
    BY <1>1, <2>2 DEF IInv, OneCertPerHost
  <2>3. CASE d = c /\ e # c
    <3> SUFFICES ASSUME now <= lease[e].from, lease[e].from < until
                 PROVE  cert = result[e]
      BY <1>1, <2>1, <2>3
    <3>1. pc[e] = "done" /\ lease[e].from = now /\ host[e] = host[c] /\ certTTL > 0
      <4>1. pc[e] = "done" /\ host[e] = host[c]
        BY <1>1, <2>3
      <4>2. now \in Nat /\ lease[e].from \in Nat
        BY TimeAssumption DEF IInv, TypeOK
      <4>3. lease[e].from <= now
        BY <4>1 DEF IInv, LeaseInv
      <4> QED
        BY <4>1, <4>2, <4>3
    <3>2. now < lease[e].to
      BY <3>1 DEF IInv, LeaseInv
    <3> QED
      BY <1>2, <3>1, <3>2
  <2>4. CASE d # c /\ e = c
    <3> SUFFICES ASSUME now < lease[d].to PROVE result[d] = cert
      BY <1>1, <2>1, <2>4
    <3> QED
      BY <1>1, <1>2, <2>4
  <2>5. CASE d = c /\ e = c
    BY <2>1, <2>5
  <2> QED
    BY <2>2, <2>3, <2>4, <2>5
<1> QED
  BY <1>3, <1>4

\* The inductive invariant is kept by every step.
LEMMA InvStep == IInv /\ [Next]_vars => IInv'
<1> SUFFICES ASSUME IInv, [Next]_vars PROVE IInv'
  OBVIOUS
<1>1. TypeOK' /\ TypeOK
  BY TypeStep DEF IInv
<1>2. \A h \in Hosts : Fresh(h) => cache'[h] = cache[h]
  BY <1>1, FreshStep
<1>3. host' = host
  BY DEF Next, Call, Tick, Wake, Sweep, Lookup, Generate, Store, vars
<1>4. CacheInv'
  <2>1. ASSUME NEW c \in Callers, Store(c) PROVE CacheInv'
    BY <1>1, <1>3, <2>1 DEF Store, IInv, CacheInv, TypeOK
  <2>2. CASE Sweep
    BY <1>3, <2>2 DEF Sweep, IInv, CacheInv
  <2>3. CASE cache' = cache
    BY <1>3, <2>3 DEF IInv, CacheInv
  <2> QED
    BY <2>1, <2>2, <2>3 DEF Next, Call, Tick, Wake, Lookup, Generate, vars
<1>5. ASSUME Tick \/ Wake \/ Sweep \/ UNCHANGED vars PROVE LeaseInv' /\ OneCertPerHost'
  <2>1. result' = result /\ lease' = lease /\ pc' = pc
    BY <1>5 DEF Tick, Wake, Sweep, vars
  <2> QED
    BY <1>1, <1>3, <2>1, NoReturn
<1>6. ASSUME NEW c \in Callers, Generate(c) PROVE LeaseInv' /\ OneCertPerHost'
  <2>1. result' = result /\ lease' = lease
    BY <1>6 DEF Generate
  <2>2. \A d \in Callers : pc'[d] = "done" <=> pc[d] = "done"
    BY <1>1, <1>6 DEF Generate, TypeOK
  <2> QED
    BY <1>1, <1>3, <2>1, <2>2, NoReturn
<1>7. ASSUME NEW c \in Callers, Fresh(host[c]), pc[c] # "done", now' = now,
             Return(c, cache[host[c]].cert, cache[host[c]].expiresAt), certTTL > 0
      PROVE  LeaseInv' /\ OneCertPerHost'
  <2>1. host[c] \in Hosts /\ cache[host[c]] # NoEntry /\ now < cache[host[c]].expiresAt
    BY <1>1, <1>7 DEF TypeOK, Fresh
  <2>2. /\ cache[host[c]].cert \in Callers
        /\ cache[host[c]].expiresAt \in 0 .. MaxTime + certTTL
    BY <1>1, <2>1, EntryTyped
  <2>3. host[cache[host[c]].cert] = host[c]
    BY <2>1 DEF IInv, CacheInv
  <2>4. cache'[host[c]] = cache[host[c]]
    BY <1>2, <1>7, <2>1
  <2> QED
    BY <1>1, <1>2, <1>3, <1>7, <2>1, <2>2, <2>3, <2>4, ReturnStep
<1>8. ASSUME NEW c \in Callers, Lookup(c) PROVE LeaseInv' /\ OneCertPerHost'
  <2>1. CASE Fresh(host[c])
    <3>1. certTTL > 0
      BY <1>1, <2>1 DEF Fresh, TypeOK, IInv, CacheInv
    <3> QED
      BY <1>7, <1>8, <2>1, <3>1 DEF Lookup
  <2>2. CASE ~Fresh(host[c])
    <3>1. result' = result /\ lease' = lease
      BY <1>8, <2>2 DEF Lookup
    <3>2. \A d \in Callers : pc'[d] = "done" <=> pc[d] = "done"
      BY <1>1, <1>8, <2>2 DEF Lookup, TypeOK
    <3> QED
      BY <1>1, <1>3, <3>1, <3>2, NoReturn
  <2> QED
    BY <2>1, <2>2
<1>9. ASSUME NEW c \in Callers, Store(c) PROVE LeaseInv' /\ OneCertPerHost'
  <2>1. pc[c] # "done" /\ now' = now /\ host[c] \in Hosts
    BY <1>1, <1>9 DEF Store, TypeOK
  <2>2. CASE certTTL > 0 /\ Fresh(host[c])
    BY <1>7, <1>9, <2>1, <2>2 DEF Store
  <2>3. CASE certTTL > 0 /\ ~Fresh(host[c])
    <3>1. /\ cache' = [cache EXCEPT ![host[c]] = [cert |-> c, expiresAt |-> now + certTTL]]
          /\ Return(c, c, now + certTTL)
      BY <1>9, <2>3 DEF Store
    <3>2. cache'[host[c]] = [cert |-> c, expiresAt |-> now + certTTL]
      BY <1>1, <2>1, <3>1 DEF TypeOK
    <3>3. cache'[host[c]] # NoEntry
      BY <1>1, <3>2, EntryTyped
    <3>4. now < now + certTTL /\ now + certTTL \in 0 .. MaxTime + certTTL
      BY <1>1, <2>3, TimeAssumption DEF TypeOK
    <3> QED
      BY <1>1, <1>2, <1>3, <2>1, <2>3, <3>1, <3>2, <3>3, <3>4, ReturnStep
  <2>4. CASE certTTL = 0
    <3>1. Return(c, c, now) /\ now \in 0 .. MaxTime + certTTL
      BY <1>1, <1>9, <2>4, TimeAssumption DEF Store, TypeOK
    <3> QED
      BY <1>1, <1>2, <1>3, <2>1, <2>4, <3>1, ReturnStep
  <2> QED
    BY <1>9, <2>2, <2>3, <2>4 DEF Store
<1> QED
  BY <1>1, <1>4, <1>5, <1>6, <1>8, <1>9 DEF IInv, Next, Call

\* "Only one cert per host ends up in the cache even if two goroutines race":
\* calls for one host that return within the life of one entry return the same
\* certificate, signed for that host.
THEOREM OneCertForEachHost == Spec => []OneCertPerHost
<1>1. Init => IInv
  <2> SUFFICES ASSUME Init PROVE IInv
    OBVIOUS
  <2>1. 0 \in 0 .. MaxTime /\ 0 \in 0 .. MaxTime + certTTL
    BY TimeAssumption
  <2>2. TypeOK
    BY <2>1 DEF Init, TypeOK
  <2> QED
    BY <2>2 DEF Init, IInv, CacheInv, LeaseInv, OneCertPerHost
<1> QED
  BY <1>1, InvStep, PTL DEF Spec, IInv
=============================================================================
