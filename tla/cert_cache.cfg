\* Three calls for two hosts, entries that live two ticks of a clock of four: a
\* race on one host, a second generation after expiry, a sweep in between.
SPECIFICATION FairSpec
CONSTANTS
  Hosts = {h1, h2}
  Callers = {c1, c2, c3}
  NoEntry = NoEntry
  certTTL = 2
  MaxTime = 4
INVARIANT
  OneCertPerHost
PROPERTY
  ExpiredIsEvicted
\* Every call has returned.
CHECK_DEADLOCK FALSE
