\* Both outputs on: each is a live log of ExchangeLog.
SPECIFICATION FairSpec
CONSTANTS
  whole = whole
  cut = cut
  Ids <- MCIds
  Views <- MCViews
  Absent = Absent
  recordMode = TRUE
  harMode = TRUE
INVARIANTS
  NothingParkedForever
  HarWithinRecording
PROPERTY
  LogsFairSpec
\* Every call a settled exchange may make has been made: nothing is left to do.
CHECK_DEADLOCK FALSE
