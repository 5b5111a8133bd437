\* A body that may be empty, below, at and above the limit, declared or not, and
\* two goroutines that may close it while it is read.
SPECIFICATION FairSpec
CONSTANTS
  Closers = {c1, c2}
  MaxSize = 3
  MaxLimit = 2
INVARIANTS
  ReportedOnce
  CompleteIsWhole
PROPERTIES
  DeliveredIsComplete
  EveryBodyIsReported
\* A body closed and reported need not be read any further.
CHECK_DEADLOCK FALSE
