\* One exchange with every kind of body, on every path, and the exit at any time.
SPECIFICATION ForwardFairSpec
CONSTANTS
  x1 = x1
  x2 = x2
  whole = whole
  cut = cut
  Absent = Absent
  Views <- MCViews
  Ids <- MCOne
  ReqKinds = {"NoBody", "h2Empty", "sized", "chunked"}
  RespKinds = {"NoBody", "sized", "chunked"}
  recordMode = TRUE
  harMode = TRUE
INVARIANTS
  TextOrder
  EmptyNeverChunked
  NothingLeft
  CallsKeepProtocol
PROPERTIES
  ExitCompletes
  AnsweredIsCaptured
\* The program stops when it has exited.
CHECK_DEADLOCK FALSE
