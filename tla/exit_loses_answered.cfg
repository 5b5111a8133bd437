\* An exchange answered before its upload was read, and the exit.
SPECIFICATION ForwardSpec
CONSTANTS
  x1 = x1
  x2 = x2
  whole = whole
  cut = cut
  Absent = Absent
  Views <- MCViews
  Ids <- MCOne
  ReqKinds = {"NoBody", "chunked"}
  RespKinds = {"NoBody", "sized", "chunked"}
  recordMode = TRUE
  harMode = TRUE
INVARIANT
  ExitKeepsAnswered
\* The program stops when it has exited.
CHECK_DEADLOCK FALSE
