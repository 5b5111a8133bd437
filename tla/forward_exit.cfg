\* Two exchanges race with the exit.  Whether a captured body is whole makes no
\* difference here, so the two values of a half are one.
SPECIFICATION ForwardSpec
CONSTANTS
  x1 = x1
  x2 = x2
  whole = some
  cut = some
  Absent = Absent
  Views <- MCViews
  Ids <- MCTwo
  ReqKinds = {"h2Empty", "chunked"}
  RespKinds = {"NoBody", "chunked"}
  recordMode = FALSE
  harMode = TRUE
SYMMETRY MCSymmetry
INVARIANT
  DrainIsComplete
\* The program stops when it has exited.
CHECK_DEADLOCK FALSE
