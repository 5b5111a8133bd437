\* Every combination of the flags, every failure, and up to two signals.
SPECIFICATION FairSpec
CONSTANTS
  MaxSignals = 2
INVARIANTS
  Released
  CommandIsServed
  CodeIsHonest
PROPERTY
  StopsWhenAsked
\* The program stops when it has exited or was killed.
CHECK_DEADLOCK FALSE
