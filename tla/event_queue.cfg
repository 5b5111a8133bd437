\* Three producers of two events each: a stale token, a token that stands for
\* several events, and an event taken before its token all happen.
SPECIFICATION QueueFairSpec
CONSTANTS
  Producers = {p1, p2, p3}
  MaxPushes = 2
INVARIANTS
  NoLostWakeup
  InOrder
PROPERTY
  EveryEventArrives
\* With nothing pushed any more the consumer waits.
CHECK_DEADLOCK FALSE
