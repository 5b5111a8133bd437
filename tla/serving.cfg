\* Two tunnels to two targets, and an upgrade in one of them.
SPECIFICATION ServingFairSpec
CONSTANTS
  Conns = {c1, c2}
  Targets = {a, b}
  NoTarget = NoTarget
  NoConn = NoConn
  secure = TRUE
  MaxBytes = 2
INVARIANTS
  TargetIsOwn
  TargetsFollowConns
  SplicedUntouched
  HandshakeAnswered
PROPERTY
  UpgradeEnds
\* Connections close, and an upgrade is over.
CHECK_DEADLOCK FALSE
