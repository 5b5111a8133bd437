\* Clients of every kind, and a target reached directly or through a proxy.
SPECIFICATION FairSpec
CONSTANTS
  Openings = {"tls", "http", "other"}
  Routes = {"direct", "proxy"}
  MaxBytes = 3
INVARIANTS
  NoFalseEOF
  RelayedUntouched
PROPERTIES
  SilentIsDialled
  EndIsPassedOn
\* A tunnel that has been closed or handed over is over.
CHECK_DEADLOCK FALSE
