\* Two lines, of every kind.
SPECIFICATION Spec
CONSTANTS
  Exchanges <- MCExchanges
  Responses <- MCResponses
  displayMaxBody = 2
  captureMaxBody = 3
  maxDecompressed = 2
  MaxLines = 2
  MaxLine = 5
  None = None
INVARIANTS
  SuccessIsEarned
  FailureIsReal
  DisplayIsHonest
\* The replay is over.
CHECK_DEADLOCK FALSE
