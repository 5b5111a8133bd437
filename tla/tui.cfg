\* Two exchanges and the exit of the command, after an earlier exchange: their
\* events in any order, and every key in between.
SPECIFICATION MCSpec
CONSTANTS
  x1 = x1
  x2 = x2
  x3 = x3
  NoExchange = NoExchange
  Exchanges <- MCExchanges
  ReqTexts = {"none", "coming"}
  MaxQueued = 1
INVARIANTS
  OneListener
  SettledView
  DetailIsCurrent
PROPERTIES
  ScrollFollowsSelection
  ResponseIsShown
\* Once the UI is quit, or the exchanges are over, nothing is left to do.
CHECK_DEADLOCK FALSE
