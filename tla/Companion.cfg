SPECIFICATION FairSpec
CONSTANTS
  Requests = {r1, r2}
  NoRequest = NoRequest
  Ids = {1, 2}
  MaxSessions = 5
  MaxBreaks = 1
  MinBackoff = 1
  MaxBackoff = 3
INVARIANTS AnsweredByItsOwnReply WaitingIsHeld DisconnectedIsTrue ReconnectsBounded
PROPERTIES EveryRequestReturns Reconnects
