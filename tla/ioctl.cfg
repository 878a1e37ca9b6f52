SPECIFICATION FairSpec
CONSTANTS
  c1 = c1
  c2 = c2
  Caller <- MCCaller
  MaxInFlight = 7
  MaxAbort = 7
INVARIANT TypeOK
INVARIANT ResponseLive
INVARIANT InSync
PROPERTY CallsAnswered
CHECK_DEADLOCK FALSE
