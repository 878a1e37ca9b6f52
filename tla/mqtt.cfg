SPECIFICATION FairSpec
CONSTANTS
  IdMod = 3
  BrokerId <- MCBrokerId
  QueueLen = 2
  SessionLen = 2
  NetLen = 1
  MaxCount = 0
  MaxFaults = 1
INVARIANT TypeOK
PROPERTY ExactlyOnce
PROPERTY DoneIsAnswered
PROPERTY ExchangeMovesOn
CHECK_DEADLOCK FALSE
