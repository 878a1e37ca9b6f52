SPECIFICATION Spec
CONSTANTS
  MaxScid = 2
  QueueLen = 2
  Ports <- MCPorts
  Requests <- PacedRequests
  Option9 = FALSE
  Paced = TRUE
INVARIANTS
  ModeBacked
  NoDangling
  DeletesTerminated
  ReturnedIsQueued
  MarkedIsClosing
  SsendMissesToData
