SPECIFICATION FairSpec
CONSTANTS
  MaxScid = 2
  QueueLen = 2
  Ports <- MCPorts
  Requests <- ListenRequests
  Option9 = FALSE
  Paced = TRUE
PROPERTIES
  ThreadDeleted
  MarkedIsFreed
