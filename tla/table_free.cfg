SPECIFICATION Spec
CONSTANTS
  MaxScid = 2
  QueueLen = 1
  Ports <- MCPorts
  Requests <- WideRequests
  Option9 = TRUE
  Paced = FALSE
INVARIANTS
  TypeOK
  ListedWhileOpen
  DataSocketIsFirst
  AutoBacked
  LateMarkNeverSeen
CONSTRAINT OneAtATime
