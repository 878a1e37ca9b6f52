SPECIFICATION Spec
CONSTANTS
  MaxScid = 2
  QueueLen = 2
  Ports <- MCPorts
  Requests <- ListenRequests
  Option9 = FALSE
  Paced = TRUE
PROPERTY CommandCloseIsFinal
