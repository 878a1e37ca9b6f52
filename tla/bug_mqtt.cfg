SPECIFICATION Spec
CONSTANTS
  IdMod = 3
  BrokerId <- MCBrokerId
  QueueLen = 1
  SessionLen = 2
  NetLen = 0
  MaxCount = 1
  MaxFaults = 1
INVARIANT HeartbeatEnds
CHECK_DEADLOCK FALSE
