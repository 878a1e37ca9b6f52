SPECIFICATION FairSpec
CONSTANTS
  SeqMod = 5
  MaxDiff = 2
  Window = 2
  QueueLen = 2
  HostLen = 2
  MaxWake = 2
  MaxFaults = 1
INVARIANT TypeOK
INVARIANT ChipHasRoom
INVARIANT CreditsAccepted
INVARIANT SleepsIdle
INVARIANT PokeHelps
PROPERTY QueueMoves
CHECK_DEADLOCK FALSE
