SPECIFICATION Spec
CONSTANTS
  Plain <- MCPlain
  Plus <- MCPlus
  PktMax = 2
  BufSize = 4
  NagleStep = 2
  EventLen = 1
  FlushLen = 1
  MaxTyped = 5
  Overlap = FALSE
  Reuse = FALSE
INVARIANT OneTransmits
PROPERTY StreamKept
PROPERTY LeavesOnEscape
