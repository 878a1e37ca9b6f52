SPECIFICATION FairSpec
CONSTANTS
  Plain <- MCPlain
  Plus <- MCPlus
  PktMax = 1
  BufSize = 4
  NagleStep = 2
  EventLen = 1
  FlushLen = 1
  MaxTyped = 1
  Overlap = TRUE
  Reuse = FALSE
INVARIANT TypeOK
INVARIANT FlushOnTheWay
INVARIANT PlusesWatched
PROPERTY BytesLeave
PROPERTY PlusesDecided
