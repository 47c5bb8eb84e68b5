CONSTANTS
  p1 = p1
  p2 = p2
  l1 = l1
  l2 = l2
  w1 = w1
  w2 = w2
  NoPath = NoPath
  Paths <- TwoPaths
  Leases <- TwoLeases
  Writers <- TwoWriters
  MaxTokens = 2
  MaxAbandoned = 1
SPECIFICATION LiveSpec
INVARIANTS
  TypeOK
  ReaderCountExact
  WriterExclusion
  PendingHasOneOwner
  GrantStaysDrained
  NoLostWakeup
PROPERTIES
  GenerationOncePerWriter
  ImplementsSourceExclusion
  DrainedPrepareReturns
  DeadlineEndsPrepare
  ReleasesEndPrepare
