CONSTANTS
  p1 = p1
  l1 = l1
  l2 = l2
  w1 = w1
  w2 = w2
  NoPath = NoPath
  Paths <- OnePath
  gdb_path = p1
  Leases <- OneReader
  Writers <- TwoWriters
  MaxTokens = 2
  MaxAbandoned = 1
SPECIFICATION SessionLiveSpec
INVARIANTS
  MappingExcludesUpdate
  VerifiedIsOneSnapshot
  TornReadReportsWriter
  LeasedQueryNeverExpires
  FinishedCallHoldsNothing
PROPERTY WriterGetsIn
