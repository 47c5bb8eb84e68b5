CONSTANTS
  p1 = p1
  l1 = l1
  l2 = l2
  w1 = w1
  w2 = w2
  NoPath = NoPath
  Paths <- OnePath
  gdb_path = p1
  Leases <- OneReader
  Writers <- OneWriter
  MaxTokens = 1
  MaxAbandoned = 0
  gdal_available = TRUE
  Altering <- FirstAlters
SPECIFICATION UnifiedSpec
\* Each of these fails. TLC stops at the first: take one at a time.
INVARIANTS
  SnapshotIsOneVersion
  ExhaustedCursorReleases
  FastRowsMatchSchema
  FallbackRowsMatchSchema
