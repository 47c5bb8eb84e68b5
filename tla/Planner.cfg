SPECIFICATION Spec
CONSTANTS
  MaxFid = 2
  Sources <- MCSources
  Coverages <- MCCoverages
  MinimumAdaptive = 2
  DirectScanCoverage = 29
  SequentialDensity = 75
  FusedCoverage = 12
  AtxBypassMax = 2
  AtxBypassDenominator = 1
INVARIANTS
  PlannedResultIsSound
  PlannedResultIsComplete
