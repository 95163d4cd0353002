SPECIFICATION MCSpec
CONSTANTS
  Off = Off
  Chunk = 2
  MaxN = 2
  MaxTypes = 2
  MaxNeigh = 5
INVARIANTS StorageRight ListsFresh RanksAgree ExclusionsRight
PROPERTIES Completes
