SPECIFICATION Spec
INVARIANTS
  TypeOK
  NoPoolLeak
  FailuresHaveACause
  EveryFileAccounted
PROPERTIES
  EveryIngestEnds
CONSTANTS
  r1 = r1
  r2 = r2
  Requests = {r1, r2}
  Workers = 2
  NoPool = NoPool
  Names <- MCNames
  Handler <- MCHandler
  Hidden <- MCHidden
  Up = ".."
  MaxFiles = 3
  MaxFileBytes = 1
  MaxTotalBytes = 2
  Inputs <- MCInputs
  MayVanish = TRUE
CHECK_DEADLOCK FALSE
