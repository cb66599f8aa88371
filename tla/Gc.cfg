SPECIFICATION GcSpec
INVARIANTS
  GcTypeOK
  NoLostOriginal
PROPERTIES
  SparesInFlight
  
CONSTANTS
  Writers = {w1, w2}
  Files = {f1}
  Texts = {t1}
  NoRow = NoRow
  OverlappingWrites = TRUE
  CommitLandsFirst = TRUE
  GraceOutlastsIngest = TRUE
CHECK_DEADLOCK FALSE
