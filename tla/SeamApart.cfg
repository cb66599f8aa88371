SPECIFICATION Spec
INVARIANTS
  TypeOK
  NoLostOriginal
  NoStrayOriginal
  AlwaysFindable
  IndexExact
PROPERTIES
  AppearsAtomic
CONSTANTS
  Writers = {w1, w2}
  Files = {f1, f2}
  Texts = {t1, t2}
  NoRow = NoRow
  OverlappingWrites = FALSE
  CommitLandsFirst = TRUE
SYMMETRY Symmetry
CHECK_DEADLOCK FALSE
