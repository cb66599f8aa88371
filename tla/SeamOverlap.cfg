SPECIFICATION Spec
INVARIANTS
  IndexExact
CONSTANTS
  Writers = {w1, w2}
  Files = {f1}
  Texts = {t1, t2}
  NoRow = NoRow
  OverlappingWrites = TRUE
  CommitLandsFirst = TRUE
SYMMETRY Symmetry
CHECK_DEADLOCK FALSE
