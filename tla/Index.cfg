SPECIFICATION Spec
INVARIANTS
  TypeOK
  RecordsHaveVectors
  Findable
  IndexExact
CONSTANTS
  Writers = {w1, w2}
  Rebuild = Rebuild
  Files = {f, g}
  t = t
  u = u
  blank = blank
  p = p
  q = q
  Texts = {t, u, blank}
  Pieces = {p, q}
  Cut <- MCCut
  Gone = Gone
  NoRow = NoRow
  None = None
  Apart = TRUE
  RebuildAlone = TRUE
SYMMETRY Symmetry
CHECK_DEADLOCK FALSE
