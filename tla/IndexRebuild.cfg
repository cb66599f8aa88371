SPECIFICATION Spec
INVARIANTS
  Findable
CONSTANTS
  Writers = {w1}
  Rebuild = Rebuild
  Files = {f}
  t = t
  u = u
  blank = blank
  p = p
  q = q
  Texts = {t, u, blank}
  Pieces = {p, q}
  Cut <- MCCut
  Gone = Gone
  NoRow = NoRow
  None = None
  Apart = TRUE
  RebuildAlone = FALSE
SYMMETRY Symmetry
CHECK_DEADLOCK FALSE
