SPECIFICATION Spec
INVARIANTS
  Reachable
CONSTANTS
  Writers = {w1, w2}
  Folders = {a}
  Docs = {x}
  Top = Top
  None = None
  MaxOps = 1
SYMMETRY Symmetry
CHECK_DEADLOCK FALSE
