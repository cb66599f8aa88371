SPECIFICATION Spec
INVARIANTS
  TypeOK
  Acyclic
  ReachableUnlessRaced
  ChangesRecorded
CONSTANTS
  Writers = {w1, w2}
  Folders = {a, b}
  Docs = {x}
  Top = Top
  None = None
  MaxOps = 2
SYMMETRY Symmetry
CHECK_DEADLOCK FALSE
