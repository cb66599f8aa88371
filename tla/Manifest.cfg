SPECIFICATION Spec
INVARIANTS
  TypeOK
  NestingAcyclicUnlessRaced
  ResolveExact
PROPERTIES
  OneMemberAtATime
  ResolveAdvances
CONSTANTS
  Writers = {w1, w2}
  Manifests = {m1, m2, m3}
  Folders = {a, b}
  Docs = {x}
  Top = Top
  None = None
  MaxOps = 3
SYMMETRY Symmetry
CHECK_DEADLOCK FALSE
