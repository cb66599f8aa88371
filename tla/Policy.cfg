SPECIFICATION Spec
INVARIANTS
  TypeOK
  NothingAutoUpdated
PROPERTIES
  AgentsKeepOut
  AgentsNeverUnlock
  SkeletonsStand
CONSTANTS
  Humans = {h}
  Agents = {g}
  Folders = {a, b}
  Docs = {x}
  Top = Top
  None = None
  MaxFields = 2
  MaxOps = 2
SYMMETRY Symmetry
CHECK_DEADLOCK FALSE
