SPECIFICATION Spec
INVARIANTS
  TypeOK
  PathsApart
  SubtreesAgree
  AnswerHonest
  LinesWereCommitted
  HitsWereCommitted
  EnoughHits
CONSTANTS
  a = a
  b = b
  x = x
  y = y
  s = s
  t = t
  l = l
  m = m
  Folders = {a, b}
  Docs = {x, y}
  Top = Top
  None = None
  Titles = {s, t}
  Texts = {l, m}
  Bodies <- MCBodies
  ChunkLines = 1
  Level <- MCLevel
  PieceOf <- MCPieceOf
  SegmentOf <- MCSegmentOf
  Manifests <- MCManifests
  Calls <- MCCalls
  Distance <- MCDistance
  TextWidth <- MCTextWidth
  Starts <- MCStarts
  MaxFields = 2
  PathWidth = 1
  NoticeWidth = 2
  MaxOps = 1
CHECK_DEADLOCK FALSE
