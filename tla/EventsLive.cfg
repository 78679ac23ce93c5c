SPECIFICATION FairSpec
CONSTANTS
  Workers = {w1, w2}
  Pages = {c1}
  None = None
  Handlers = {"stage", "push"}
  BufSize = 1
  MaxDrops = 1
  ReadErrors = FALSE
  w1 = w1
  w2 = w2
  c1 = c1
INVARIANTS StateShown
PROPERTIES CatchesUp
CHECK_DEADLOCK FALSE
