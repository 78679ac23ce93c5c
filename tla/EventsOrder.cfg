SPECIFICATION Spec
CONSTANTS
  Workers = {w1, w2}
  Pages = {c1}
  None = None
  Handlers = {"stage", "edit", "analyze", "push"}
  BufSize = 2
  MaxDrops = 1
  ReadErrors = TRUE
  w1 = w1
  w2 = w2
  c1 = c1
SYMMETRY Symmetry
VIEW View
INVARIANTS SendsSafe LockShown FilesShown
CHECK_DEADLOCK FALSE
