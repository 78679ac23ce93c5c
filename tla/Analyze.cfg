SPECIFICATION RunSpec
CONSTANTS
  MaxRounds = 4
  MaxToolCalls = 5
  MaxImages = 1
  MaxPerReply = 2
  Titles = {t1, t2}
  NoTitle = NoTitle
  SaveErrors = TRUE
  Files = {a, b}
  NoFile = NoFile
  Plain = {p, q}
  MaxMarks = 2
  RenameErrors = FALSE
  ReadMax = 6
  ReplyMax = 3
  DefaultLimit = 2
  MaxLimit = 3
  MaxText = 7
  Limits = {0, 1, 3, 9}
  MaxPages = 2
  MaxFrames = 1
  MaxDrawn = 2
  t1 = t1
  t2 = t2
  a = a
  b = b
  p = p
  q = q
INVARIANTS TypesOK RequestsAccepted BudgetKept SuccessTitled FormsFollow MarksCounted PagesTile OutputBounded TextGenuine LadderTried
PROPERTIES RunEnds PagesEnd
CHECK_DEADLOCK FALSE
