SPECIFICATION FairSpec
CONSTANTS
  Ids = {p1, p2}
  NoPush = NoPush
  Months = {m1, m2}
  Files = {f1, f2}
  Mark = Mark
  MaxEntries = 1
  Embedding = TRUE
  Crashes = TRUE
  PutErrors = TRUE
  LostAcks = FALSE
  DiskErrors = TRUE
  ReadErrors = TRUE
  ListErrors = FALSE
  p1 = p1
  p2 = p2
  m1 = m1
  m2 = m2
  f1 = f1
  f2 = f2
INVARIANTS InSync
PROPERTIES IndexGrows PushEnds
CHECK_DEADLOCK FALSE
