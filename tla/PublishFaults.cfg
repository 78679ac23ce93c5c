SPECIFICATION Spec
CONSTANTS
  Ids = {p1, p2, p3}
  NoPush = NoPush
  Months = {m1, m2}
  Files = {f1, f2}
  Mark = Mark
  MaxEntries = 2
  Embedding = TRUE
  Crashes = TRUE
  PutErrors = TRUE
  LostAcks = TRUE
  DiskErrors = TRUE
  ReadErrors = TRUE
  ListErrors = FALSE
  p1 = p1
  p2 = p2
  p3 = p3
  m1 = m1
  m2 = m2
  f1 = f1
  f2 = f2
SYMMETRY Symmetry
INVARIANTS SingleFlight PublishedComplete FileKept NothingForgotten DoneShown
PROPERTIES ArchiveKept
CHECK_DEADLOCK FALSE
