CONSTANTS
  r1 = r1
  r2 = r2
  n1 = n1
  c1 = c1
  t0 = t0
  Procs = {r1, r2}
  Names = {n1}
  Contents = {c1}
  Absent = Absent
  Titles = {t0}
  NoTitle = t0
  NoDraft = NoDraft
  Requests = {"add", "delete", "edit", "analyze", "push"}
  LLMConfigured = TRUE
  Crashes = FALSE
  DiskErrors = TRUE
  MaxParts = 1
  MaxCalls = 1
SPECIFICATION FairSpec
PROPERTY RequestEnds
