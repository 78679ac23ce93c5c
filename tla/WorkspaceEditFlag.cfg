CONSTANTS
  r1 = r1
  r2 = r2
  n1 = n1
  n2 = n2
  c1 = c1
  c2 = c2
  t0 = t0
  t1 = t1
  Procs = {r1, r2}
  Names = {n1, n2}
  Contents = {c1, c2}
  Absent = Absent
  Titles = {t0, t1}
  NoTitle = t0
  NoDraft = NoDraft
  Requests = {"add", "delete", "edit", "analyze", "push"}
  LLMConfigured = TRUE
  Crashes = FALSE
  DiskErrors = FALSE
  MaxParts = 2
  MaxCalls = 2
SYMMETRY Symmetry
SPECIFICATION Spec
INVARIANT FlagCovered
