SPECIFICATION PagesSpec
CONSTANTS
  Keys <- SevenKeys
  Meta = 4
  Digest = 3
  PageSize = 2
  FirstYear = 2018
  Years = 4
  Dates <- FourDates
  MaxBundles = 2
  Gaps <- NoGaps
  Absent = Absent
  Garbage = Garbage
  Never = Never
  MaxRunes = 3
  MaxTyped = 5
  SessionTTL = 4
  MaxTime = 7
  MaxKey = 2
  NoCookie = NoCookie
  Picks = {f1, f2, f3}
  NoPick = NoPick
INVARIANTS ListedOnce BrowseExact TextsStable QueueReport
PROPERTIES PagesAfterLogin VisitEnds QueueEnds
CHECK_DEADLOCK FALSE
