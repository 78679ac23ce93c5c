------------------------------ MODULE Calendar ------------------------------
(***************************************************************************)
(* The browse page (server.go, browse.go): which month and day a request   *)
(* shows, the grid of that month with its weeks from Monday, the links to  *)
(* the months beside it, and the bundles of the year by day.               *)
(*                                                                         *)
(* A date is its number from the first day of FirstYear, which is a        *)
(* Monday; a month is its number from the first month.  A date in Gaps has *)
(* no midnight in the time zone of the server, west of Greenwich, and      *)
(* time.Date starts it on the evening before.                              *)
(***************************************************************************)
EXTENDS FiniteSets, Integers, Sequences, SequencesExt

CONSTANTS
  FirstYear,   \* bound: the first of the years that are looked at
  Years,       \* bound: their number
  Dates,       \* bound: the dates that are today, asked for or have bundles
  MaxBundles,  \* bound: bundles in the index
  Gaps,        \* dates that have no midnight
  Absent,      \* a request parameter that is missing
  Garbage,     \* a request parameter that is not a date
  Never        \* the zero time

ASSUME YearsAssumption == FirstYear \in Nat /\ Years \in Nat /\ Gaps \subseteq Nat
ASSUME NoDateAssumption == {Absent, Garbage, Never} \cap Nat = {}

VARIABLES
  today,    \* the server's date
  bundles,  \* the index: a set of <<date, time of day>>
  asked,    \* the request: its parameters month and day
  page      \* the page that answers it; Never before there is one

calVars == <<today, bundles, asked, page>>

-----------------------------------------------------------------------------
\* Dates

Leap(y)  == y % 4 = 0 /\ (y % 100 # 0 \/ y % 400 = 0)
Leaps(y) == y \div 4 - y \div 100 + y \div 400

\* Days of a common year before its months.
Before == <<0, 31, 59, 90, 120, 151, 181, 212, 243, 273, 304, 334>>

FirstOf(m) ==
  LET y == FirstYear + m \div 12 IN
  365 * (m \div 12) + Leaps(y - 1) - Leaps(FirstYear - 1)
    + Before[(m % 12) + 1] + (IF (m % 12) > 1 /\ Leap(y) THEN 1 ELSE 0)

LengthOf(m) == FirstOf(m + 1) - FirstOf(m)

\* No date is in the first of the months, which has none before it.
ASSUME DatesAssumption ==
  IsFiniteSet(Dates) /\ Dates \subseteq Nat /\ \A d \in Dates : d >= FirstOf(1)

Months == 0 .. 12 * Years - 1

\* The months whose neighbours are looked at as well.
Inner == 1 .. 12 * Years - 2

MonthOf(t) == CHOOSE m \in t \div 31 .. t \div 28 : FirstOf(m) <= t /\ t < FirstOf(m + 1)
DayOf(t)   == t - FirstOf(MonthOf(t)) + 1
Weekday(t) == (t + 1) % 7

\* time.Date(year, month, d, 0, 0, 0, 0, time.Local).
Date(m, d) == LET t == FirstOf(m) + d - 1 IN IF t \in Gaps THEN t - 1 ELSE t

\* AddDate(0, n, k): a day that the month does not have runs over into the next.
AddDate(t, n, k) == FirstOf(MonthOf(t) + n) + DayOf(t) - 1 + k

-----------------------------------------------------------------------------
\* The request

DayAsked == IF asked.day \in Nat THEN Date(MonthOf(asked.day), DayOf(asked.day)) ELSE Never

\* Seeded fault: the month keeps the day of the date it came from.
MonthShownRaw ==
  IF asked.month \in Nat THEN Date(asked.month, 1)
  ELSE IF DayAsked # Never THEN DayAsked
  ELSE today

MonthShown ==
  LET t == IF asked.month \in Nat THEN Date(asked.month, 1)
           ELSE IF DayAsked # Never THEN DayAsked
           ELSE today
  IN  Date(MonthOf(t), 1)

\* Landing on the page selects today; a day of another month is dropped.
DaySelected ==
  IF asked.month = Absent /\ asked.day = Absent THEN today
  ELSE IF DayAsked # Never /\ MonthOf(DayAsked) = MonthOf(MonthShown) THEN DayAsked
  ELSE Never

-----------------------------------------------------------------------------
\* The page

\* index.year and the sort: the bundles of the year of a month, oldest first.
Earlier(a, b) == a[1] < b[1] \/ (a[1] = b[1] /\ a[2] < b[2])

YearBundles(m) ==
  LET year == {b \in bundles : MonthOf(b[1]) \div 12 = m \div 12} IN
  CHOOSE s \in [1 .. Cardinality(year) -> year] :
    Range(s) = year /\ \A i, j \in DOMAIN s : i < j => Earlier(s[i], s[j])

Cell(m, shown, selected, d) ==
  LET t == Date(m, d) IN
  [ day      |-> d,
    count    |-> Cardinality({b \in bundles : b[1] = t /\ MonthOf(b[1]) = MonthOf(shown)}),
    today    |-> t = today,
    selected |-> t = selected ]

NoCell == [day |-> 0, count |-> 0, today |-> FALSE, selected |-> FALSE]
NoWeek == [c \in 0 .. 6 |-> NoCell]

\* Seeded fault: a month that starts on a Monday begins with an empty week.
WeeksFlushed(shown, selected) ==
  LET m      == MonthOf(shown)
      first  == Date(m, 1)
      offset == (Weekday(first) + 6) % 7
      upTo[d \in 0 .. 31] ==
        IF d = 0 THEN [weeks |-> << >>, week |-> NoWeek]
        ELSE LET g   == upTo[d - 1]
                 col == (offset + d - 1) % 7
                 cell == Cell(m, shown, selected, d)
             IN  IF col = 0
                 THEN [weeks |-> Append(g.weeks, g.week), week |-> [NoWeek EXCEPT ![col] = cell]]
                 ELSE [g EXCEPT !.week[col] = cell]
      all == upTo[DayOf(AddDate(first, 1, -1))]
  IN  Append(all.weeks, all.week)

\* The loop over the days of the month: a Monday closes the week before it.
Weeks(shown, selected) ==
  LET m      == MonthOf(shown)
      first  == Date(m, 1)
      offset == (Weekday(first) + 6) % 7
      upTo[d \in 0 .. 31] ==
        IF d = 0 THEN [weeks |-> << >>, week |-> NoWeek]
        ELSE LET g   == upTo[d - 1]
                 col == (offset + d - 1) % 7
                 cell == Cell(m, shown, selected, d)
             IN  IF col = 0 /\ d > 1
                 THEN [weeks |-> Append(g.weeks, g.week), week |-> [NoWeek EXCEPT ![col] = cell]]
                 ELSE [g EXCEPT !.week[col] = cell]
      all == upTo[DayOf(AddDate(first, 1, -1))]
  IN  Append(all.weeks, all.week)

\* The bundles of the year by day, the newest day first and in it the newest
\* bundle first.
Groups(shown, selected) ==
  LET sorted == YearBundles(MonthOf(shown))
      upTo[i \in 0 .. Len(sorted)] ==
        IF i = 0 THEN << >>
        ELSE LET groups == upTo[i - 1]
                 b  == sorted[i]
                 at == SelectInSeq(groups, LAMBDA g : g.date = b[1])
             IN  IF at # 0 THEN [groups EXCEPT ![at].bundles = <<b>> \o @]
                 ELSE Append(groups, [date |-> b[1], bundles |-> <<b>>,
                                      today |-> b[1] = today, selected |-> b[1] = selected])
  IN  Reverse(upTo[Len(sorted)])

BrowseCalendar(shown, selected) ==
  [ month    |-> MonthOf(shown),
    prev     |-> MonthOf(AddDate(shown, -1, 0)),
    next     |-> MonthOf(AddDate(shown, 1, 0)),
    weeks    |-> Weeks(shown, selected),
    groups   |-> Groups(shown, selected),
    selected |-> selected,
    missing  |-> selected # Never /\ \A b \in bundles : b[1] # selected ]

-----------------------------------------------------------------------------

CalInit ==
  /\ today \in Dates
  /\ bundles \in {B \in SUBSET (Dates \X {0, 1}) : Cardinality(B) <= MaxBundles}
  /\ asked \in [month : Inner, day : {Absent, Garbage}]
               \cup [month : {Absent, Garbage} \cup {MonthOf(d) : d \in Dates},
                     day : Dates \cup {Absent, Garbage}]
  /\ page = Never

\* GET /browse.
Browse ==
  /\ page = Never
  /\ page' = BrowseCalendar(MonthShown, DaySelected)
  /\ UNCHANGED <<today, bundles, asked>>

\* The days that the grid links to: those with bundles.
Linked ==
  {Date(page.month, c.day) : c \in {d \in UNION {Range(page.weeks[r]) : r \in DOMAIN page.weeks} :
                                      d.day # 0 /\ d.count > 0}}

\* The reader follows a link: to the month before or after, or to a day.
Follow ==
  /\ page # Never
  /\ asked' \in [month : {page.prev, page.next} \cap Inner, day : {Absent}]
               \cup [month : {page.month}, day : Linked]
  /\ page' = Never
  /\ UNCHANGED <<today, bundles>>

CalNext == Browse \/ Follow

CalSpec == CalInit /\ [][CalNext]_calVars

-----------------------------------------------------------------------------
\* Properties

\* The grid has every day of the month once, in the column of its weekday and
\* in order, no empty row, and every cell says how many bundles its day has and
\* whether it is today or the day selected.
GridExact ==
  LET cells == {p \in (1 .. Len(page.weeks)) \X (0 .. 6) : page.weeks[p[1]][p[2]].day # 0}
      date(p) == FirstOf(page.month) + page.weeks[p[1]][p[2]].day - 1
  IN  /\ Cardinality(cells) = LengthOf(page.month)
      /\ \A p \in cells :
           LET cell == page.weeks[p[1]][p[2]] IN
           /\ date(p) % 7 = p[2]
           /\ date(p) - 7 * p[1] - p[2] = FirstOf(page.month) - 7 - (FirstOf(page.month) % 7)
           /\ cell.count = Cardinality({b \in bundles : b[1] = date(p)})
           /\ cell.today = (date(p) = today)
           /\ cell.selected = (date(p) = page.selected)
      /\ \A r \in DOMAIN page.weeks : \E p \in cells : p[1] = r

\* The page shows the month that was asked for, or else the month of the day or
\* of today; its links lead to the two months beside it; the day selected is in
\* it and is reported missing only when it has no bundles; and the groups have
\* every bundle of the year, the newest first.
LinksLead ==
  /\ page.month = IF asked.month \in Nat THEN asked.month
                  ELSE IF asked.day \in Nat THEN MonthOf(asked.day)
                  ELSE MonthOf(today)
  /\ page.prev = page.month - 1 /\ page.next = page.month + 1
  /\ page.selected # Never =>
       /\ MonthOf(page.selected) = page.month
       /\ page.missing <=> \A i \in DOMAIN page.groups : ~page.groups[i].selected
  /\ FlattenSeq([i \in DOMAIN page.groups |-> page.groups[i].bundles])
       = Reverse(YearBundles(page.month))

\* Whatever the request, the page is right about its month, and so are the ways
\* on from it, at the ends of months and years, in leap years, for months that
\* begin on any weekday and for parameters that do not fit together
\* (server.go:175, browse.go:153).
BrowseExact == page # Never => GridExact /\ LinksLead

=============================================================================
