--------------------------- MODULE Calendar_proofs ---------------------------
(***************************************************************************)
(* Proofs about Calendar, for any first year and number of years, any      *)
(* dates and any number of bundles, where every date has a midnight.       *)
(***************************************************************************)
EXTENDS Calendar, SequenceTheorems, Induction

-----------------------------------------------------------------------------
\* Months

LEMMA LeapDays == \A y \in Nat : Leaps(y) - Leaps(y - 1) = IF Leap(y) THEN 1 ELSE 0
  BY DEF Leaps, Leap

\* A month has from 28 to 31 days.
LEMMA LengthIs ==
  ASSUME NEW m \in Nat
  PROVE  FirstOf(m) \in Int /\ FirstOf(m + 1) \in Int /\ LengthOf(m) \in 28 .. 31
<1> DEFINE y == FirstYear + m \div 12
           k == m % 12
<1>1. y \in Nat /\ k \in 0 .. 11
  BY YearsAssumption
<1>2. (m + 1) \div 12 = (IF k = 11 THEN m \div 12 + 1 ELSE m \div 12)
      /\ (m + 1) % 12 = (IF k = 11 THEN 0 ELSE k + 1)
  OBVIOUS
<1>3. /\ Before[1] = 0 /\ Before[2] = 31 /\ Before[3] = 59 /\ Before[4] = 90
      /\ Before[5] = 120 /\ Before[6] = 151 /\ Before[7] = 181 /\ Before[8] = 212
      /\ Before[9] = 243 /\ Before[10] = 273 /\ Before[11] = 304 /\ Before[12] = 334
  BY DEF Before
<1>4. \A z \in Int : Leaps(z) \in Int
  BY DEF Leaps
<1>5. Leaps(y) - Leaps(y - 1) = IF Leap(y) THEN 1 ELSE 0
  BY <1>1, LeapDays
<1> DEFINE L == Leaps(y - 1)
           L0 == Leaps(FirstYear - 1)
           q == m \div 12
<1>6. FirstOf(m) = 365 * q + L - L0 + Before[k + 1] + (IF k > 1 /\ Leap(y) THEN 1 ELSE 0)
  BY DEF FirstOf
<1>7. CASE k # 11
  <2>1. FirstOf(m + 1) = 365 * q + L - L0 + Before[k + 2] + (IF k + 1 > 1 /\ Leap(y) THEN 1 ELSE 0)
    BY <1>1, <1>2, <1>7 DEF FirstOf
  <2>2. L \in Int /\ L0 \in Int /\ q \in Int
    BY <1>1, <1>4, YearsAssumption
  <2> HIDE DEF L, L0, q, k, y
  <2> QED  BY <1>1, <1>3, <1>6, <1>7, <2>1, <2>2 DEF LengthOf
<1>8. CASE k = 11
  <2>1. FirstOf(m + 1) = 365 * (q + 1) + Leaps(y) - L0 + Before[1]
    <3>1. FirstYear + (q + 1) = y + 1 /\ (y + 1) - 1 = y
      BY <1>1, YearsAssumption
    <3> QED  BY <1>1, <1>2, <1>4, <1>3, <1>8, <3>1, YearsAssumption DEF FirstOf
  <2>2. L \in Int /\ L0 \in Int /\ q \in Int /\ Leaps(y) \in Int
    BY <1>1, <1>4, YearsAssumption
  <2> HIDE DEF L0, q, k, y
  <2> QED  BY <1>3, <1>5, <1>6, <1>8, <2>1, <2>2 DEF LengthOf
<1> QED  BY <1>7, <1>8

LEMMA FirstBounds == \A m \in Nat : 28 * m <= FirstOf(m) /\ FirstOf(m) <= 31 * m
<1> DEFINE True == {m \in Nat : 28 * m <= FirstOf(m) /\ FirstOf(m) <= 31 * m}
<1>1. 0 \in True
  <2>1. FirstOf(0) = 0
    <3>1. 0 \div 12 = 0 /\ 0 % 12 = 0 /\ Before[1] = 0
      BY DEF Before
    <3>2. Leaps(FirstYear - 1) \in Int
      BY YearsAssumption DEF Leaps
    <3>3. FirstYear + 0 = FirstYear
      BY YearsAssumption
    <3> QED  BY <3>1, <3>2, <3>3 DEF FirstOf
  <2> QED  BY <2>1
<1>2. ASSUME NEW m \in Nat, m \in True  PROVE m + 1 \in True
  <2>1. FirstOf(m) \in Int /\ FirstOf(m + 1) \in Int /\ FirstOf(m + 1) - FirstOf(m) \in 28 .. 31
    BY LengthIs DEF LengthOf
  <2> QED  BY <1>2, <2>1
<1>3. \A m \in Nat : m \in True
  <2> HIDE DEF True
  <2> QED  BY <1>1, <1>2, NatInduct
<1> QED  BY <1>3

\* The months come one after the other.
LEMMA FirstOrdered ==
  ASSUME NEW m \in Nat, NEW n \in Nat, m < n
  PROVE  FirstOf(m + 1) <= FirstOf(n)
<1> DEFINE True == {k \in Nat : FirstOf(m + 1) <= FirstOf(m + 1 + k)}
<1>1. 0 \in True
  <2>1. m + 1 + 0 = m + 1 /\ FirstOf(m + 1) \in Int
    BY LengthIs
  <2> QED  BY <2>1
<1>2. ASSUME NEW k \in Nat, k \in True  PROVE k + 1 \in True
  <2>1. FirstOf(m + 1) \in Int
    BY LengthIs
  <2>2. m + 1 + k \in Nat /\ m + 1 + (k + 1) = (m + 1 + k) + 1
    OBVIOUS
  <2>3. FirstOf(m + 1 + k) <= FirstOf((m + 1 + k) + 1)
        /\ FirstOf(m + 1 + k) \in Int /\ FirstOf((m + 1 + k) + 1) \in Int
    BY <2>2, LengthIs DEF LengthOf
  <2>4. FirstOf(m + 1) <= FirstOf((m + 1 + k) + 1)
    BY <1>2, <2>1, <2>3
  <2> QED  BY <2>2, <2>4
<1>3. \A k \in Nat : k \in True
  <2> HIDE DEF True
  <2> QED  BY <1>1, <1>2, NatInduct
<1>4. n - m - 1 \in Nat /\ m + 1 + (n - m - 1) = n
  OBVIOUS
<1>5. FirstOf(m + 1) <= FirstOf(m + 1 + (n - m - 1))
  BY <1>3, <1>4
<1> QED  BY <1>4, <1>5

\* Every date is in one month.
LEMMA MonthIs ==
  ASSUME NEW t \in Nat
  PROVE  /\ MonthOf(t) \in Nat
         /\ FirstOf(MonthOf(t)) <= t /\ t < FirstOf(MonthOf(t) + 1)
<1> DEFINE After == {m \in Nat : t < FirstOf(m)}
           In(m) == FirstOf(m) <= t /\ t < FirstOf(m + 1)
<1>1. t + 1 \in After
  <2>1. 28 * (t + 1) <= FirstOf(t + 1) /\ FirstOf(t + 1) \in Int
    BY FirstBounds, LengthIs
  <2> QED  BY <2>1
<1>2. PICK x \in After : \A m \in After : x <= m
  <2>1. After \in SUBSET Nat /\ After # {}
    BY <1>1
  <2> HIDE DEF After
  <2> QED  BY <2>1, LeastOf
<1>3. x # 0
  <2>1. FirstOf(0) <= 31 * 0 /\ FirstOf(0) \in Int
    BY FirstBounds, LengthIs
  <2> QED  BY <1>2, <2>1
<1>4. x - 1 \in Nat /\ x - 1 \notin After /\ (x - 1) + 1 = x
  BY <1>2, <1>3
<1>5. FirstOf(x - 1) \in Int
  BY <1>4, LengthIs
<1>6. In(x - 1)
  BY <1>4, <1>5
<1>7. x - 1 \in t \div 31 .. t \div 28
  <2>1. 28 * (x - 1) <= t /\ t < 31 * x
    <3>1. 28 * (x - 1) <= FirstOf(x - 1) /\ FirstOf(x) <= 31 * x /\ FirstOf(x) \in Int
      BY <1>4, FirstBounds, LengthIs
    <3> QED  BY <1>4, <1>5, <1>6, <3>1
  <2> QED  BY <1>4, <2>1
<1>8. \E m \in t \div 31 .. t \div 28 : In(m)
  <2> HIDE DEF In
  <2> QED  BY <1>6, <1>7
<1>9. MonthOf(t) \in t \div 31 .. t \div 28 /\ In(MonthOf(t))
  BY <1>8 DEF MonthOf
<1>10. \A m \in t \div 31 .. t \div 28 : m \in Nat
  OBVIOUS
<1> QED  BY <1>9, <1>10

LEMMA MonthOnly ==
  ASSUME NEW t \in Nat, NEW m \in Nat, FirstOf(m) <= t, t < FirstOf(m + 1)
  PROVE  MonthOf(t) = m
<1> DEFINE k == MonthOf(t)
<1>1. k \in Nat /\ FirstOf(k) <= t /\ t < FirstOf(k + 1)
  BY MonthIs
<1>2. {FirstOf(m), FirstOf(m + 1), FirstOf(k), FirstOf(k + 1)} \subseteq Int
  BY <1>1, LengthIs
<1>3. ~(m < k)
  BY <1>1, <1>2, FirstOrdered
<1>4. ~(k < m)
  BY <1>1, <1>2, FirstOrdered
<1> QED  BY <1>1, <1>3, <1>4

\* The months beside a month, and its last day.
LEMMA Beside ==
  ASSUME NEW m \in Nat
  PROVE  /\ FirstOf(m) \in Nat /\ MonthOf(FirstOf(m)) = m
         /\ MonthOf(AddDate(FirstOf(m), 1, 0)) = m + 1
         /\ m # 0 => MonthOf(AddDate(FirstOf(m), -1, 0)) = m - 1
         /\ DayOf(AddDate(FirstOf(m), 1, -1)) = LengthOf(m)
<1>1. \A k \in Nat : FirstOf(k) \in Nat /\ MonthOf(FirstOf(k)) = k
  <2> SUFFICES ASSUME NEW k \in Nat  PROVE FirstOf(k) \in Nat /\ MonthOf(FirstOf(k)) = k
    OBVIOUS
  <2>1. FirstOf(k) \in Int /\ FirstOf(k + 1) \in Int /\ FirstOf(k) < FirstOf(k + 1)
    BY LengthIs DEF LengthOf
  <2>2. FirstOf(k) >= 28 * k
    BY FirstBounds
  <2>3. FirstOf(k) \in Nat
    BY <2>1, <2>2
  <2> QED  BY <2>1, <2>3, MonthOnly
<1>2. DayOf(FirstOf(m)) = 1
  BY <1>1 DEF DayOf
<1>3. AddDate(FirstOf(m), 1, 0) = FirstOf(m + 1)
  BY <1>1, <1>2 DEF AddDate
<1>4. m # 0 => AddDate(FirstOf(m), -1, 0) = FirstOf(m - 1)
  <2>1. m # 0 => m - 1 \in Nat /\ m + -1 = m - 1
    OBVIOUS
  <2>2. m # 0 => FirstOf(m - 1) \in Nat
    BY <1>1, <2>1
  <2> QED  BY <1>1, <1>2, <2>1, <2>2 DEF AddDate
<1> DEFINE last == FirstOf(m + 1) - 1
<1>5. AddDate(FirstOf(m), 1, -1) = last
  BY <1>1, <1>2 DEF AddDate
<1>6. LengthOf(m) \in 28 .. 31 /\ FirstOf(m + 1) \in Nat /\ FirstOf(m) \in Nat
  BY <1>1, LengthIs
<1>7. last \in Nat /\ FirstOf(m) <= last /\ last < FirstOf(m + 1)
  BY <1>6 DEF LengthOf
<1>8. MonthOf(last) = m
  <2> HIDE DEF last
  <2> QED  BY <1>7, MonthOnly
<1>9. DayOf(last) = LengthOf(m)
  BY <1>6, <1>8 DEF DayOf, LengthOf
<1> QED  BY <1>1, <1>3, <1>4, <1>5, <1>9

\* The days of a month, where every date has a midnight.
LEMMA DateIs ==
  ASSUME Gaps = {}, NEW m \in Nat, NEW d \in 1 .. LengthOf(m)
  PROVE  /\ Date(m, d) = FirstOf(m) + d - 1
         /\ Date(m, d) \in Nat /\ MonthOf(Date(m, d)) = m
<1>1. FirstOf(m) \in Nat /\ LengthOf(m) \in 28 .. 31 /\ FirstOf(m + 1) \in Int
  BY Beside, LengthIs
<1>2. Date(m, d) = FirstOf(m) + d - 1
  BY DEF Date
<1>3. Date(m, d) \in Nat /\ FirstOf(m) <= Date(m, d) /\ Date(m, d) < FirstOf(m + 1)
  BY <1>1, <1>2 DEF LengthOf
<1> QED  BY <1>2, <1>3, MonthOnly

\* A date is the day of its month that it is.
LEMMA DateOfDay ==
  ASSUME Gaps = {}, NEW t \in Nat
  PROVE  /\ MonthOf(t) \in Nat /\ DayOf(t) \in 1 .. LengthOf(MonthOf(t))
         /\ Date(MonthOf(t), DayOf(t)) = t
<1> DEFINE m == MonthOf(t)
<1>1. m \in Nat /\ FirstOf(m) <= t /\ t < FirstOf(m + 1)
  BY MonthIs
<1>2. FirstOf(m) \in Nat /\ FirstOf(m + 1) \in Int
  BY <1>1, Beside, LengthIs
<1>3. DayOf(t) = t - FirstOf(m) + 1
  BY DEF DayOf
<1>4. DayOf(t) \in 1 .. LengthOf(m)
  <2> HIDE DEF m
  <2> QED  BY <1>1, <1>2, <1>3 DEF LengthOf
<1>5. Date(m, DayOf(t)) = FirstOf(m) + DayOf(t) - 1
  BY <1>1, <1>4, DateIs
<1> HIDE DEF m
<1>6. Date(m, DayOf(t)) = t
  BY <1>2, <1>3, <1>5
<1> QED  BY <1>1, <1>4, <1>6 DEF m

-----------------------------------------------------------------------------
\* The request

CalTypes ==
  /\ today \in Dates /\ bundles \in SUBSET (Dates \X {0, 1})
  /\ asked.month \in Nat => asked.month # 0
  /\ asked.day \in Nat => asked.day \in Dates

\* The month that the request is about.
MonthMeant ==
  IF asked.month \in Nat THEN asked.month
  ELSE IF asked.day \in Nat THEN MonthOf(asked.day)
  ELSE MonthOf(today)

\* A date is not in the first of the months.
LEMMA DateMonth ==
  ASSUME NEW t \in Dates
  PROVE  t \in Nat /\ MonthOf(t) \in Nat \ {0}
<1>1. t \in Nat /\ t >= FirstOf(1) /\ FirstOf(1) \in Int
  BY DatesAssumption, LengthIs
<1>2. MonthOf(t) \in Nat /\ t < FirstOf(MonthOf(t) + 1)
  BY <1>1, MonthIs
<1>3. MonthOf(t) = 0 => MonthOf(t) + 1 = 1
  OBVIOUS
<1>4. MonthOf(t) # 0
  BY <1>1, <1>2, <1>3
<1> QED  BY <1>1, <1>2, <1>4

\* Only the month counts, and the day selected is one of it.
LEMMA RequestMeans ==
  ASSUME Gaps = {}, CalTypes
  PROVE  /\ MonthMeant \in Nat \ {0} /\ MonthShown = FirstOf(MonthMeant)
         /\ DaySelected # Never => DaySelected \in Nat /\ MonthOf(DaySelected) = MonthMeant
<1>1. today \in Nat /\ MonthOf(today) \in Nat \ {0}
  BY DateMonth DEF CalTypes
<1>2. asked.day \in Nat => MonthOf(asked.day) \in Nat \ {0} /\ DayAsked = asked.day
  BY DateMonth, DateOfDay DEF CalTypes, DayAsked
<1>3. asked.day \notin Nat => DayAsked = Never
  BY DEF DayAsked
<1>4. MonthMeant \in Nat \ {0}
  BY <1>1, <1>2 DEF MonthMeant, CalTypes
<1>5. ASSUME NEW k \in Nat  PROVE Date(k, 1) = FirstOf(k) /\ MonthOf(FirstOf(k)) = k
  <2>1. 1 \in 1 .. LengthOf(k) /\ FirstOf(k) + 1 - 1 = FirstOf(k)
    BY LengthIs
  <2> QED  BY <2>1, DateIs, Beside
<1> DEFINE t == IF asked.month \in Nat THEN Date(asked.month, 1)
                ELSE IF DayAsked # Never THEN DayAsked
                ELSE today
<1>6. MonthOf(t) = MonthMeant
  <2>1. CASE asked.month \in Nat
    BY <1>5, <2>1 DEF MonthMeant
  <2>2. CASE asked.month \notin Nat /\ asked.day \in Nat
    BY <1>2, <2>2, NoDateAssumption DEF MonthMeant
  <2>3. CASE asked.month \notin Nat /\ asked.day \notin Nat
    BY <1>3, <2>3 DEF MonthMeant
  <2> QED  BY <2>1, <2>2, <2>3
<1>7. MonthShown = FirstOf(MonthMeant)
  <2>1. MonthShown = Date(MonthOf(t), 1)
    BY Zenon DEF MonthShown
  <2> HIDE DEF t
  <2> QED  BY <1>4, <1>5, <1>6, <2>1
<1>8. MonthOf(MonthShown) = MonthMeant
  BY <1>4, <1>5, <1>7
<1>9. asked.month = Absent /\ asked.day = Absent => MonthMeant = MonthOf(today)
  BY NoDateAssumption DEF MonthMeant
<1>10. DayAsked # Never => DayAsked \in Nat
  BY <1>2, <1>3
<1> QED  BY <1>1, <1>4, <1>7, <1>8, <1>9, <1>10 DEF DaySelected

-----------------------------------------------------------------------------
\* The grid

\* The cell of row r, from 0 on, and column c when the loop has come to day d.
CellAt(m, shown, selected, offset, r, c, d) ==
  IF 7 * r + c - offset + 1 \in 1 .. d
  THEN Cell(m, shown, selected, 7 * r + c - offset + 1)
  ELSE NoCell

Row(offset, d) == (offset + d - 1) \div 7

\* The grid that the loop has after day d: the rows that are closed, and the one
\* that it is filling.
Grid(m, shown, selected, offset, d) ==
  [ weeks |-> [r \in 1 .. Row(offset, d) |->
                 [c \in 0 .. 6 |-> CellAt(m, shown, selected, offset, r - 1, c, d)]],
    week  |-> [c \in 0 .. 6 |-> CellAt(m, shown, selected, offset, Row(offset, d), c, d)] ]

\* A turn of the loop.
Turn(m, shown, selected, offset, g, d) ==
  LET col  == (offset + d - 1) % 7
      cell == Cell(m, shown, selected, d)
  IN  IF col = 0 /\ d > 1
      THEN [weeks |-> Append(g.weeks, g.week), week |-> [NoWeek EXCEPT ![col] = cell]]
      ELSE [g EXCEPT !.week[col] = cell]

LEMMA FirstTurn ==
  ASSUME NEW m, NEW shown, NEW selected, NEW offset \in 0 .. 6
  PROVE  Turn(m, shown, selected, offset, [weeks |-> << >>, week |-> NoWeek], 1)
           = Grid(m, shown, selected, offset, 1)
<1> DEFINE cell == Cell(m, shown, selected, 1)
<1>1. (offset + 1 - 1) % 7 = offset /\ Row(offset, 1) = 0
  BY DEF Row
<1>2. \A c \in 0 .. 6 : CellAt(m, shown, selected, offset, 0, c, 1) = IF c = offset THEN cell ELSE NoCell
  BY DEF CellAt
<1>3. Turn(m, shown, selected, offset, [weeks |-> << >>, week |-> NoWeek], 1)
        = [weeks |-> << >>, week |-> [NoWeek EXCEPT ![offset] = cell]]
  BY <1>1 DEF Turn
<1>4. [NoWeek EXCEPT ![offset] = cell] = [c \in 0 .. 6 |-> CellAt(m, shown, selected, offset, 0, c, 1)]
  BY <1>2 DEF NoWeek
<1>5. << >> = [r \in 1 .. 0 |-> [c \in 0 .. 6 |-> CellAt(m, shown, selected, offset, r - 1, c, 1)]]
  OBVIOUS
<1> QED  BY <1>1, <1>3, <1>4, <1>5 DEF Grid

LEMMA AppendIs ==
  ASSUME NEW n \in Nat, n - 1 \in Nat, NEW old, NEW cur, old = [r \in 1 .. n - 1 |-> old[r]]
  PROVE  Append(old, cur) = [r \in 1 .. n |-> IF r = n THEN cur ELSE old[r]]
<1> DEFINE Items == {old[r] : r \in 1 .. n - 1} \cup {cur}
<1>1. old \in Seq(Items) /\ cur \in Items /\ DOMAIN old = 1 .. n - 1 /\ Len(old) = n - 1
  <2>1. \A r \in 1 .. n - 1 : old[r] \in Items
    OBVIOUS
  <2> HIDE DEF Items
  <2>2. cur \in Items
    BY DEF Items
  <2>3. old \in Seq(Items) /\ DOMAIN old = 1 .. n - 1
    BY <2>1
  <2> QED  BY <2>2, <2>3
<1> HIDE DEF Items
<1>2. /\ DOMAIN Append(old, cur) = 1 .. n
      /\ \A r \in 1 .. n : Append(old, cur)[r] = IF r = n THEN cur ELSE old[r]
  BY <1>1
<1>3. \A all \in Seq(Items) : all = [r \in DOMAIN all |-> all[r]]
  OBVIOUS
<1>4. Append(old, cur) \in Seq(Items)
  BY <1>1
<1>5. Append(old, cur) = [r \in DOMAIN Append(old, cur) |-> Append(old, cur)[r]]
  BY <1>3, <1>4, Zenon
<1> QED  BY <1>2, <1>5

LEMMA NextTurn ==
  ASSUME NEW m, NEW shown, NEW selected, NEW offset \in 0 .. 6, NEW d \in Nat, d > 1
  PROVE  Turn(m, shown, selected, offset, Grid(m, shown, selected, offset, d - 1), d)
           = Grid(m, shown, selected, offset, d)
<1> DEFINE g == Grid(m, shown, selected, offset, d - 1)
           At(r, c, n) == CellAt(m, shown, selected, offset, r, c, n)
           cell == Cell(m, shown, selected, d)
           col  == (offset + d - 1) % 7
           row  == Row(offset, d)
<1>1. col \in 0 .. 6 /\ row \in Nat /\ 7 * row + col - offset + 1 = d
  BY DEF Row
<1>2. \A r \in Int, c \in 0 .. 6 :
        At(r, c, d) = IF r = row /\ c = col THEN cell ELSE At(r, c, d - 1)
  <2> SUFFICES ASSUME NEW r \in Int, NEW c \in 0 .. 6
               PROVE  At(r, c, d) = IF r = row /\ c = col THEN cell ELSE At(r, c, d - 1)
    OBVIOUS
  <2>1. CASE r = row /\ c = col
    <3> HIDE DEF row, col
    <3> QED  BY <1>1, <2>1 DEF CellAt
  <2>2. CASE ~(r = row /\ c = col)
    <3>1. 7 * r + c - offset + 1 # d
      <4> HIDE DEF row, col
      <4> QED  BY <1>1, <2>2
    <3>2. 7 * r + c - offset + 1 \in 1 .. d <=> 7 * r + c - offset + 1 \in 1 .. d - 1
      BY <3>1
    <3> QED  BY <2>2, <3>2, Zenon DEF CellAt
  <2> QED  BY <2>1, <2>2
<1>3. CASE col = 0
  <2>1. Row(offset, d - 1) = row - 1 /\ row - 1 \in Nat
    BY <1>3 DEF Row
  <2>2. \A c \in 0 .. 6 : At(row, c, d - 1) = NoCell
    <3> HIDE DEF row, col
    <3> QED  BY <1>1, <1>3 DEF CellAt
  <2>3. Turn(m, shown, selected, offset, g, d)
          = [weeks |-> Append(g.weeks, g.week), week |-> [NoWeek EXCEPT ![col] = cell]]
    BY <1>3 DEF Turn
  <2>4. [NoWeek EXCEPT ![col] = cell] = [c \in 0 .. 6 |-> At(row, c, d)]
    <3> HIDE DEF row, cell, At
    <3> QED  BY <1>1, <1>2, <1>3, <2>2 DEF NoWeek
  <2>5. Append(g.weeks, g.week) = [r \in 1 .. row |-> [c \in 0 .. 6 |-> At(r - 1, c, d)]]
    <3> DEFINE old == [r \in 1 .. row - 1 |-> [c \in 0 .. 6 |-> At(r - 1, c, d - 1)]]
               cur == [c \in 0 .. 6 |-> At(row - 1, c, d - 1)]
    <3>1. g.weeks = old /\ g.week = cur
      BY <2>1, Zenon DEF Grid
    <3>2. \A r \in 1 .. row - 1 : old[r] = [c \in 0 .. 6 |-> At(r - 1, c, d)]
      <4>1. \A r \in 1 .. row - 1, c \in 0 .. 6 : At(r - 1, c, d) = At(r - 1, c, d - 1)
        <5> HIDE DEF row, At
        <5> QED  BY <1>1, <1>2
      <4> HIDE DEF row, At
      <4> QED  BY <4>1
    <3>3. cur = [c \in 0 .. 6 |-> At(row - 1, c, d)]
      <4> HIDE DEF row, At
      <4> QED  BY <1>1, <1>2
    <3>4. Append(old, cur) = [r \in 1 .. row |-> IF r = row THEN cur ELSE old[r]]
      <4>1. old = [r \in 1 .. row - 1 |-> old[r]]
        BY Zenon
      <4>2. row \in Nat /\ row - 1 \in Nat
        BY <1>1, <2>1
      <4> HIDE DEF old, cur, row
      <4> QED  BY <4>1, <4>2, AppendIs
    <3> HIDE DEF old, cur
    <3>5. \A r \in 1 .. row : (IF r = row THEN cur ELSE old[r]) = [c \in 0 .. 6 |-> At(r - 1, c, d)]
      <4> HIDE DEF row, At
      <4> QED  BY <1>1, <3>2, <3>3
    <3> HIDE DEF row, At
    <3> QED  BY <3>1, <3>4, <3>5
  <2> QED  BY <2>3, <2>4, <2>5, Zenon DEF Grid
<1>4. CASE col # 0
  <2>1. Row(offset, d - 1) = row
    BY <1>4 DEF Row
  <2>2. Turn(m, shown, selected, offset, g, d) = [g EXCEPT !.week[col] = cell]
    BY <1>4, Zenon DEF Turn
  <2>3. g = [weeks |-> [r \in 1 .. row |-> [c \in 0 .. 6 |-> At(r - 1, c, d - 1)]],
             week  |-> [c \in 0 .. 6 |-> At(row, c, d - 1)]]
    BY <2>1, Zenon DEF Grid
  <2>4. [r \in 1 .. row |-> [c \in 0 .. 6 |-> At(r - 1, c, d - 1)]]
          = [r \in 1 .. row |-> [c \in 0 .. 6 |-> At(r - 1, c, d)]]
    <3>1. \A r \in 1 .. row, c \in 0 .. 6 : At(r - 1, c, d) = At(r - 1, c, d - 1)
      <4> HIDE DEF row, At
      <4> QED  BY <1>1, <1>2
    <3> HIDE DEF row, At
    <3> QED  BY <3>1
  <2>5. [[c \in 0 .. 6 |-> At(row, c, d - 1)] EXCEPT ![col] = cell] = [c \in 0 .. 6 |-> At(row, c, d)]
    <3>1. \A c \in 0 .. 6 : At(row, c, d) = IF c = col THEN cell ELSE At(row, c, d - 1)
      <4> HIDE DEF row, At, col, cell
      <4> QED  BY <1>1, <1>2
    <3> HIDE DEF row, At, col, cell
    <3> QED  BY <3>1
  <2> DEFINE old == [r \in 1 .. row |-> [c \in 0 .. 6 |-> At(r - 1, c, d - 1)]]
             cur == [c \in 0 .. 6 |-> At(row, c, d - 1)]
  <2>6. [[weeks |-> old, week |-> cur] EXCEPT !.week[col] = cell]
          = [weeks |-> old, week |-> [cur EXCEPT ![col] = cell]]
    <3> HIDE DEF old, cur, col, cell
    <3> QED  OBVIOUS
  <2> QED  BY <2>2, <2>3, <2>4, <2>5, <2>6, Zenon DEF Grid
<1> QED  BY <1>3, <1>4

\* The grid of a month.
WeeksOf(m, selected) ==
  [r \in 1 .. Row(FirstOf(m) % 7, LengthOf(m)) + 1 |->
     [c \in 0 .. 6 |->
        CellAt(m, FirstOf(m), selected, FirstOf(m) % 7, r - 1, c, LengthOf(m))]]

LEMMA WeeksAre ==
  ASSUME Gaps = {}, NEW m \in Nat, NEW selected
  PROVE  Weeks(FirstOf(m), selected) = WeeksOf(m, selected)
<1> DEFINE shown  == FirstOf(m)
           month  == MonthOf(shown)
           offset == (Weekday(Date(month, 1)) + 6) % 7
           days   == DayOf(AddDate(Date(month, 1), 1, -1))
           base   == [weeks |-> << >>, week |-> NoWeek]
           Turns(f) == [d \in 0 .. 31 |-> IF d = 0 THEN base
                                          ELSE Turn(month, shown, selected, offset, f[d - 1], d)]
           upTo == CHOOSE f : f = Turns(f)
<1>1. Weeks(shown, selected) = Append(upTo[days].weeks, upTo[days].week)
  BY Zenon DEF Weeks, Turn
<1>2. shown \in Nat /\ month = m /\ Date(month, 1) = shown
  <2>1. 1 \in 1 .. LengthOf(m) /\ shown + 1 - 1 = shown
    BY LengthIs
  <2> QED  BY <2>1, Beside, DateIs
<1>3. offset = shown % 7 /\ days = LengthOf(m)
  <2>1. \A t \in Nat : (((t + 1) % 7) + 6) % 7 = t % 7
    OBVIOUS
  <2>2. offset = shown % 7
    <3> HIDE DEF shown, month
    <3> QED  BY <1>2, <2>1 DEF Weekday
  <2> QED  BY <1>2, <2>2, Beside
<1>4. offset \in 0 .. 6 /\ days \in 28 .. 31
  BY <1>2, <1>3, LengthIs
<1> HIDE DEF offset, days, month
<1> DEFINE all == [d \in 0 .. 31 |-> IF d = 0 THEN base ELSE Grid(month, shown, selected, offset, d)]
<1>5. all = Turns(all)
  <2>1. ASSUME NEW d \in 1 .. 31
        PROVE  Grid(month, shown, selected, offset, d)
                 = Turn(month, shown, selected, offset, all[d - 1], d)
    <3>1. CASE d = 1
      <4>1. all[d - 1] = base
        BY <3>1
      <4> QED  BY <1>4, <3>1, <4>1, FirstTurn
    <3>2. CASE d # 1
      <4>1. d - 1 \in 1 .. 31 /\ d > 1 /\ d \in Nat
        BY <3>2
      <4>2. all[d - 1] = Grid(month, shown, selected, offset, d - 1)
        <5> HIDE DEF base
        <5> QED  BY <4>1
      <4> HIDE DEF all
      <4> QED  BY <1>4, <4>1, <4>2, NextTurn
    <3> QED  BY <3>1, <3>2
  <2> HIDE DEF base
  <2>2. \A d \in 0 .. 31 : d = 0 \/ d \in 1 .. 31
    OBVIOUS
  <2>3. \A d \in 0 .. 31 : (IF d = 0 THEN base ELSE Grid(month, shown, selected, offset, d))
          = (IF d = 0 THEN base ELSE Turn(month, shown, selected, offset, all[d - 1], d))
    <3> HIDE DEF all
    <3> QED  BY <2>1, <2>2
  <2> QED  BY <2>3, Zenon
<1>6. upTo = Turns(upTo)
  BY <1>5, Zenon
<1> HIDE DEF upTo, base
<1>7. \A d \in 0 .. 31 : upTo[d] = all[d]
  <2> DEFINE True == {d \in 0 .. 31 : upTo[d] = all[d]}
  <2>1. 0 \in True
    BY <1>6
  <2>2. ASSUME NEW d \in 1 .. 31, d - 1 \in True  PROVE d \in True
    <3>1. upTo[d - 1] = all[d - 1]
      BY <2>2
    <3>2. d # 0 /\ d \in 0 .. 31
      OBVIOUS
    <3>3. upTo[d] = Turn(month, shown, selected, offset, upTo[d - 1], d)
      BY <1>6, <3>2
    <3>4. all[d] = Turn(month, shown, selected, offset, all[d - 1], d)
      <4> HIDE DEF all
      <4> QED  BY <1>5, <3>2
    <3> QED  BY <3>1, <3>2, <3>3, <3>4
  <2>3. \A d \in 0 .. 31 : d \in True
    <3> HIDE DEF True
    <3> QED  BY <2>1, <2>2, UptoInduct
  <2> QED  BY <2>3
<1>8. upTo[days] = Grid(month, shown, selected, offset, days)
  BY <1>4, <1>7
<1> DEFINE At(r, c) == CellAt(month, shown, selected, offset, r, c, days)
           n   == Row(offset, days) + 1
           old == [r \in 1 .. n - 1 |-> [c \in 0 .. 6 |-> At(r - 1, c)]]
           cur == [c \in 0 .. 6 |-> At(n - 1, c)]
<1>9. n \in Nat /\ n - 1 \in Nat /\ n - 1 = Row(offset, days)
  BY <1>4 DEF Row
<1>10. upTo[days].weeks = old /\ upTo[days].week = cur
  <2> DEFINE row == Row(offset, days)
             g   == Grid(month, shown, selected, offset, days)
  <2>1. g.weeks = [r \in 1 .. row |-> [c \in 0 .. 6 |-> At(r - 1, c)]]
    BY Zenon DEF Grid
  <2>2. g.week = [c \in 0 .. 6 |-> At(row, c)]
    BY Zenon DEF Grid
  <2>3. upTo[days] = g
    BY <1>8
  <2> HIDE DEF n, At
  <2> HIDE DEF g, row
  <2>4. n - 1 = row
    BY <1>9 DEF row
  <2> QED  BY <2>1, <2>2, <2>3, <2>4
<1>11. Append(old, cur) = [r \in 1 .. n |-> IF r = n THEN cur ELSE old[r]]
  <2>1. old = [r \in 1 .. n - 1 |-> old[r]]
    BY Zenon
  <2> HIDE DEF old, cur, n
  <2> QED  BY <1>9, <2>1, AppendIs
<1>12. \A r \in 1 .. n : (IF r = n THEN cur ELSE old[r]) = [c \in 0 .. 6 |-> At(r - 1, c)]
  <2>1. \A r \in 1 .. n : r = n \/ r \in 1 .. n - 1
    BY <1>9
  <2> HIDE DEF At, n
  <2> QED  BY <2>1
<1>13. Weeks(shown, selected) = [r \in 1 .. n |-> [c \in 0 .. 6 |-> At(r - 1, c)]]
  <2> HIDE DEF old, cur, n, At
  <2> QED  BY <1>1, <1>10, <1>11, <1>12
<1> QED  BY <1>2, <1>3, <1>13, Zenon DEF WeeksOf

\* The cells of a month that starts in column o and has N days.
MonthCells(o, N) == {p \in (1 .. Row(o, N) + 1) \X (0 .. 6) : 7 * (p[1] - 1) + p[2] - o + 1 \in 1 .. N}

LEMMA CellsCount ==
  ASSUME NEW o \in 0 .. 6, NEW N \in 28 .. 31
  PROVE  /\ Cardinality(MonthCells(o, N)) = N
         /\ \A r \in 1 .. Row(o, N) + 1 : \E p \in MonthCells(o, N) : p[1] = r
<1> DEFINE cells == MonthCells(o, N)
           place == [k \in 1 .. N |-> <<(o + k - 1) \div 7 + 1, (o + k - 1) % 7>>]
<1>1. Row(o, N) \in Nat
  BY DEF Row
<1>2. ASSUME NEW k \in 1 .. N
      PROVE  place[k] \in cells /\ 7 * (place[k][1] - 1) + place[k][2] - o + 1 = k
  <2> DEFINE r == (o + k - 1) \div 7 + 1
             c == (o + k - 1) % 7
  <2>1. r \in 1 .. Row(o, N) + 1 /\ c \in 0 .. 6
    BY DEF Row
  <2>2. 7 * (r - 1) + c - o + 1 = k
    OBVIOUS
  <2>3. place[k] = <<r, c>>
    OBVIOUS
  <2> HIDE DEF r, c, place
  <2> QED  BY <2>1, <2>2, <2>3 DEF MonthCells
<1>3. ASSUME NEW p \in cells
      PROVE  place[7 * (p[1] - 1) + p[2] - o + 1] = p
  <2> DEFINE k == 7 * (p[1] - 1) + p[2] - o + 1
  <2>1. PICK r \in 1 .. Row(o, N) + 1, c \in 0 .. 6 : p = <<r, c>>
    BY DEF MonthCells
  <2>2. k \in 1 .. N /\ k = 7 * (r - 1) + c - o + 1
    BY <2>1 DEF MonthCells
  <2>3. r \in Int
    BY <1>1
  <2>4. (o + k - 1) \div 7 + 1 = r /\ (o + k - 1) % 7 = c
    <3> HIDE DEF k
    <3>1. o + k - 1 = 7 * (r - 1) + c
      BY <2>2, <2>3
    <3>2. (7 * (r - 1) + c) \div 7 = r - 1 /\ (7 * (r - 1) + c) % 7 = c
      BY <2>3
    <3> QED  BY <2>3, <3>1, <3>2
  <2> HIDE DEF k
  <2>5. place[k] = <<r, c>>
    BY <2>2, <2>4
  <2> QED  BY <2>1, <2>5 DEF k
<1>4. place \in Bijection(1 .. N, cells)
  <2>1. place \in [1 .. N -> cells]
    <3> HIDE DEF cells
    <3> QED  BY <1>2
  <2>2. IsInjective(place)
    <3>1. DOMAIN place = 1 .. N
      OBVIOUS
    <3> HIDE DEF place
    <3> QED  BY <1>2, <3>1 DEF IsInjective
  <2>3. \A p \in cells : \E k \in 1 .. N : place[k] = p
    <3>1. \A p \in cells : 7 * (p[1] - 1) + p[2] - o + 1 \in 1 .. N
      BY DEF MonthCells
    <3> HIDE DEF place, cells
    <3> QED  BY <1>3, <3>1
  <2> HIDE DEF place, cells
  <2> QED  BY <2>1, <2>2, <2>3 DEF Bijection, Injection, Surjection
<1>5. Cardinality(cells) = N
  <2>1. ExistsBijection(1 .. N, cells)
    <3> HIDE DEF place, cells
    <3> QED  BY <1>4 DEF ExistsBijection
  <2> HIDE DEF cells
  <2> QED  BY <2>1, FS_CountingElements
<1>6. ASSUME NEW r \in 1 .. Row(o, N) + 1  PROVE \E p \in cells : p[1] = r
  <2>1. CASE r = 1
    <3>1. <<1, o>> \in cells
      BY <1>1 DEF MonthCells
    <3> QED  BY <2>1, <3>1
  <2>2. CASE r # 1
    <3>1. 7 * (r - 1) + 0 - o + 1 \in 1 .. N
      BY <1>1, <2>2 DEF Row
    <3>2. <<r, 0>> \in cells
      BY <3>1 DEF MonthCells
    <3> QED  BY <3>2
  <2> QED  BY <2>1, <2>2
<1> QED  BY <1>5, <1>6

LEMMA GridIsExact ==
  ASSUME Gaps = {}, CalTypes, page = BrowseCalendar(MonthShown, DaySelected)
  PROVE  GridExact
<1> DEFINE m == MonthMeant
           F == FirstOf(m)
           N == LengthOf(m)
           o == F % 7
           sel == DaySelected
           day(p) == 7 * (p[1] - 1) + p[2] - o + 1
<1>1. m \in Nat /\ F \in Nat /\ N \in 28 .. 31 /\ o \in 0 .. 6 /\ MonthShown = F
  <2>1. m \in Nat /\ MonthShown = F
    BY RequestMeans
  <2> HIDE DEF m
  <2>2. F \in Nat /\ N \in 28 .. 31
    BY <2>1, Beside, LengthIs
  <2> QED  BY <2>1, <2>2
<1>2. page.month = m /\ page.selected = sel /\ page.weeks = WeeksOf(m, sel)
  <2>1. MonthOf(MonthShown) = m /\ Weeks(MonthShown, sel) = WeeksOf(m, sel)
    BY <1>1, Beside, WeeksAre
  <2> QED  BY <2>1, Zenon DEF BrowseCalendar
<1> HIDE DEF m, sel
<1>3. /\ Len(page.weeks) = Row(o, N) + 1 /\ DOMAIN page.weeks = 1 .. Row(o, N) + 1
      /\ \A r \in 1 .. Row(o, N) + 1, c \in 0 .. 6 :
           page.weeks[r][c] = CellAt(m, F, sel, o, r - 1, c, N)
  <2>1. Row(o, N) + 1 \in Nat
    BY <1>1 DEF Row
  <2>2. page.weeks = [r \in 1 .. Row(o, N) + 1 |-> [c \in 0 .. 6 |-> CellAt(m, F, sel, o, r - 1, c, N)]]
    BY <1>2, Zenon DEF WeeksOf
  <2> HIDE DEF F, N, o
  <2> QED  BY <2>1, <2>2
<1> DEFINE cells == {p \in (1 .. Len(page.weeks)) \X (0 .. 6) : page.weeks[p[1]][p[2]].day # 0}
<1>4. ASSUME NEW r \in 1 .. Row(o, N) + 1, NEW c \in 0 .. 6
      PROVE  /\ page.weeks[r][c].day # 0 <=> 7 * (r - 1) + c - o + 1 \in 1 .. N
             /\ 7 * (r - 1) + c - o + 1 \in 1 .. N =>
                  page.weeks[r][c] = Cell(m, F, sel, 7 * (r - 1) + c - o + 1)
  <2> DEFINE k == 7 * (r - 1) + c - o + 1
  <2>1. page.weeks[r][c] = IF k \in 1 .. N THEN Cell(m, F, sel, k) ELSE NoCell
    BY <1>3 DEF CellAt
  <2>2. NoCell.day = 0 /\ Cell(m, F, sel, k).day = k
    BY DEF NoCell, Cell
  <2>3. k \in 1 .. N => k # 0
    BY <1>1
  <2> HIDE DEF k
  <2> QED  BY <2>1, <2>2, <2>3 DEF k
<1>5. cells = MonthCells(o, N)
  <2>1. \A p \in (1 .. Row(o, N) + 1) \X (0 .. 6) :
          page.weeks[p[1]][p[2]].day # 0 <=> 7 * (p[1] - 1) + p[2] - o + 1 \in 1 .. N
    <3> SUFFICES ASSUME NEW p \in (1 .. Row(o, N) + 1) \X (0 .. 6)
                 PROVE  page.weeks[p[1]][p[2]].day # 0 <=> 7 * (p[1] - 1) + p[2] - o + 1 \in 1 .. N
      OBVIOUS
    <3>1. p[1] \in 1 .. Row(o, N) + 1 /\ p[2] \in 0 .. 6
      OBVIOUS
    <3> HIDE DEF F, N, o
    <3> QED  BY <1>4, <3>1
  <2> HIDE DEF F, N, o
  <2> QED  BY <1>3, <2>1 DEF MonthCells
<1>6. Cardinality(cells) = N /\ \A r \in DOMAIN page.weeks : \E p \in cells : p[1] = r
  <2> HIDE DEF cells, F, N, o
  <2>1. /\ Cardinality(MonthCells(o, N)) = N
        /\ \A r \in 1 .. Row(o, N) + 1 : \E p \in MonthCells(o, N) : p[1] = r
    BY <1>1, CellsCount
  <2> QED  BY <1>3, <1>5, <2>1, Zenon
<1> DEFINE date(p) == F + page.weeks[p[1]][p[2]].day - 1
<1>7. ASSUME NEW p \in cells
      PROVE  /\ date(p) % 7 = p[2]
             /\ date(p) - 7 * p[1] - p[2] = F - 7 - (F % 7)
             /\ page.weeks[p[1]][p[2]].count = Cardinality({b \in bundles : b[1] = date(p)})
             /\ page.weeks[p[1]][p[2]].today = (date(p) = today)
             /\ page.weeks[p[1]][p[2]].selected = (date(p) = sel)
  <2> DEFINE k == day(p)
  <2>1. p[1] \in 1 .. Row(o, N) + 1 /\ p[2] \in 0 .. 6 /\ k \in 1 .. N
    <3> HIDE DEF cells, F, N, o
    <3> QED  BY <1>5 DEF MonthCells
  <2>2. page.weeks[p[1]][p[2]] = Cell(m, F, sel, k)
    <3> HIDE DEF cells, F, N, o
    <3> QED  BY <1>4, <2>1
  <2>3. date(p) = F + k - 1
    BY <2>2 DEF Cell
  <2>4. p[1] \in Int /\ p[2] \in Int
    BY <1>1, <2>1 DEF Row
  <2>5. date(p) % 7 = p[2] /\ date(p) - 7 * p[1] - p[2] = F - 7 - (F % 7)
    <3> DEFINE a == p[1]
               b == p[2]
               t == date(p)
    <3>5. k = 7 * (a - 1) + b - (F % 7) + 1
      BY Zenon
    <3>6. k \in Int
      <4> HIDE DEF k
      <4> QED  BY <1>1, <2>1
    <3>7. F \in Nat
      BY <1>1
    <3>1. a \in Int /\ b \in 0 .. 6 /\ t = F + k - 1 /\ k \in Int /\ F \in Nat
          /\ k = 7 * (a - 1) + b - (F % 7) + 1
      <4> HIDE DEF k, F, date
      <4> QED  BY <2>1, <2>3, <2>4, <3>5, <3>6, <3>7
    <3> HIDE DEF a, b, F, k, t
    <3>2. (F - (F % 7) + 7 * (a - 1) + b) % 7 = b
      BY <3>1
    <3>3. t = F - (F % 7) + 7 * (a - 1) + b
      BY <3>1
    <3>4. t % 7 = b /\ t - 7 * a - b = F - 7 - (F % 7)
      BY <3>1, <3>2, <3>3
    <3> QED  BY <3>4 DEF a, b, t
  <2>6. Date(m, k) = date(p) /\ MonthOf(date(p)) = MonthOf(F)
    <3>1. Date(m, k) = F + k - 1 /\ MonthOf(Date(m, k)) = m
      BY <1>1, <2>1, DateIs
    <3>2. MonthOf(F) = m
      BY <1>1, Beside
    <3> HIDE DEF date, F
    <3> QED  BY <2>3, <3>1, <3>2
  <2> HIDE DEF date, k
  <2>7. page.weeks[p[1]][p[2]] =
          [day |-> k, count |-> Cardinality({b \in bundles : b[1] = date(p) /\ MonthOf(b[1]) = MonthOf(F)}),
           today |-> date(p) = today, selected |-> date(p) = sel]
    BY <2>2, <2>6, Zenon DEF Cell
  <2>8. {b \in bundles : b[1] = date(p) /\ MonthOf(b[1]) = MonthOf(F)} = {b \in bundles : b[1] = date(p)}
    BY <2>6
  <2>9. /\ page.weeks[p[1]][p[2]].count = Cardinality({b \in bundles : b[1] = date(p)})
        /\ page.weeks[p[1]][p[2]].today = (date(p) = today)
        /\ page.weeks[p[1]][p[2]].selected = (date(p) = sel)
    <3> DEFINE cell == page.weeks[p[1]][p[2]]
               C1 == Cardinality({b \in bundles : b[1] = date(p) /\ MonthOf(b[1]) = MonthOf(F)})
               C2 == Cardinality({b \in bundles : b[1] = date(p)})
    <3>1. C1 = C2
      BY <2>8, Zenon
    <3>2. cell = [day |-> k, count |-> C1, today |-> date(p) = today, selected |-> date(p) = sel]
      BY <2>7, Zenon
    <3> HIDE DEF cell, C1, C2, F
    <3>3. cell.count = C1 /\ cell.today = (date(p) = today) /\ cell.selected = (date(p) = sel)
      BY <3>2
    <3> QED  BY <3>1, <3>3 DEF cell, C2
  <2> QED  BY <2>5, <2>9, Zenon
<1>8. page.month = m /\ LengthOf(page.month) = N /\ FirstOf(page.month) = F
  BY <1>2
<1> DEFINE when(p) == FirstOf(page.month) + page.weeks[p[1]][p[2]].day - 1
<1>9. \A p \in cells :
        /\ when(p) % 7 = p[2]
        /\ when(p) - 7 * p[1] - p[2] = FirstOf(page.month) - 7 - (FirstOf(page.month) % 7)
        /\ page.weeks[p[1]][p[2]].count = Cardinality({b \in bundles : b[1] = when(p)})
        /\ page.weeks[p[1]][p[2]].today = (when(p) = today)
        /\ page.weeks[p[1]][p[2]].selected = (when(p) = page.selected)
  <2> SUFFICES ASSUME NEW p \in cells
               PROVE  /\ when(p) % 7 = p[2]
                      /\ when(p) - 7 * p[1] - p[2] = FirstOf(page.month) - 7 - (FirstOf(page.month) % 7)
                      /\ page.weeks[p[1]][p[2]].count = Cardinality({b \in bundles : b[1] = when(p)})
                      /\ page.weeks[p[1]][p[2]].today = (when(p) = today)
                      /\ page.weeks[p[1]][p[2]].selected = (when(p) = page.selected)
    BY Zenon
  <2>1. when(p) = date(p)
    BY <1>8
  <2> HIDE DEF cells, F, when, date
  <2> QED  BY <1>2, <1>7, <1>8, <2>1, Zenon
<1>10. Cardinality(cells) = LengthOf(page.month)
  BY <1>6, <1>8, Zenon
<1> QED  BY <1>6, <1>9, <1>10, Zenon DEF GridExact

-----------------------------------------------------------------------------
\* The bundles of the year

BundleTypes == Dates \X {0, 1}

\* The place of a bundle among all.
Place(b) == 2 * b[1] + b[2]

LEMMA PlaceIs ==
  ASSUME NEW a \in BundleTypes, NEW b \in BundleTypes
  PROVE  /\ a[1] \in Nat /\ Place(a) \in Nat /\ Place(b) \in Nat
         /\ Earlier(a, b) <=> Place(a) < Place(b)
         /\ Place(a) = Place(b) => a = b
<1>1. PICK x \in Dates, i \in {0, 1} : a = <<x, i>>
  BY DEF BundleTypes
<1>2. PICK y \in Dates, j \in {0, 1} : b = <<y, j>>
  BY DEF BundleTypes
<1>3. x \in Nat /\ y \in Nat
  BY DatesAssumption
<1> QED  BY <1>1, <1>2, <1>3 DEF Place, Earlier

Sorts(s, S) == Range(s) = S /\ \A i, j \in DOMAIN s : i < j => Earlier(s[i], s[j])

\* A finite set of bundles can be put in order.
LEMMA SortedIs ==
  ASSUME NEW S \in SUBSET BundleTypes, IsFiniteSet(S)
  PROVE  \E s \in [1 .. Cardinality(S) -> S] : Sorts(s, S)
<1> DEFINE Sortable(T) == \E s \in [1 .. Cardinality(T) -> T] : Sorts(s, T)
           True == {n \in Nat : \A T \in SUBSET S : Cardinality(T) = n => Sortable(T)}
<1>1. ASSUME NEW T \in SUBSET S, Cardinality(T) = 0  PROVE Sortable(T)
  <2>1. T = {}
    BY <1>1, FS_Subset, FS_EmptySet
  <2> DEFINE s == [i \in 1 .. 0 |-> 0]
  <2>2. s \in [1 .. Cardinality(T) -> T] /\ Sorts(s, T)
    BY <1>1, <2>1 DEF Sorts, Range
  <2> QED  BY <2>2
<1>2. ASSUME NEW n \in Nat, n \in True, NEW T \in SUBSET S, Cardinality(T) = n + 1
      PROVE  Sortable(T)
  <2>1. IsFiniteSet(T) /\ T # {}
    BY <1>2, FS_Subset, FS_EmptySet
  <2>2. PICK b \in T : \A a \in T : Place(b) <= Place(a)
    <3> DEFINE places == {Place(a) : a \in T}
    <3>1. places \in SUBSET Nat /\ places # {}
      BY <2>1, PlaceIs
    <3>2. \E x \in places : \A y \in places : x <= y
      <4> HIDE DEF places
      <4> QED  BY <3>1, LeastOf
    <3> QED  BY <3>2
  <2> DEFINE R == T \ {b}
  <2>3. Cardinality(R) = n /\ R \in SUBSET S
    <3>1. Cardinality(R) = Cardinality(T) - 1
      BY <2>1, FS_RemoveElement, Zenon
    <3> QED  BY <1>2, <3>1
  <2>4. PICK r \in [1 .. n -> R] : Sorts(r, R)
    <3> HIDE DEF R
    <3> QED  BY <1>2, <2>3
  <2> DEFINE s == [i \in 1 .. n + 1 |-> IF i = 1 THEN b ELSE r[i - 1]]
  <2>5. \A i \in 2 .. n + 1 : i - 1 \in 1 .. n
    OBVIOUS
  <2>6. \A i \in 1 .. n + 1 : i = 1 \/ i \in 2 .. n + 1
    OBVIOUS
  <2>7. \A i \in 1 .. n : r[i] \in R
    OBVIOUS
  <2>8. s[1] = b /\ \A i \in 2 .. n + 1 : s[i] = r[i - 1] /\ s[i] \in R
    BY <2>5, <2>7
  <2>9. s \in [1 .. n + 1 -> T]
    BY <2>5, <2>6, <2>7
  <2> HIDE DEF s
  <2>10. Range(s) = T
    <3>1. DOMAIN s = 1 .. n + 1 /\ DOMAIN r = 1 .. n /\ 1 \in 1 .. n + 1
      BY <2>9
    <3>2. ASSUME NEW a \in R  PROVE \E i \in 1 .. n + 1 : s[i] = a
      <4>1. PICK i \in 1 .. n : r[i] = a
        BY <2>4, <3>1 DEF Sorts, Range
      <4>2. i + 1 \in 2 .. n + 1 /\ (i + 1) - 1 = i /\ i + 1 \in 1 .. n + 1
        OBVIOUS
      <4> QED  BY <2>8, <4>1, <4>2
    <3>3. \A a \in T : \E i \in 1 .. n + 1 : s[i] = a
      BY <2>8, <3>1, <3>2
    <3>4. \A i \in 1 .. n + 1 : s[i] \in T
      BY <2>9
    <3> QED  BY <3>1, <3>3, <3>4 DEF Range
  <2>11. ASSUME NEW i \in 1 .. n + 1, NEW j \in 1 .. n + 1, i < j  PROVE Earlier(s[i], s[j])
    <3>1. j \in 2 .. n + 1 /\ j - 1 \in 1 .. n
          /\ (i = 1 \/ (i \in 2 .. n + 1 /\ i - 1 \in 1 .. n /\ i - 1 < j - 1))
      BY <2>11
    <3>2. CASE i = 1
      <4>1. s[j] \in T /\ s[j] # b /\ b \in BundleTypes /\ s[j] \in BundleTypes
        BY <2>8, <3>1
      <4> QED  BY <2>2, <2>8, <3>2, <4>1, PlaceIs
    <3>3. CASE i # 1
      BY <2>4, <2>8, <3>1, <3>3 DEF Sorts
    <3> QED  BY <3>2, <3>3
  <2>12. s \in [1 .. Cardinality(T) -> T] /\ Sorts(s, T)
    <3>1. DOMAIN s = 1 .. n + 1
      BY <2>9
    <3> QED  BY <1>2, <2>9, <2>10, <2>11, <3>1 DEF Sorts
  <2> QED  BY <2>12
<1>3. \A n \in Nat : n \in True
  <2>1. 0 \in True
    BY <1>1
  <2>2. \A n \in Nat : n \in True => n + 1 \in True
    <3> HIDE DEF Sortable
    <3> QED  BY <1>2
  <2> HIDE DEF True
  <2> QED  BY <2>1, <2>2, NatInduct
<1>4. Cardinality(S) \in True
  BY <1>3, FS_CardinalityType
<1> QED  BY <1>4

Year(m) == {b \in bundles : MonthOf(b[1]) \div 12 = m \div 12}

LEMMA YearBundlesAre ==
  ASSUME CalTypes, NEW m
  PROVE  /\ Year(m) \subseteq BundleTypes /\ Cardinality(Year(m)) \in Nat
         /\ YearBundles(m) \in [1 .. Cardinality(Year(m)) -> Year(m)]
         /\ Sorts(YearBundles(m), Year(m))
<1>1. Year(m) \in SUBSET BundleTypes
  BY DEF CalTypes, Year, BundleTypes
<1>2. IsFiniteSet(BundleTypes)
  <2>1. IsFiniteSet(0 .. 1)
    <3>1. 0 \in Int /\ 1 \in Int
      OBVIOUS
    <3> QED  BY <3>1, FS_Interval, Zenon
  <2>2. {0, 1} = 0 .. 1
    OBVIOUS
  <2> QED  BY <2>1, <2>2, DatesAssumption, FS_Product DEF BundleTypes
<1>3. IsFiniteSet(Year(m)) /\ Cardinality(Year(m)) \in Nat
  BY <1>1, <1>2, FS_Subset, FS_CardinalityType
<1>4. \E s \in [1 .. Cardinality(Year(m)) -> Year(m)] : Sorts(s, Year(m))
  BY <1>1, <1>3, SortedIs
<1>5. YearBundles(m) = CHOOSE s \in [1 .. Cardinality(Year(m)) -> Year(m)] : Sorts(s, Year(m))
  BY Zenon DEF YearBundles, Sorts, Year
<1> QED  BY <1>1, <1>3, <1>4, <1>5, Zenon

-----------------------------------------------------------------------------
\* Flattening

\* f[k] is the first k of the sequences bs, one after the other.
Joins(f, bs, S) ==
  /\ f \in [0 .. Len(bs) -> Seq(S)] /\ f[0] = << >>
  /\ \A k \in 1 .. Len(bs) : f[k] = f[k - 1] \o bs[k]

LEMMA FlattenIs ==
  ASSUME NEW S, NEW bs \in Seq(Seq(S))
  PROVE  \E f : Joins(f, bs, S) /\ FlattenSeq(bs) = f[Len(bs)]
<1> DEFINE n == Len(bs)
           X == Seq(S)
           base == << >>
           step == [i \in 1 .. n |-> [s \in X |-> s \o bs[i]]]
<1>1. n \in Nat /\ \A i \in 1 .. n : bs[i] \in X
  OBVIOUS
<1>2. step \in [1 .. n -> [X -> X]] /\ base \in X
  <2>1. \A i \in 1 .. n, s \in X : s \o bs[i] \in X
    BY <1>1
  <2> HIDE DEF n, X
  <2>2. step \in [1 .. n -> [X -> X]]
    BY <2>1
  <2>3. base \in X
    BY DEF X
  <2> QED  BY <2>2, <2>3
<1>3. PICK f \in [0 .. n -> X] : IsLoop(f, n, base, step)
  <2> HIDE DEF n, X, base, step
  <2> QED  BY <1>1, <1>2, Recursion
<1>4. f[0] = << >> /\ \A k \in 1 .. n : f[k] = f[k - 1] \o bs[k]
  <2>1. f[0] = << >>
    BY <1>3 DEF IsLoop
  <2>2. ASSUME NEW k \in 1 .. n  PROVE f[k] = f[k - 1] \o bs[k]
    <3>1. f[k] = step[k][f[k - 1]]
      BY <1>3 DEF IsLoop
    <3>2. k - 1 \in 0 .. n /\ f[k - 1] \in X
      <4> HIDE DEF n, X
      <4> QED  BY <1>1, <1>3
    <3> HIDE DEF n, X
    <3> QED  BY <3>1, <3>2
  <2> QED  BY <2>1, <2>2
<1>5. Joins(f, bs, S)
  BY <1>3, <1>4 DEF Joins
<1>6. CASE n = 0
  <2>1. bs = << >> /\ FlattenSeq(bs) = bs
    BY <1>6 DEF FlattenSeq
  <2> QED  BY <1>4, <1>5, <1>6, <2>1
<1>7. CASE n # 0
  <2> DEFINE Turns(h) == [i \in 1 .. n |-> IF i = 1 THEN bs[i] ELSE h[i - 1] \o bs[i]]
             flatten == CHOOSE h : h = Turns(h)
             all == [i \in 1 .. n |-> f[i]]
  <2>1. FlattenSeq(bs) = flatten[n]
    BY <1>7, Zenon DEF FlattenSeq
  <2>2. ASSUME NEW i \in 1 .. n
        PROVE  f[i] = IF i = 1 THEN bs[i] ELSE all[i - 1] \o bs[i]
    <3>1. f[i] = f[i - 1] \o bs[i] /\ bs[i] \in Seq(S)
      BY <1>1, <1>4
    <3>2. CASE i = 1
      <4>1. i - 1 = 0 /\ f[i] = << >> \o bs[i]
        <5> HIDE DEF n
        <5>1. i - 1 = 0
          BY <3>2
        <5> QED  BY <1>4, <3>1, <5>1
      <4>2. << >> \o bs[i] = bs[i]
        BY <3>1, ConcatEmptySeq
      <4> QED  BY <3>2, <4>1, <4>2
    <3>3. CASE i # 1
      <4>1. i - 1 \in 1 .. n
        BY <1>1, <3>3
      <4>2. all[i - 1] = f[i - 1]
        BY <4>1
      <4> QED  BY <3>1, <3>3, <4>2
    <3> QED  BY <3>2, <3>3
  <2>3. all = Turns(all)
    <3> HIDE DEF n
    <3>1. \A i \in 1 .. n : f[i] = (IF i = 1 THEN bs[i] ELSE all[i - 1] \o bs[i])
      BY <2>2
    <3> QED  BY <3>1, Zenon
  <2>4. flatten = Turns(flatten)
    BY <2>3, Zenon
  <2> HIDE DEF flatten
  <2>5. \A i \in 0 .. n : i = 0 \/ flatten[i] = f[i]
    <3> DEFINE True == {i \in 0 .. n : i = 0 \/ flatten[i] = f[i]}
    <3>1. 0 \in True
      BY <1>1
    <3>2. ASSUME NEW i \in 1 .. n, i - 1 \in True  PROVE i \in True
      <4>1. flatten[i] = IF i = 1 THEN bs[i] ELSE flatten[i - 1] \o bs[i]
        <5> HIDE DEF n
        <5> QED  BY <2>4
      <4>2. f[i] = IF i = 1 THEN bs[i] ELSE all[i - 1] \o bs[i]
        BY <2>2
      <4>3. i # 1 => i - 1 \in 1 .. n /\ i - 1 # 0
        BY <1>1
      <4>4. i # 1 => all[i - 1] = f[i - 1] /\ flatten[i - 1] = f[i - 1]
        <5> HIDE DEF n
        <5> QED  BY <3>2, <4>3
      <4>5. flatten[i] = f[i]
        <5> HIDE DEF all
        <5> QED  BY <4>1, <4>2, <4>4
      <4>6. i \in 0 .. n
        BY <1>1
      <4> QED  BY <4>5, <4>6
    <3>3. \A i \in 0 .. n : i \in True
      <4> HIDE DEF True, n
      <4> QED  BY <1>1, <3>1, <3>2, UptoInduct
    <3> QED  BY <3>3
  <2>6. flatten[n] = f[n]
    <3>1. n \in 0 .. n
      BY <1>1
    <3> HIDE DEF n
    <3> QED  BY <1>7, <2>5, <3>1
  <2> QED  BY <1>5, <2>1, <2>6
<1> QED  BY <1>6, <1>7

\* Joining two sequences, opaque to the provers.
Join(a, b) == a \o b

LEMMA JoinAssociative ==
  ASSUME NEW S, NEW a \in Seq(S), NEW b \in Seq(S), NEW c \in Seq(S)
  PROVE  Join(Join(a, b), c) = Join(a, Join(b, c))
<1> DEFINE l == (a \o b) \o c
           r == a \o (b \o c)
<1>1. Len(a) \in Nat /\ Len(b) \in Nat /\ Len(c) \in Nat
  OBVIOUS
<1>2. l \in Seq(S) /\ r \in Seq(S) /\ Len(l) = Len(a) + Len(b) + Len(c) /\ Len(r) = Len(l)
  OBVIOUS
<1>3. ASSUME NEW i \in 1 .. Len(l)  PROVE l[i] = r[i]
  <2>1. CASE i <= Len(a)
    BY <1>1, <1>2, <2>1
  <2>2. CASE i > Len(a) /\ i <= Len(a) + Len(b)
    BY <1>1, <1>2, <2>2
  <2>3. CASE i > Len(a) + Len(b)
    BY <1>1, <1>2, <2>3
  <2> QED  BY <1>1, <1>2, <2>1, <2>2, <2>3
<1> HIDE DEF l, r
<1>4. l = r
  BY <1>2, <1>3, SeqEqual
<1> QED  BY <1>4 DEF Join, l, r

\* A longer first sequence.
LEMMA FlattenInto ==
  ASSUME NEW S, NEW b \in S, NEW bs \in Seq(Seq(S)), NEW cs \in Seq(Seq(S)),
         Len(bs) # 0, Len(cs) = Len(bs), cs[1] = <<b>> \o bs[1],
         \A k \in 2 .. Len(bs) : cs[k] = bs[k]
  PROVE  FlattenSeq(cs) = <<b>> \o FlattenSeq(bs)
<1> DEFINE n == Len(bs)
<1>1. n \in Nat /\ n # 0
  OBVIOUS
<1>2. PICK f : Joins(f, bs, S) /\ FlattenSeq(bs) = f[n]
  BY FlattenIs
<1>3. PICK h : Joins(h, cs, S) /\ FlattenSeq(cs) = h[n]
  BY FlattenIs
<1> DEFINE True == {k \in 0 .. n : k = 0 \/ h[k] = <<b>> \o f[k]}
<1>4. 0 \in True
  BY <1>1
<1>5. ASSUME NEW k \in 1 .. n, k - 1 \in True  PROVE k \in True
  <2>1. k - 1 \in 0 .. n /\ k \in 0 .. n
    BY <1>1
  <2>2. f[k - 1] \in Seq(S) /\ bs[k] \in Seq(S) /\ f[k] = f[k - 1] \o bs[k] /\ f[0] = << >>
    <3>1. bs[k] \in Seq(S)
      OBVIOUS
    <3> HIDE DEF True
    <3> QED  BY <1>2, <2>1, <3>1 DEF Joins
  <2>3. h[k] = h[k - 1] \o cs[k] /\ h[0] = << >>
    BY <1>3 DEF Joins
  <2>4. <<b>> \in Seq(S)
    OBVIOUS
  <2>5. CASE k = 1
    <3>1. k - 1 = 0
      BY <2>5
    <3>2. f[k] = bs[1] /\ h[k] = cs[1]
      <4>1. << >> \o bs[k] = bs[k] /\ << >> \o cs[k] = cs[k]
        <5>1. cs[k] \in Seq(S)
          OBVIOUS
        <5> QED  BY <2>2, <5>1, ConcatEmptySeq
      <4> HIDE DEF n
      <4> QED  BY <2>2, <2>3, <2>5, <3>1, <4>1
    <3> QED  BY <2>1, <3>2
  <2>6. CASE k # 1
    <3>1. h[k - 1] = <<b>> \o f[k - 1] /\ cs[k] = bs[k]
      <4>1. k \in 2 .. n /\ k - 1 # 0
        BY <1>1, <2>6
      <4> QED  BY <1>5, <4>1
    <3>2. h[k] = <<b>> \o f[k]
      <4>1. h[k] = (<<b>> \o f[k - 1]) \o bs[k]
        BY <2>3, <3>1
      <4>2. (<<b>> \o f[k - 1]) \o bs[k] = <<b>> \o (f[k - 1] \o bs[k])
        <5> DEFINE one == <<b>>
                   old == f[k - 1]
                   more == bs[k]
        <5>1. one \in Seq(S) /\ old \in Seq(S) /\ more \in Seq(S)
          BY <2>2, <2>4
        <5> HIDE DEF one, old, more
        <5>2. Join(Join(one, old), more) = Join(one, Join(old, more))
          BY <5>1, JoinAssociative
        <5> QED  BY <5>2 DEF Join, one, old, more
      <4> QED  BY <2>2, <4>1, <4>2, Zenon
    <3> QED  BY <2>1, <3>2
  <2> QED  BY <2>5, <2>6
<1>6. \A k \in 0 .. n : k \in True
  <2> HIDE DEF True, n
  <2> QED  BY <1>1, <1>4, <1>5, UptoInduct
<1>7. n \in True
  BY <1>1, <1>6
<1> QED  BY <1>1, <1>2, <1>3, <1>7

\* One more sequence before the others.
LEMMA FlattenBefore ==
  ASSUME NEW S, NEW b \in S, NEW bs \in Seq(Seq(S)), NEW cs \in Seq(Seq(S)),
         Len(cs) = Len(bs) + 1, cs[1] = <<b>>,
         \A k \in 1 .. Len(bs) : cs[k + 1] = bs[k]
  PROVE  FlattenSeq(cs) = <<b>> \o FlattenSeq(bs)
<1> DEFINE n == Len(bs)
<1>1. n \in Nat
  OBVIOUS
<1>2. PICK f : Joins(f, bs, S) /\ FlattenSeq(bs) = f[n]
  BY FlattenIs
<1>3. PICK h : Joins(h, cs, S) /\ FlattenSeq(cs) = h[n + 1]
  BY FlattenIs
<1> DEFINE True == {k \in 0 .. n : h[k + 1] = <<b>> \o f[k]}
<1>4. 0 \in True
  <2>1. 1 \in 1 .. n + 1 /\ 1 - 1 = 0 /\ 0 + 1 = 1 /\ 0 \in 0 .. n
    BY <1>1
  <2>2. h[1] = h[1 - 1] \o cs[1] /\ h[0] = << >> /\ f[0] = << >>
    BY <1>2, <1>3, <2>1 DEF Joins
  <2>3. <<b>> \in Seq(S)
    OBVIOUS
  <2>4. << >> \o <<b>> = <<b>> \o << >>
    BY <2>3, ConcatEmptySeq
  <2> HIDE DEF n
  <2>5. h[1] = <<b>> \o f[0]
    BY <2>1, <2>2, <2>4
  <2> QED  BY <2>1, <2>5
<1>5. ASSUME NEW k \in 1 .. n, k - 1 \in True  PROVE k \in True
  <2>1. k - 1 \in 0 .. n /\ k \in 0 .. n /\ k + 1 \in 1 .. n + 1
        /\ (k + 1) - 1 = k /\ (k - 1) + 1 = k
    BY <1>1
  <2>2. f[k - 1] \in Seq(S) /\ bs[k] \in Seq(S) /\ f[k] = f[k - 1] \o bs[k]
    <3>1. bs[k] \in Seq(S)
      OBVIOUS
    <3> HIDE DEF True
    <3> QED  BY <1>2, <2>1, <3>1 DEF Joins
  <2>3. h[k + 1] = h[k] \o cs[k + 1]
    BY <1>3, <2>1 DEF Joins
  <2>4. <<b>> \in Seq(S)
    OBVIOUS
  <2>5. h[k] = <<b>> \o f[k - 1] /\ cs[k + 1] = bs[k]
    BY <1>5, <2>1
  <2>6. h[k + 1] = (<<b>> \o f[k - 1]) \o bs[k]
    BY <2>3, <2>5
  <2>7. h[k + 1] = <<b>> \o f[k]
    <3>1. (<<b>> \o f[k - 1]) \o bs[k] = <<b>> \o (f[k - 1] \o bs[k])
      <4> DEFINE one == <<b>>
                 old == f[k - 1]
                 more == bs[k]
      <4>1. one \in Seq(S) /\ old \in Seq(S) /\ more \in Seq(S)
        BY <2>2, <2>4
      <4> HIDE DEF one, old, more
      <4>2. Join(Join(one, old), more) = Join(one, Join(old, more))
        BY <4>1, JoinAssociative
      <4> QED  BY <4>2 DEF Join, one, old, more
    <3> QED  BY <2>2, <2>6, <3>1, Zenon
  <2> QED  BY <2>1, <2>7
<1>6. \A k \in 0 .. n : k \in True
  <2> HIDE DEF True, n
  <2> QED  BY <1>1, <1>4, <1>5, UptoInduct
<1>7. n \in True
  BY <1>1, <1>6
<1> QED  BY <1>1, <1>2, <1>3, <1>7

-----------------------------------------------------------------------------
\* The groups

Group(Y) == [date : Nat, bundles : Seq(Y), today : BOOLEAN, selected : BOOLEAN]

\* The group of a date, and a turn of the loop.
At(groups, d) == SelectInSeq(groups, LAMBDA g : g.date = d)

Gather(selected, groups, b) ==
  IF At(groups, b[1]) # 0 THEN [groups EXCEPT ![At(groups, b[1])].bundles = <<b>> \o @]
  ELSE Append(groups, [date |-> b[1], bundles |-> <<b>>,
                       today |-> b[1] = today, selected |-> b[1] = selected])

LEMMA AtIs ==
  ASSUME NEW groups, Len(groups) \in Nat, NEW d
  PROVE  /\ At(groups, d) \in 0 .. Len(groups)
         /\ At(groups, d) # 0 => groups[At(groups, d)].date = d
         /\ At(groups, d) = 0 => \A k \in 1 .. Len(groups) : groups[k].date # d
<1> DEFINE I == {k \in 1 .. Len(groups) : groups[k].date = d}
<1>1. At(groups, d) = IF I # {} THEN Min(I) ELSE 0
  BY DEF At, SelectInSeq
<1>2. I # {} => Min(I) \in I
  <2>1. I \in SUBSET Nat
    OBVIOUS
  <2> HIDE DEF I
  <2> QED  BY <2>1, LeastOf DEF Min
<1>3. \A k \in I : k # 0
  OBVIOUS
<1> QED  BY <1>1, <1>2, <1>3

\* The two ways of a turn.
LEMMA GatherIs ==
  ASSUME NEW Y \in SUBSET BundleTypes, NEW g \in Seq(Group(Y)), NEW b \in Y, NEW selected
  PROVE  LET at == At(g, b[1])
             h  == Gather(selected, g, b)
         IN  /\ h \in Seq(Group(Y))
             /\ at # 0 =>
                  /\ Len(h) = Len(g)
                  /\ \A k \in 1 .. Len(g) :
                       /\ h[k].date = g[k].date /\ h[k].selected = g[k].selected
                       /\ h[k].bundles = IF k = at THEN <<b>> \o g[k].bundles ELSE g[k].bundles
             /\ at = 0 =>
                  /\ Len(h) = Len(g) + 1 /\ \A k \in 1 .. Len(g) : h[k] = g[k]
                  /\ h[Len(g) + 1].date = b[1] /\ h[Len(g) + 1].bundles = <<b>>
                  /\ h[Len(g) + 1].selected = (b[1] = selected)
<1> DEFINE at == At(g, b[1])
           h  == Gather(selected, g, b)
           new == [date |-> b[1], bundles |-> <<b>>,
                   today |-> b[1] = today, selected |-> b[1] = selected]
<1>1. Len(g) \in Nat /\ at \in 0 .. Len(g) /\ b[1] \in Nat /\ \A k \in 1 .. Len(g) : g[k] \in Group(Y)
  BY AtIs, PlaceIs
<1>2. CASE at # 0
  <2>1. h = [g EXCEPT ![at].bundles = <<b>> \o @]
    BY <1>2 DEF Gather
  <2>2. at \in 1 .. Len(g) /\ g[at] \in Group(Y)
    BY <1>1, <1>2
  <2> DEFINE more == [g[at] EXCEPT !.bundles = <<b>> \o @]
  <2>3. h = [g EXCEPT ![at] = more]
    BY <2>1
  <2>4. /\ more \in Group(Y) /\ more.date = g[at].date /\ more.selected = g[at].selected
        /\ more.bundles = <<b>> \o g[at].bundles
    <3>1. <<b>> \o g[at].bundles \in Seq(Y)
      BY <2>2 DEF Group
    <3> QED  BY <2>2, <3>1 DEF Group
  <2>5. /\ h \in Seq(Group(Y)) /\ Len(h) = Len(g)
        /\ \A k \in 1 .. Len(g) :
             /\ h[k].date = g[k].date /\ h[k].selected = g[k].selected
             /\ h[k].bundles = IF k = at THEN <<b>> \o g[k].bundles ELSE g[k].bundles
    <3> HIDE DEF more, at, h
    <3>1. h \in Seq(Group(Y)) /\ Len(h) = Len(g)
      BY <2>2, <2>3, <2>4
    <3>2. \A k \in 1 .. Len(g) : h[k] = IF k = at THEN more ELSE g[k]
      BY <2>2, <2>3
    <3> QED  BY <2>4, <3>1, <3>2
  <2> QED  BY <1>2, <2>5, Zenon
<1>3. CASE at = 0
  <2>1. h = Append(g, new)
    BY <1>3 DEF Gather
  <2>2. new \in Group(Y)
    BY <1>1 DEF Group
  <2>3. new.date = b[1] /\ new.bundles = <<b>> /\ new.selected = (b[1] = selected)
    OBVIOUS
  <2>4. /\ h \in Seq(Group(Y)) /\ Len(h) = Len(g) + 1 /\ \A k \in 1 .. Len(g) : h[k] = g[k]
        /\ h[Len(g) + 1].date = b[1] /\ h[Len(g) + 1].bundles = <<b>>
        /\ h[Len(g) + 1].selected = (b[1] = selected)
    <3>1. h[Len(g) + 1] = new
      <4> HIDE DEF new, h
      <4> QED  BY <1>1, <2>1
    <3>2. h \in Seq(Group(Y)) /\ Len(h) = Len(g) + 1 /\ \A k \in 1 .. Len(g) : h[k] = g[k]
      <4> HIDE DEF new, h
      <4> QED  BY <1>1, <2>1, <2>2
    <3> QED  BY <2>3, <3>1, <3>2, Zenon
  <2> QED  BY <1>3, <2>4, Zenon
<1> QED  BY <1>2, <1>3

\* The bundles of the groups, the last group first.
Lists(g) == [i \in DOMAIN Reverse(g) |-> Reverse(g)[i].bundles]

LEMMA ListsAre ==
  ASSUME NEW Y, NEW g \in Seq(Group(Y))
  PROVE  /\ Lists(g) \in Seq(Seq(Y)) /\ Len(Lists(g)) = Len(g) /\ Len(g) \in Nat
         /\ \A k \in 1 .. Len(g) : Lists(g)[k] = g[Len(g) - k + 1].bundles
<1>1. Len(g) \in Nat /\ \A k \in 1 .. Len(g) : Len(g) - k + 1 \in 1 .. Len(g)
  OBVIOUS
<1>2. Lists(g) = [k \in 1 .. Len(g) |-> g[Len(g) - k + 1].bundles]
  BY DEF Lists, Reverse
<1>3. \A k \in 1 .. Len(g) : g[Len(g) - k + 1].bundles \in Seq(Y)
  <2>1. \A j \in 1 .. Len(g) : g[j] \in Group(Y)
    OBVIOUS
  <2>2. \A j \in 1 .. Len(g) : g[j].bundles \in Seq(Y)
    BY <2>1 DEF Group
  <2> QED  BY <1>1, <2>2
<1> QED  BY <1>1, <1>2, <1>3

\* The first i bundles, the last of them first.
Newest(s, i) == [k \in 1 .. i |-> s[i - k + 1]]

LEMMA NewestIs ==
  ASSUME NEW Y, NEW n \in Nat, NEW s \in [1 .. n -> Y], NEW i \in 1 .. n
  PROVE  Newest(s, i) = <<s[i]>> \o Newest(s, i - 1)
<1>1. i \in Nat /\ i - 1 \in Nat /\ s[i] \in Y
  OBVIOUS
<1>2. \A k \in 1 .. i : i - k + 1 \in 1 .. n
  OBVIOUS
<1>3. \A k \in 1 .. i - 1 : (i - 1) - k + 1 \in 1 .. n
  OBVIOUS
<1>4. Newest(s, i) \in Seq(Y) /\ Len(Newest(s, i)) = i
  BY <1>1, <1>2 DEF Newest
<1>5. Newest(s, i - 1) \in Seq(Y) /\ Len(Newest(s, i - 1)) = i - 1
  BY <1>1, <1>3 DEF Newest
<1> DEFINE both == <<s[i]>> \o Newest(s, i - 1)
<1>6. /\ both \in Seq(Y) /\ Len(both) = i /\ both[1] = s[i]
      /\ \A k \in 2 .. i : both[k] = Newest(s, i - 1)[k - 1]
  BY <1>1, <1>5
<1>7. \A k \in 1 .. i : both[k] = Newest(s, i)[k]
  <2> SUFFICES ASSUME NEW k \in 1 .. i  PROVE both[k] = Newest(s, i)[k]
    OBVIOUS
  <2>1. Newest(s, i)[k] = s[i - k + 1]
    BY DEF Newest
  <2>2. CASE k = 1
    BY <1>6, <2>1, <2>2
  <2>3. CASE k # 1
    <3>1. k \in 2 .. i /\ k - 1 \in 1 .. i - 1 /\ (i - 1) - (k - 1) + 1 = i - k + 1
      BY <1>1, <2>3
    <3>2. Newest(s, i - 1)[k - 1] = s[(i - 1) - (k - 1) + 1]
      BY <3>1 DEF Newest
    <3> QED  BY <1>6, <2>1, <3>1, <3>2
  <2> QED  BY <2>2, <2>3
<1> HIDE DEF both
<1>8. both = Newest(s, i)
  BY <1>4, <1>6, <1>7, SeqEqual
<1> QED  BY <1>8 DEF both

\* What the loop has in groups after the first i of the bundles s.
Gathered(g, s, i, selected) ==
  /\ i = 0 => Len(g) = 0
  /\ i # 0 => Len(g) # 0 /\ g[Len(g)].date = s[i][1]
  /\ \A k \in 1 .. Len(g) - 1 : g[k].date < g[Len(g)].date
  /\ \A k \in 1 .. Len(g) :
       g[k].selected = (g[k].date = selected) /\ \E j \in 1 .. i : s[j][1] = g[k].date
  /\ \A j \in 1 .. i : \E k \in 1 .. Len(g) : g[k].date = s[j][1]
  /\ FlattenSeq(Lists(g)) = Newest(s, i)

\* A bundle goes to the last of the groups or begins one after it.
LEMMA GatherNext ==
  ASSUME NEW Y \in SUBSET BundleTypes, NEW n \in Nat, NEW s \in [1 .. n -> Y], Sorts(s, Y),
         NEW i \in 1 .. n, NEW g \in Seq(Group(Y)), NEW selected, Gathered(g, s, i - 1, selected)
  PROVE  Gathered(Gather(selected, g, s[i]), s, i, selected)
<1> DEFINE b == s[i]
           h == Gather(selected, g, b)
           at == At(g, b[1])
           l == Len(g)
<1>1. /\ i \in Nat /\ i # 0 /\ i - 1 \in Nat /\ b \in Y /\ b \in BundleTypes /\ b[1] \in Nat
      /\ l \in Nat /\ at \in 0 .. l
      /\ \A k \in 1 .. l : g[k] \in Group(Y) /\ g[k].date \in Nat
  <2>1. i \in Nat /\ i # 0 /\ i - 1 \in Nat /\ b \in Y
    OBVIOUS
  <2>2. b \in BundleTypes
    BY <2>1
  <2>3. b[1] \in Nat
    BY <2>2, PlaceIs
  <2>4. l \in Nat /\ \A k \in 1 .. l : g[k] \in Group(Y)
    OBVIOUS
  <2>5. at \in 0 .. l
    BY <2>4, AtIs
  <2>6. \A k \in 1 .. l : g[k].date \in Nat
    BY <2>4 DEF Group
  <2> HIDE DEF b, l, at
  <2> QED  BY <2>1, <2>2, <2>3, <2>4, <2>5, <2>6
<1>2. /\ h \in Seq(Group(Y))
      /\ at # 0 =>
           /\ Len(h) = l
           /\ \A k \in 1 .. l :
                /\ h[k].date = g[k].date /\ h[k].selected = g[k].selected
                /\ h[k].bundles = IF k = at THEN <<b>> \o g[k].bundles ELSE g[k].bundles
      /\ at = 0 =>
           /\ Len(h) = l + 1 /\ \A k \in 1 .. l : h[k] = g[k]
           /\ h[l + 1].date = b[1] /\ h[l + 1].bundles = <<b>>
           /\ h[l + 1].selected = (b[1] = selected)
  <2>1. b \in Y /\ g \in Seq(Group(Y)) /\ Y \in SUBSET BundleTypes
    BY <1>1
  <2> HIDE DEF b
  <2> QED  BY <2>1, GatherIs
<1>3. at # 0 => g[at].date = b[1]
  BY <1>1, AtIs
<1>4. at = 0 => \A k \in 1 .. l : g[k].date # b[1]
  BY <1>1, AtIs
<1>5. i # 1 => l # 0 /\ g[l].date = s[i - 1][1] /\ s[i - 1][1] <= b[1] /\ s[i - 1][1] \in Nat
  <2>1. i # 1 => i - 1 # 0 /\ i - 1 \in 1 .. n /\ i - 1 < i
    BY <1>1
  <2>2. DOMAIN s = 1 .. n
    OBVIOUS
  <2>3. i # 1 => Earlier(s[i - 1], b) /\ s[i - 1] \in BundleTypes
    BY <2>1, <2>2 DEF Sorts
  <2>4. i # 1 => s[i - 1][1] <= b[1] /\ s[i - 1][1] \in Nat
    <3> HIDE DEF b
    <3>1. i # 1 => s[i - 1][1] \in Nat
      BY <1>1, <2>3, PlaceIs
    <3> QED  BY <1>1, <2>3, <3>1 DEF Earlier
  <2>5. i - 1 # 0 => l # 0 /\ g[l].date = s[i - 1][1]
    BY DEF Gathered
  <2> HIDE DEF b, l
  <2> QED  BY <1>1, <2>1, <2>4, <2>5
<1>6. i = 1 => l = 0
  BY DEF Gathered
<1>7. \A k \in 1 .. l - 1 : g[k].date < g[l].date
  BY DEF Gathered
<1>8. \A k \in 1 .. l : g[k].selected = (g[k].date = selected) /\ \E j \in 1 .. i - 1 : s[j][1] = g[k].date
  BY DEF Gathered
<1>9. \A j \in 1 .. i - 1 : \E k \in 1 .. l : g[k].date = s[j][1]
  BY DEF Gathered
<1>10. FlattenSeq(Lists(g)) = Newest(s, i - 1)
  BY DEF Gathered
<1>11. Newest(s, i) = <<b>> \o Newest(s, i - 1)
  BY NewestIs
<1>12. /\ Lists(g) \in Seq(Seq(Y)) /\ Len(Lists(g)) = l
       /\ \A k \in 1 .. l : Lists(g)[k] = g[l - k + 1].bundles
  BY ListsAre
<1>13. /\ Lists(h) \in Seq(Seq(Y)) /\ Len(Lists(h)) = Len(h)
       /\ \A k \in 1 .. Len(h) : Lists(h)[k] = h[Len(h) - k + 1].bundles
  <2> HIDE DEF h
  <2> QED  BY <1>2, ListsAre
<1>14. \A j \in 1 .. i : j = i \/ j \in 1 .. i - 1
  BY <1>1
<1>15. i \in 1 .. i /\ \A j \in 1 .. i - 1 : j \in 1 .. i
  BY <1>1
<1>16. s[i] = b
  OBVIOUS
<1> HIDE DEF b, h, at, l
<1>17. CASE at # 0
  <2>1. i # 1 /\ l # 0
    BY <1>1, <1>5, <1>6, <1>17
  <2>2. at = l
    <3>1. at \in 1 .. l - 1 => g[at].date < g[l].date
      BY <1>7
    <3>2. l \in 1 .. l
      BY <1>1, <2>1
    <3> QED  BY <1>1, <1>3, <1>5, <1>17, <2>1, <3>1, <3>2
  <2>3. Len(h) = l /\ \A k \in 1 .. l : h[k].date = g[k].date /\ h[k].selected = g[k].selected
    BY <1>2, <1>17
  <2>4. l \in 1 .. l /\ \A k \in 1 .. l - 1 : k \in 1 .. l
    BY <1>1, <2>1
  <2>5. h[l].date = b[1]
    BY <1>3, <1>17, <2>2, <2>3, <2>4
  <2>6. \A k \in 1 .. l - 1 : h[k].date < h[l].date
    BY <1>7, <2>3, <2>4
  <2>7. \A k \in 1 .. l : h[k].selected = (h[k].date = selected) /\ \E j \in 1 .. i : s[j][1] = h[k].date
    BY <1>8, <1>15, <2>3
  <2>8. \A j \in 1 .. i : \E k \in 1 .. l : h[k].date = s[j][1]
    BY <1>9, <1>14, <1>16, <2>3, <2>4, <2>5
  <2>9. FlattenSeq(Lists(h)) = <<b>> \o FlattenSeq(Lists(g))
    <3>1. Len(Lists(h)) = Len(Lists(g)) /\ Len(Lists(g)) # 0
      BY <1>12, <1>13, <2>1, <2>3
    <3>2. Lists(h)[1] = <<b>> \o Lists(g)[1]
      <4>1. 1 \in 1 .. l /\ l - 1 + 1 = l
        BY <1>1, <2>1
      <4>2. Lists(h)[1] = h[l].bundles /\ Lists(g)[1] = g[l].bundles
        BY <1>12, <1>13, <2>3, <4>1
      <4>3. h[l].bundles = <<b>> \o g[l].bundles
        BY <1>2, <1>17, <2>2, <2>4
      <4> QED  BY <4>2, <4>3
    <3>3. \A k \in 2 .. Len(Lists(g)) : Lists(h)[k] = Lists(g)[k]
      <4> SUFFICES ASSUME NEW k \in 2 .. l  PROVE Lists(h)[k] = Lists(g)[k]
        BY <1>12
      <4>1. k \in 1 .. l /\ l - k + 1 \in 1 .. l /\ l - k + 1 # l
        BY <1>1
      <4>2. h[l - k + 1].bundles = g[l - k + 1].bundles
        BY <1>2, <1>17, <2>2, <4>1
      <4> QED  BY <1>12, <1>13, <2>3, <4>1, <4>2
    <3> QED  BY <1>1, <1>12, <1>13, <3>1, <3>2, <3>3, FlattenInto
  <2> QED  BY <1>1, <1>10, <1>11, <1>16, <2>1, <2>3, <2>5, <2>6, <2>7, <2>8, <2>9 DEF Gathered, h, b
<1>18. CASE at = 0
  <2>1. /\ Len(h) = l + 1 /\ \A k \in 1 .. l : h[k] = g[k]
        /\ h[l + 1].date = b[1] /\ h[l + 1].bundles = <<b>>
        /\ h[l + 1].selected = (b[1] = selected)
    BY <1>2, <1>18
  <2>2. \A k \in 1 .. l : g[k].date < b[1]
    <3> SUFFICES ASSUME NEW k \in 1 .. l  PROVE g[k].date < b[1]
      OBVIOUS
    <3>1. l # 0 /\ l \in 1 .. l /\ (k = l \/ k \in 1 .. l - 1)
      BY <1>1
    <3>2. g[k].date <= g[l].date /\ g[l].date <= b[1]
      BY <1>1, <1>5, <1>6, <1>7, <3>1
    <3>3. g[k].date # b[1] /\ g[k].date \in Nat /\ g[l].date \in Nat
      BY <1>1, <1>4, <1>18, <3>1
    <3> QED  BY <1>1, <3>2, <3>3
  <2>3. l + 1 # 0 /\ (l + 1) - 1 = l /\ l + 1 \in 1 .. l + 1
        /\ \A k \in 1 .. l + 1 : k = l + 1 \/ k \in 1 .. l
    BY <1>1
  <2>4. \A k \in 1 .. l : h[k].date < h[l + 1].date
    BY <2>1, <2>2
  <2>5. \A k \in 1 .. l + 1 : h[k].selected = (h[k].date = selected) /\ \E j \in 1 .. i : s[j][1] = h[k].date
    <3> SUFFICES ASSUME NEW k \in 1 .. l + 1
                 PROVE  h[k].selected = (h[k].date = selected) /\ \E j \in 1 .. i : s[j][1] = h[k].date
      OBVIOUS
    <3>1. CASE k = l + 1
      BY <1>15, <1>16, <2>1, <3>1
    <3>2. CASE k \in 1 .. l
      BY <1>8, <1>15, <2>1, <3>2
    <3> QED  BY <2>3, <3>1, <3>2
  <2>6. \A j \in 1 .. i : \E k \in 1 .. l + 1 : h[k].date = s[j][1]
    <3>1. \A k \in 1 .. l : k \in 1 .. l + 1
      BY <1>1
    <3> QED  BY <1>9, <1>14, <1>16, <2>1, <2>3, <3>1
  <2>7. FlattenSeq(Lists(h)) = <<b>> \o FlattenSeq(Lists(g))
    <3>1. Len(Lists(h)) = Len(Lists(g)) + 1
      BY <1>12, <1>13, <2>1
    <3>2. Lists(h)[1] = <<b>>
      <4>1. 1 \in 1 .. l + 1 /\ (l + 1) - 1 + 1 = l + 1
        BY <1>1
      <4> QED  BY <1>13, <2>1, <4>1
    <3>3. \A k \in 1 .. Len(Lists(g)) : Lists(h)[k + 1] = Lists(g)[k]
      <4> SUFFICES ASSUME NEW k \in 1 .. l  PROVE Lists(h)[k + 1] = Lists(g)[k]
        BY <1>12
      <4>1. k + 1 \in 1 .. l + 1 /\ (l + 1) - (k + 1) + 1 = l - k + 1 /\ l - k + 1 \in 1 .. l
        BY <1>1
      <4>2. Lists(h)[k + 1] = h[l - k + 1].bundles
        BY <1>13, <2>1, <4>1
      <4>3. Lists(g)[k] = g[l - k + 1].bundles
        BY <1>12
      <4> QED  BY <2>1, <4>1, <4>2, <4>3
    <3> QED  BY <1>1, <1>12, <1>13, <3>1, <3>2, <3>3, FlattenBefore
  <2> QED  BY <1>1, <1>10, <1>11, <1>16, <2>1, <2>3, <2>4, <2>5, <2>6, <2>7 DEF Gathered, h, b
<1> QED  BY <1>17, <1>18

\* What the loop comes to in the end.
LEMMA GroupsAre ==
  ASSUME CalTypes, NEW shown, NEW selected
  PROVE  LET m == MonthOf(shown)
             s == YearBundles(m)
             n == Cardinality(Year(m))
         IN  \E g \in Seq(Group(Year(m))) : Gathered(g, s, n, selected) /\ Groups(shown, selected) = Reverse(g)
<1> DEFINE m == MonthOf(shown)
           s == YearBundles(m)
           Y == Year(m)
           n == Cardinality(Y)
           X == Seq(Group(Y))
           base == << >>
           step == [i \in 1 .. n |-> [g \in X |-> Gather(selected, g, s[i])]]
           Turns(f) == [i \in 0 .. Len(s) |-> IF i = 0 THEN base ELSE Gather(selected, f[i - 1], s[i])]
           upTo == CHOOSE f : f = Turns(f)
<1>1. Groups(shown, selected) = Reverse(upTo[Len(s)])
  BY Zenon DEF Groups, Gather, At
<1>2. Y \in SUBSET BundleTypes /\ n \in Nat /\ s \in [1 .. n -> Y] /\ Sorts(s, Y)
  BY YearBundlesAre
<1> HIDE DEF Y, m, s, n
<1>3. Len(s) = n
  BY <1>2
<1>4. step \in [1 .. n -> [X -> X]] /\ base \in X
  <2>1. \A i \in 1 .. n, g \in X : Gather(selected, g, s[i]) \in X
    <3> SUFFICES ASSUME NEW i \in 1 .. n, NEW g \in X  PROVE Gather(selected, g, s[i]) \in X
      OBVIOUS
    <3>1. s[i] \in Y
      BY <1>2
    <3> QED  BY <1>2, <3>1, GatherIs
  <2>2. base \in X
    OBVIOUS
  <2> HIDE DEF X, base
  <2> QED  BY <2>1, <2>2
<1>5. PICK f \in [0 .. n -> X] : IsLoop(f, n, base, step)
  <2> HIDE DEF X, base, step
  <2> QED  BY <1>2, <1>4, Recursion
<1>6. f[0] = base /\ \A i \in 1 .. n : f[i - 1] \in X /\ f[i] = Gather(selected, f[i - 1], s[i])
  <2>1. f[0] = base
    BY <1>5 DEF IsLoop
  <2>2. ASSUME NEW i \in 1 .. n  PROVE f[i - 1] \in X /\ f[i] = Gather(selected, f[i - 1], s[i])
    <3>1. f[i] = step[i][f[i - 1]]
      BY <1>5 DEF IsLoop
    <3>2. i - 1 \in 0 .. n
      BY <1>2
    <3> HIDE DEF X
    <3>3. f[i - 1] \in X
      BY <1>5, <3>2
    <3> QED  BY <3>1, <3>3
  <2> QED  BY <2>1, <2>2
<1> HIDE DEF X, base, step
<1>7. f = Turns(f)
  <2>1. \A i \in 0 .. n : f[i] = (IF i = 0 THEN base ELSE Gather(selected, f[i - 1], s[i]))
    <3>1. \A i \in 0 .. n : i = 0 \/ i \in 1 .. n
      BY <1>2
    <3> QED  BY <1>6, <3>1
  <2>2. f = [i \in 0 .. n |-> f[i]]
    BY <1>5
  <2> QED  BY <1>3, <2>1, <2>2, Zenon
<1>8. upTo = Turns(upTo)
  BY <1>7, Zenon
<1> HIDE DEF upTo
<1> DEFINE True == {i \in 0 .. n : upTo[i] = f[i] /\ Gathered(f[i], s, i, selected)}
<1>9. 0 \in True
  <2>1. 0 \in 0 .. n /\ upTo[0] = base
    BY <1>2, <1>3, <1>8
  <2>2. Gathered(base, s, 0, selected)
    <3>1. base \in Seq(Group(Y)) /\ Len(base) = 0
      BY DEF base
    <3>2. Lists(base) = << >>
      <4> HIDE DEF base
      <4>1. Lists(base) \in Seq(Seq(Y)) /\ Len(Lists(base)) = 0
        BY <3>1, ListsAre
      <4> QED  BY <4>1
    <3>3. FlattenSeq(<< >>) = << >>
      BY DEF FlattenSeq
    <3>4. Newest(s, 0) = << >>
      BY DEF Newest
    <3> HIDE DEF base
    <3> QED  BY <3>1, <3>2, <3>3, <3>4 DEF Gathered
  <2> QED  BY <1>6, <2>1, <2>2
<1>10. ASSUME NEW i \in 1 .. n, i - 1 \in True  PROVE i \in True
  <2>1. i \in 0 .. n /\ i # 0
    BY <1>2
  <2>2. upTo[i] = Gather(selected, upTo[i - 1], s[i])
    BY <1>3, <1>8, <2>1
  <2>3. upTo[i] = f[i]
    BY <1>6, <1>10, <2>2
  <2>4. f[i - 1] \in Seq(Group(Y))
    BY <1>6 DEF X
  <2>5. Gathered(f[i], s, i, selected)
    <3>1. Gathered(f[i - 1], s, i - 1, selected)
      BY <1>10
    <3>2. Gathered(Gather(selected, f[i - 1], s[i]), s, i, selected)
      BY <1>2, <2>4, <3>1, GatherNext
    <3> QED  BY <1>6, <3>2
  <2> QED  BY <2>1, <2>3, <2>5
<1>11. \A i \in 0 .. n : i \in True
  <2> HIDE DEF True
  <2> QED  BY <1>2, <1>9, <1>10, UptoInduct
<1>12. n \in 0 .. n
  BY <1>2
<1>13. f[n] \in X /\ upTo[n] = f[n] /\ Gathered(f[n], s, n, selected)
  BY <1>5, <1>11, <1>12
<1>14. f[n] \in Seq(Group(Y)) /\ Groups(shown, selected) = Reverse(f[n])
  BY <1>1, <1>3, <1>13 DEF X
<1> QED  BY <1>13, <1>14, Zenon DEF m, s, n, Y

-----------------------------------------------------------------------------
\* The page

LEMMA LinksAreRight ==
  ASSUME Gaps = {}, CalTypes, page = BrowseCalendar(MonthShown, DaySelected)
  PROVE  LinksLead
<1> DEFINE m == MonthMeant
           sel == DaySelected
           s == YearBundles(m)
           Y == Year(m)
           n == Cardinality(Y)
<1>1. /\ m \in Nat \ {0} /\ MonthShown = FirstOf(m)
      /\ sel # Never => sel \in Nat /\ MonthOf(sel) = m
  BY RequestMeans
<1>2. /\ MonthOf(FirstOf(m)) = m /\ MonthOf(AddDate(FirstOf(m), 1, 0)) = m + 1
      /\ MonthOf(AddDate(FirstOf(m), -1, 0)) = m - 1
  <2> HIDE DEF m
  <2> QED  BY <1>1, Beside
<1>3. /\ page.month = m /\ page.prev = m - 1 /\ page.next = m + 1 /\ page.selected = sel
      /\ page.groups = Groups(FirstOf(m), sel)
      /\ page.missing = (sel # Never /\ \A b \in bundles : b[1] # sel)
  <2> HIDE DEF m, sel
  <2>1. page = BrowseCalendar(FirstOf(m), sel)
    BY <1>1 DEF sel
  <2> DEFINE here  == MonthOf(FirstOf(m))
             prev  == MonthOf(AddDate(FirstOf(m), -1, 0))
             next  == MonthOf(AddDate(FirstOf(m), 1, 0))
             weeks == Weeks(FirstOf(m), sel)
             groups == Groups(FirstOf(m), sel)
             missing == sel # Never /\ \A b \in bundles : b[1] # sel
  <2>2. page = [month |-> here, prev |-> prev, next |-> next, weeks |-> weeks, groups |-> groups,
                selected |-> sel, missing |-> missing]
    BY <2>1 DEF BrowseCalendar
  <2>3. /\ page.month = here /\ page.prev = prev /\ page.next = next /\ page.groups = groups
        /\ page.selected = sel /\ page.missing = missing
    <3> HIDE DEF here, prev, next, weeks, groups, missing
    <3> QED  BY <2>2
  <2> QED  BY <1>2, <2>3, Zenon
<1>4. page.month = IF asked.month \in Nat THEN asked.month
                   ELSE IF asked.day \in Nat THEN MonthOf(asked.day)
                   ELSE MonthOf(today)
  BY <1>3 DEF MonthMeant
<1> HIDE DEF m, sel
<1>5. PICK g \in Seq(Group(Y)) : Gathered(g, s, n, sel) /\ page.groups = Reverse(g)
  BY <1>2, <1>3, GroupsAre
<1>6. n \in Nat /\ s \in [1 .. n -> Y] /\ Sorts(s, Y)
  BY YearBundlesAre
<1>7. FlattenSeq([i \in DOMAIN page.groups |-> page.groups[i].bundles]) = Reverse(YearBundles(page.month))
  <2>1. FlattenSeq(Lists(g)) = Newest(s, n)
    BY <1>5 DEF Gathered
  <2>2. Lists(g) = [i \in DOMAIN page.groups |-> page.groups[i].bundles]
    BY <1>5, Zenon DEF Lists
  <2>3. Newest(s, n) = Reverse(s)
    <3>1. Len(s) = n
      BY <1>6
    <3> QED  BY <3>1, Zenon DEF Newest, Reverse
  <2> QED  BY <1>3, <2>1, <2>2, <2>3, Zenon
<1>8. ASSUME sel # Never
      PROVE  page.missing <=> \A i \in DOMAIN page.groups : ~page.groups[i].selected
  <2>1. /\ Len(g) \in Nat /\ DOMAIN page.groups = 1 .. Len(g)
        /\ \A i \in 1 .. Len(g) : Len(g) - i + 1 \in 1 .. Len(g)
                                  /\ page.groups[i] = g[Len(g) - i + 1]
    BY <1>5 DEF Reverse
  <2>2. \A k \in 1 .. Len(g) :
          g[k].selected = (g[k].date = sel) /\ \E j \in 1 .. n : s[j][1] = g[k].date
    BY <1>5 DEF Gathered
  <2>3. \A j \in 1 .. n : \E k \in 1 .. Len(g) : g[k].date = s[j][1]
    BY <1>5 DEF Gathered
  <2>4. ASSUME NEW i \in DOMAIN page.groups, page.groups[i].selected
        PROVE  \E b \in bundles : b[1] = sel
    <3>1. Len(g) - i + 1 \in 1 .. Len(g) /\ page.groups[i] = g[Len(g) - i + 1]
      BY <2>1
    <3>2. PICK k \in 1 .. Len(g) : page.groups[i] = g[k]
      BY <3>1
    <3>3. g[k].date = sel
      BY <2>2, <2>4, <3>2
    <3>4. PICK j \in 1 .. n : s[j][1] = sel
      BY <2>2, <3>3
    <3>5. s[j] \in bundles
      BY <1>6 DEF Year
    <3> QED  BY <3>4, <3>5
  <2>5. ASSUME NEW b \in bundles, b[1] = sel
        PROVE  \E i \in DOMAIN page.groups : page.groups[i].selected
    <3>1. b \in Y
      BY <1>1, <1>8, <2>5 DEF Year
    <3>2. PICK j \in 1 .. n : s[j] = b
      BY <1>6, <3>1 DEF Sorts, Range
    <3>3. PICK k \in 1 .. Len(g) : g[k].date = sel
      BY <2>3, <2>5, <3>2
    <3>4. g[k].selected
      BY <2>2, <3>3
    <3>5. Len(g) - k + 1 \in 1 .. Len(g) /\ Len(g) - (Len(g) - k + 1) + 1 = k
      BY <2>1
    <3>6. page.groups[Len(g) - k + 1] = g[k]
      BY <2>1, <3>5
    <3> QED  BY <2>1, <3>4, <3>5, <3>6
  <2> QED  BY <1>3, <1>8, <2>4, <2>5
<1>9. page.selected # Never =>
        /\ MonthOf(page.selected) = page.month
        /\ page.missing <=> \A i \in DOMAIN page.groups : ~page.groups[i].selected
  BY <1>1, <1>3, <1>8
<1> QED  BY <1>3, <1>4, <1>7, <1>9, Zenon DEF LinksLead

\* A page is the answer to the request that is there.
CalInv ==
  /\ CalTypes
  /\ page # Never => page = BrowseCalendar(MonthShown, DaySelected)

LEMMA PageExact ==
  ASSUME Gaps = {}, CalInv
  PROVE  BrowseExact
  BY GridIsExact, LinksAreRight DEF CalInv, BrowseExact

LEMMA InnerMonths == \A m \in Inner : m \in Nat /\ m # 0
  BY YearsAssumption DEF Inner

LEMMA CalInitHolds ==
  ASSUME CalInit
  PROVE  CalInv
<1>1. today \in Dates /\ bundles \in SUBSET (Dates \X {0, 1}) /\ page = Never
  BY DEF CalInit
<1>2. asked.month \in Nat => asked.month # 0
  <2>1. asked.month \in Inner \cup {Absent, Garbage} \cup {MonthOf(d) : d \in Dates}
    BY DEF CalInit
  <2>2. \A d \in Dates : MonthOf(d) # 0
    BY DateMonth
  <2> QED  BY <2>1, <2>2, InnerMonths, NoDateAssumption
<1>3. asked.day \in Nat => asked.day \in Dates
  BY NoDateAssumption DEF CalInit
<1> QED  BY <1>1, <1>2, <1>3 DEF CalInv, CalTypes

\* The days that are linked to have bundles.
LEMMA LinksAreDates ==
  ASSUME Gaps = {}, CalTypes, page = BrowseCalendar(MonthShown, DaySelected)
  PROVE  page.month \in Nat \ {0} /\ Linked \subseteq Dates
<1> DEFINE m == MonthMeant
           F == FirstOf(m)
           N == LengthOf(m)
           o == F % 7
           sel == DaySelected
<1>1. page.month = m /\ m \in Nat \ {0} /\ MonthShown = F
  BY LinksAreRight, RequestMeans DEF LinksLead, MonthMeant
<1>2. page.weeks = WeeksOf(m, sel)
  <2>1. Weeks(MonthShown, sel) = WeeksOf(m, sel)
    BY <1>1, WeeksAre
  <2> QED  BY <2>1, Zenon DEF BrowseCalendar
<1>3. page.weeks = [r \in 1 .. Row(o, N) + 1 |-> [c \in 0 .. 6 |-> CellAt(m, F, sel, o, r - 1, c, N)]]
  BY <1>2, Zenon DEF WeeksOf
<1> HIDE DEF m, F, N, o, sel
<1>4. ASSUME NEW r \in DOMAIN page.weeks, NEW cell \in Range(page.weeks[r]), cell.day # 0, cell.count > 0
      PROVE  Date(page.month, cell.day) \in Dates
  <2>1. PICK c \in 0 .. 6 : cell = CellAt(m, F, sel, o, r - 1, c, N)
    BY <1>3, <1>4 DEF Range
  <2> DEFINE k == 7 * (r - 1) + c - o + 1
             day == {b \in bundles : b[1] = Date(m, k) /\ MonthOf(b[1]) = MonthOf(F)}
  <2>2. cell = Cell(m, F, sel, k)
    BY <1>4, <2>1 DEF CellAt, NoCell
  <2>3. cell.day = k /\ cell.count = Cardinality(day)
    <3> DEFINE count == Cardinality(day)
    <3>1. cell = [day |-> k, count |-> count, today |-> Date(m, k) = today, selected |-> Date(m, k) = sel]
      BY <2>2 DEF Cell
    <3> HIDE DEF count, k
    <3>2. cell.day = k /\ cell.count = count
      BY <3>1
    <3> QED  BY <3>2 DEF count
  <2>4. day # {}
    <3> HIDE DEF day
    <3> QED  BY <1>4, <2>3, FS_EmptySet
  <2>5. PICK b \in bundles : b[1] = Date(m, k)
    BY <2>4
  <2>6. b[1] \in Dates
    BY DEF CalTypes
  <2> QED  BY <1>1, <2>3, <2>5, <2>6
<1>5. Linked \subseteq Dates
  BY <1>4 DEF Linked
<1> QED  BY <1>1, <1>5

\* The page depends on the index, the date and the request only.
LEMMA SamePage ==
  ASSUME today' = today, bundles' = bundles, NEW CONSTANT shown, NEW CONSTANT selected
  PROVE  BrowseCalendar(shown, selected)' = BrowseCalendar(shown, selected)
<1>1. Weeks(shown, selected)' = Weeks(shown, selected)
  BY DEF Weeks, Cell
<1>2. Groups(shown, selected)' = Groups(shown, selected)
  <2>1. YearBundles(MonthOf(shown))' = YearBundles(MonthOf(shown))
    BY DEF YearBundles
  <2> QED  BY <2>1 DEF Groups, SelectInSeq
<1> QED  BY <1>1, <1>2 DEF BrowseCalendar

LEMMA SameRequest ==
  ASSUME today' = today, asked' = asked
  PROVE  MonthShown' = MonthShown /\ DaySelected' = DaySelected
  BY DEF MonthShown, DaySelected, DayAsked

LEMMA CalStepHolds ==
  ASSUME Gaps = {}, CalInv, [CalNext]_calVars
  PROVE  CalInv'
<1>1. CASE Browse
  <2>1. page' = BrowseCalendar(MonthShown, DaySelected) /\ today' = today /\ bundles' = bundles /\ asked' = asked
    BY <1>1 DEF Browse
  <2>2. CalTypes'
    BY <2>1 DEF CalInv, CalTypes
  <2>3. page' = BrowseCalendar(MonthShown, DaySelected)'
    BY <2>1, SamePage, SameRequest
  <2> QED  BY <2>2, <2>3 DEF CalInv
<1>2. CASE Follow
  <2>1. page # Never /\ page' = Never /\ today' = today /\ bundles' = bundles
    BY <1>2 DEF Follow
  <2>2. asked' \in [month : {page.prev, page.next} \cap Inner, day : {Absent}]
                   \cup [month : {page.month}, day : Linked]
    BY <1>2 DEF Follow
  <2>3. page = BrowseCalendar(MonthShown, DaySelected) /\ CalTypes
    BY <2>1 DEF CalInv
  <2>4. page.month \in Nat \ {0} /\ Linked \subseteq Dates
    BY <2>3, LinksAreDates
  <2>5. asked'.month \in Nat => asked'.month # 0
    BY <2>2, <2>4, InnerMonths
  <2>6. asked'.day \in Nat => asked'.day \in Dates
    BY <2>2, <2>4, NoDateAssumption
  <2>7. CalTypes'
    BY <2>1, <2>3, <2>5, <2>6 DEF CalTypes
  <2> QED  BY <2>1, <2>7 DEF CalInv
<1>3. CASE UNCHANGED calVars
  <2>1. page' = page /\ today' = today /\ bundles' = bundles /\ asked' = asked
    BY <1>3 DEF calVars
  <2>2. CalTypes'
    BY <2>1 DEF CalInv, CalTypes
  <2>3. page # Never => page' = BrowseCalendar(MonthShown, DaySelected)'
    BY <2>1, SamePage, SameRequest DEF CalInv
  <2> QED  BY <2>1, <2>2, <2>3 DEF CalInv
<1> QED  BY <1>1, <1>2, <1>3 DEF CalNext

\* Whatever is asked and whatever links are followed, the page is right about
\* its month and its ways on are right too (browse.go:153, server.go:175), if
\* every date has a midnight where the server is.
THEOREM BrowseIsExact ==
  ASSUME Gaps = {}
  PROVE  CalSpec => []BrowseExact
<1>1. CalInit => CalInv
  BY CalInitHolds
<1>2. CalInv /\ [CalNext]_calVars => CalInv'
  BY CalStepHolds
<1>3. CalInv => BrowseExact
  BY PageExact
<1> QED  BY <1>1, <1>2, <1>3, PTL DEF CalSpec

=============================================================================
