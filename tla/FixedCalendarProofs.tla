------------------------- MODULE FixedCalendarProofs ------------------------
(***************************************************************************)
(* The fixed schedules never pass over a slot, for months of any number    *)
(* and any length: what NextSlot computes from a row and a moment is the   *)
(* least slot of the row after that moment.                                *)
(***************************************************************************)
EXTENDS FixedCalendar, WellFoundedInduction, TLAPS

-----------------------------------------------------------------------------
(* Numbers. *)

\* A set of numbers that is not empty has a least one.
LEMMA Least ==
    ASSUME NEW T \in SUBSET Nat, T # {}
    PROVE  \E n \in T : \A k \in T : n <= k
<1>1. PICK n \in T : \A k \in T : ~ (<<k, n>> \in OpToRel(<, Nat))
  BY NatLessThanWellFounded, WFMin
<1>2. ASSUME NEW k \in T PROVE n <= k
  <2>1. n \in Nat /\ k \in Nat OBVIOUS
  <2>2. ~ (k < n) BY <1>1, <2>1 DEF OpToRel
  <2> QED BY <2>1, <2>2
<1> QED BY <1>2

\* The days up to the next one of a weekday: none of them is that weekday but
\* the last, nor is any of the six after it.
LEMMA NextWeekday ==
    ASSUME NEW d \in Nat, NEW w \in 0 .. 6
    PROVE  LET delta == (w - (d % 7) + 7) % 7 IN
           /\ delta \in 0 .. 6
           /\ (d + delta) % 7 = w
           /\ \A e \in Nat : d <= e /\ e < d + delta + 7 /\ e % 7 = w
                               => e = d + delta
OBVIOUS

LEMMA Halves ==
    ASSUME NEW t \in Nat
    PROVE  /\ t \div 2 \in Nat
           /\ t % 2 \in {0, 1}
           /\ t = 2 * (t \div 2) + (t % 2)
<1>1. t \div 2 \in Nat OBVIOUS
<1>2. t % 2 \in 0 .. 1 OBVIOUS
<1>3. t = 2 * (t \div 2) + (t % 2) OBVIOUS
<1> QED BY <1>1, <1>2, <1>3

LEMMA HalfOf ==
    ASSUME NEW d \in Nat, NEW h \in {0, 1}
    PROVE  (2 * d + h) \div 2 = d /\ (2 * d + h) % 2 = h
OBVIOUS
-----------------------------------------------------------------------------
(* The months. *)

\* The first day of every month is a number, one month after the other: the
\* equation that defines FirstDay has a solution.
LEMMA FirstDays ==
    /\ FirstDay \in [1 .. Len(Months) -> Nat]
    /\ \A m \in 1 .. Len(Months) :
         FirstDay[m] = IF m = 1 THEN 0 ELSE FirstDay[m - 1] + Months[m - 1]
<1> DEFINE M == 1 .. Len(Months)
           Step(f, m) == IF m = 1 THEN 0 ELSE f[m - 1] + Months[m - 1]
           Upto(n, f) == f \in [1 .. n -> Nat] /\ \A m \in 1 .. n : f[m] = Step(f, m)
           T == {n \in Nat : n <= Len(Months) /\ ~ \E f : Upto(n, f)}
<1>1. Len(Months) \in Nat /\ \A m \in M : Months[m] \in Nat
  BY CalendarAssumption
<1>2. T = {}
  <2> SUFFICES ASSUME T # {} PROVE FALSE OBVIOUS
  <2>1. T \in SUBSET Nat OBVIOUS
  <2>2. PICK n \in T : \A k \in T : n <= k
    <3> HIDE DEF T
    <3> QED BY <2>1, Least
  <2>3. CASE n = 0
    <3>1. Upto(0, [m \in 1 .. 0 |-> 0]) OBVIOUS
    <3> HIDE DEF Upto
    <3> QED BY <2>3, <3>1
  <2>4. CASE n # 0
    <3>1. n - 1 \in Nat /\ n - 1 <= Len(Months) /\ n - 1 \notin T
      <4>1. n \in Nat /\ n <= Len(Months) OBVIOUS
      <4>2. ASSUME n - 1 \in T PROVE FALSE
        <5> HIDE DEF T
        <5> QED BY <2>2, <4>1, <4>2
      <4>3. n - 1 \in Nat BY <2>4, <4>1
      <4>4. n - 1 <= Len(Months) BY <1>1, <4>1
      <4> QED BY <4>2, <4>3, <4>4
    <3>2. PICK f : Upto(n - 1, f) BY <3>1
    <3> DEFINE g == [m \in 1 .. n |-> IF m = n THEN Step(f, n) ELSE f[m]]
    <3>3. Step(f, n) \in Nat
      BY <1>1, <2>4, <3>2
    <3>4. \A m \in 1 .. n : m # n => m \in 1 .. n - 1 /\ f[m] \in Nat /\ f[m] = Step(f, m)
      BY <3>2
    <3>5. g \in [1 .. n -> Nat]
      <4> HIDE DEF Step
      <4> QED BY <3>3, <3>4
    <3>6. ASSUME NEW m \in 1 .. n PROVE g[m] = Step(g, m)
      <4>1. m # 1 => m - 1 \in 1 .. n /\ m - 1 # n /\ g[m - 1] = f[m - 1] OBVIOUS
      <4>2. Step(g, m) = Step(f, m) BY <4>1
      <4>3. g[m] = Step(f, m) BY <3>4
      <4> QED BY <4>2, <4>3
    <3>7. Upto(n, g) BY <3>5, <3>6
    <3> HIDE DEF Upto, g
    <3> QED BY <3>7
  <2> QED BY <2>3, <2>4
<1>3. PICK f : Upto(Len(Months), f)
  <2>1. Len(Months) \notin T BY <1>2
  <2> HIDE DEF Upto
  <2> QED BY <1>1, <2>1
<1>4. f = [m \in M |-> Step(f, m)]
  <2>1. f \in [M -> Nat] /\ \A m \in M : f[m] = Step(f, m) BY <1>3
  <2> HIDE DEF Step
  <2> QED BY <2>1
<1>5. FirstDay = CHOOSE g : g = [m \in M |-> Step(g, m)] BY DEF FirstDay
<1>6. FirstDay = [m \in M |-> Step(FirstDay, m)]
  <2> HIDE DEF Step, M
  <2> QED BY <1>4, <1>5
<1>7. \A m \in M : FirstDay[m] = Step(FirstDay, m)
  <2> HIDE DEF Step, M
  <2> QED BY <1>6
<1>8. \A m \in M : FirstDay[m] \in Nat
  <2> DEFINE S == {m \in M : FirstDay[m] \notin Nat}
  <2> SUFFICES ASSUME S # {} PROVE FALSE OBVIOUS
  <2>1. S \in SUBSET Nat OBVIOUS
  <2>2. PICK n \in S : \A k \in S : n <= k
    <3> HIDE DEF S
    <3> QED BY <2>1, Least
  <2>3. n \in M /\ FirstDay[n] \notin Nat OBVIOUS
  <2>4. CASE n = 1 BY <1>7, <2>3, <2>4
  <2>5. CASE n # 1
    <3>1. n - 1 \in M /\ n - 1 < n BY <1>1, <2>3, <2>5
    <3>2. n - 1 \notin S
      <4> HIDE DEF S
      <4> QED BY <2>2, <2>3, <3>1
    <3>3. FirstDay[n - 1] \in Nat BY <3>1, <3>2
    <3>4. FirstDay[n] = FirstDay[n - 1] + Months[n - 1] BY <1>7, <2>5, <2>3
    <3>5. Months[n - 1] \in Nat BY <1>1, <3>1
    <3> QED BY <2>3, <3>3, <3>4, <3>5
  <2> QED BY <2>4, <2>5
<1>9. FirstDay = [m \in M |-> FirstDay[m]]
  <2> HIDE DEF Step, M
  <2> QED BY <1>6, <1>7
<1> QED BY <1>7, <1>8, <1>9

\* Lengths and first days are numbers.
LEMMA MonthNumbers ==
    /\ Len(Months) \in Nat \ {0}
    /\ \A n \in 1 .. Len(Months) : Months[n] \in Nat \ {0} /\ FirstDay[n] \in Nat
<1>1. Len(Months) \in Nat \ {0} BY CalendarAssumption
<1>2. \A n \in 1 .. Len(Months) : Months[n] \in Nat \ {0} BY CalendarAssumption
<1>3. \A n \in 1 .. Len(Months) : FirstDay[n] \in Nat BY FirstDays
<1> QED BY <1>1, <1>2, <1>3

\* A month begins where the one before it ends.
LEMMA MonthAfter ==
    ASSUME NEW m \in 1 .. Len(Months) - 1
    PROVE  FirstDay[m + 1] = FirstDay[m] + Months[m]
<1>1. Len(Months) \in Nat BY CalendarAssumption
<1>2. m + 1 \in 1 .. Len(Months) /\ m + 1 # 1 /\ (m + 1) - 1 = m BY <1>1
<1> QED BY <1>2, FirstDays

\* Months do not overlap.
LEMMA MonthsApart ==
    ASSUME NEW m \in 1 .. Len(Months), NEW k \in 1 .. Len(Months), m < k
    PROVE  FirstDay[m] + Months[m] <= FirstDay[k]
<1> DEFINE S == {n \in 1 .. Len(Months) : m < n /\ FirstDay[n] < FirstDay[m] + Months[m]}
<1>1. /\ Len(Months) \in Nat
      /\ \A n \in 1 .. Len(Months) : Months[n] \in Nat /\ FirstDay[n] \in Nat
  BY MonthNumbers
<1>2. S = {}
  <2> SUFFICES ASSUME S # {} PROVE FALSE OBVIOUS
  <2>1. S \in SUBSET Nat OBVIOUS
  <2>2. PICK n \in S : \A l \in S : n <= l
    <3> HIDE DEF S
    <3> QED BY <2>1, Least
  <2>3. n \in 1 .. Len(Months) /\ m < n /\ FirstDay[n] < FirstDay[m] + Months[m]
    OBVIOUS
  <2>4. n - 1 \in 1 .. Len(Months) - 1 /\ (n - 1) + 1 = n /\ n - 1 \in 1 .. Len(Months)
    BY <1>1, <2>3
  <2>5. FirstDay[n] = FirstDay[n - 1] + Months[n - 1]
    BY <2>4, MonthAfter
  <2>6. n - 1 \notin S
    <3> HIDE DEF S
    <3> QED BY <2>2, <2>3
  <2>7. CASE n - 1 = m BY <1>1, <2>3, <2>5, <2>7
  <2>8. CASE n - 1 # m
    <3>1. m < n - 1 BY <2>3, <2>8
    <3>2. ~ (FirstDay[n - 1] < FirstDay[m] + Months[m]) BY <2>4, <2>6, <3>1
    <3>3. /\ FirstDay[n - 1] \in Nat /\ FirstDay[m] \in Nat
          /\ Months[n - 1] \in Nat /\ Months[m] \in Nat
      BY <1>1, <2>4
    <3> HIDE DEF S
    <3> QED BY <2>3, <2>5, <3>2, <3>3
  <2> QED BY <2>7, <2>8
<1>3. k \notin S BY <1>2
<1>4. ~ (FirstDay[k] < FirstDay[m] + Months[m]) BY <1>3
<1>5. FirstDay[k] \in Nat /\ FirstDay[m] \in Nat /\ Months[m] \in Nat BY <1>1
<1> HIDE DEF S
<1> QED BY <1>4, <1>5

\* The month of a day is the one that holds it.
LEMMA MonthIs ==
    ASSUME NEW m \in 1 .. Len(Months), NEW d \in Nat,
           FirstDay[m] <= d, d < FirstDay[m] + Months[m]
    PROVE  MonthOf(d) = m
<1>1. \A k \in 1 .. Len(Months) : Months[k] \in Nat /\ FirstDay[k] \in Nat
  BY MonthNumbers
<1>2. ASSUME NEW k \in 1 .. Len(Months), FirstDay[k] <= d, d < FirstDay[k] + Months[k]
      PROVE  k = m
  <2>1. ~ (k < m) BY <1>1, <1>2, MonthsApart
  <2>2. ~ (m < k) BY <1>1, <1>2, MonthsApart
  <2> QED BY <2>1, <2>2
<1> QED BY <1>2 DEF MonthOf

\* Every day the model runs through has a month, and that month a next one.
LEMMA MonthFound ==
    ASSUME NEW d \in Nat, d <= LastDay
    PROVE  /\ MonthOf(d) \in 1 .. Len(Months) - 1
           /\ FirstDay[MonthOf(d)] <= d
           /\ d < FirstDay[MonthOf(d)] + Months[MonthOf(d)]
<1> DEFINE L == Len(Months)
           S == {n \in 1 .. L : d < FirstDay[n]}
<1>1. /\ L \in Nat
      /\ \A n \in 1 .. L : Months[n] \in Nat /\ FirstDay[n] \in Nat
  BY MonthNumbers
<1>2. L >= 1 BY MonthNumbers
<1>3. L \in S BY <1>1, <1>2 DEF LastDay
<1>4. S \in SUBSET Nat OBVIOUS
<1>5. PICK n \in S : \A k \in S : n <= k
  <2> HIDE DEF S
  <2> QED BY <1>3, <1>4, Least
<1>6. n \in 1 .. L /\ d < FirstDay[n] OBVIOUS
<1>7. n # 1
  <2>1. FirstDay[1] = 0 BY <1>1, <1>2, FirstDays
  <2> QED BY <1>6, <2>1
<1>8. n - 1 \in 1 .. L - 1 /\ (n - 1) + 1 = n /\ n - 1 \in 1 .. L BY <1>1, <1>6, <1>7
<1>9. n - 1 \notin S
  <2> HIDE DEF S
  <2> QED BY <1>5, <1>6
<1>10. FirstDay[n] = FirstDay[n - 1] + Months[n - 1] BY <1>8, MonthAfter
<1>11. FirstDay[n - 1] <= d BY <1>1, <1>8, <1>9
<1>12. MonthOf(d) = n - 1 BY <1>6, <1>8, <1>10, <1>11, MonthIs
<1> QED BY <1>6, <1>8, <1>10, <1>11, <1>12

-----------------------------------------------------------------------------
(* Slots. *)

\* A daily plan: the slot of the day, or of the next one.
LEMMA DailyLeast ==
    ASSUME NEW r \in Rows, r.freq = "daily", NEW t \in Nat
    PROVE  LET n == NextSlot(r, t) IN
           /\ n \in Nat /\ n > t /\ IsSlot(r, n)
           /\ \A s \in Nat : t < s /\ s < n => ~IsSlot(r, s)
<1> DEFINE d == DayOf(t)
<1>1. r.half \in {0, 1} BY DEF Rows
<1>2. d \in Nat /\ (t = 2 * d \/ t = 2 * d + 1) BY Halves DEF DayOf
<1>3. NextSlot(r, t) = IF 2 * d + r.half <= t THEN 2 * (d + 1) + r.half ELSE 2 * d + r.half
  BY DEF NextSlot
<1> HIDE DEF d
<1>4. IsSlot(r, 2 * d + r.half) /\ IsSlot(r, 2 * (d + 1) + r.half)
  BY <1>1, <1>2, HalfOf DEF IsSlot
<1>5. ASSUME NEW s \in Nat, IsSlot(r, s)
      PROVE  s = 2 * (s \div 2) + r.half /\ s \div 2 \in Nat
  BY <1>5, Halves DEF IsSlot
<1> QED BY <1>1, <1>2, <1>3, <1>4, <1>5

\* A weekly plan: the slot of the next such weekday, or of the one after it.
LEMMA WeeklyLeast ==
    ASSUME NEW r \in Rows, r.freq = "weekly", NEW t \in Nat
    PROVE  LET n == NextSlot(r, t) IN
           /\ n \in Nat /\ n > t /\ IsSlot(r, n)
           /\ \A s \in Nat : t < s /\ s < n => ~IsSlot(r, s)
<1> DEFINE d == DayOf(t)
           delta == (r.weekday - WeekdayOf(d) + 7) % 7
           e == d + delta
<1>1. r.half \in {0, 1} /\ r.weekday \in 0 .. 6 BY DEF Rows
<1>2. d \in Nat /\ (t = 2 * d \/ t = 2 * d + 1) BY Halves DEF DayOf
<1>3. /\ delta \in 0 .. 6
      /\ e % 7 = r.weekday
      /\ \A k \in Nat : d <= k /\ k < e + 7 /\ k % 7 = r.weekday => k = e
  <2> HIDE DEF d
  <2> QED BY <1>1, <1>2, NextWeekday DEF WeekdayOf
<1>4. NextSlot(r, t) = IF 2 * e + r.half <= t THEN 2 * (e + 7) + r.half ELSE 2 * e + r.half
  BY DEF NextSlot
<1> HIDE DEF d, delta
<1>5. e \in Nat /\ d <= e BY <1>2, <1>3
<1> HIDE DEF e
<1>6. (e + 7) % 7 = r.weekday BY <1>3, <1>5
<1>7. IsSlot(r, 2 * e + r.half) /\ IsSlot(r, 2 * (e + 7) + r.half)
  <2>1. ASSUME NEW k \in Nat, k % 7 = r.weekday PROVE IsSlot(r, 2 * k + r.half)
    BY <1>1, <2>1, HalfOf DEF IsSlot, DayOf, WeekdayOf
  <2>2. IsSlot(r, 2 * e + r.half) BY <1>3, <1>5, <2>1
  <2>3. e + 7 \in Nat BY <1>5
  <2>4. IsSlot(r, 2 * (e + 7) + r.half) BY <1>6, <2>1, <2>3
  <2> QED BY <2>2, <2>4
<1>8. ASSUME NEW s \in Nat, IsSlot(r, s)
      PROVE  /\ s = 2 * (s \div 2) + r.half /\ s \div 2 \in Nat
             /\ (s \div 2) % 7 = r.weekday
  BY <1>8, Halves DEF IsSlot, DayOf, WeekdayOf
<1>9. NextSlot(r, t) \in Nat /\ NextSlot(r, t) > t /\ IsSlot(r, NextSlot(r, t))
  BY <1>1, <1>2, <1>4, <1>5, <1>7
<1>10. ASSUME NEW s \in Nat, t < s, s < NextSlot(r, t), IsSlot(r, s) PROVE FALSE
  <2> DEFINE k == s \div 2
  <2>1. s = 2 * k + r.half /\ k \in Nat /\ k % 7 = r.weekday BY <1>8, <1>10
  <2> HIDE DEF k
  <2>2. d <= k /\ k < e + 7 BY <1>1, <1>2, <1>4, <1>5, <1>10, <2>1
  <2>3. k = e BY <1>3, <2>1, <2>2
  <2> QED BY <1>1, <1>4, <1>5, <1>10, <2>1, <2>3
<1> QED BY <1>9, <1>10

\* A monthly plan: the slot of the month, or of the next one.  Each month has
\* one slot, on its last day where it is too short for the day of the plan.
LEMMA MonthlyLeast ==
    ASSUME NEW r \in Rows, r.freq = "monthly", NEW t \in 0 .. 2 * LastDay
    PROVE  LET n == NextSlot(r, t) IN
           /\ n \in Nat /\ n > t /\ IsSlot(r, n)
           /\ \A s \in Nat : t < s /\ s < n => ~IsSlot(r, s)
<1> DEFINE d == DayOf(t)
           m == MonthOf(d)
           DateIn(k) == IF r.day < Months[k] THEN r.day ELSE Months[k]
           SlotDay(k) == FirstDay[k] + DateIn(k) - 1
<1>1. r.half \in {0, 1} /\ r.day \in Nat \ {0} BY CalendarAssumption DEF Rows
<1>2. LastDay \in Int BY MonthNumbers DEF LastDay
<1>3. t \in Nat /\ d \in Nat /\ d <= LastDay /\ (t = 2 * d \/ t = 2 * d + 1)
  BY <1>2, Halves DEF DayOf
<1> HIDE DEF d
<1>4. /\ m \in 1 .. Len(Months) - 1
      /\ FirstDay[m] <= d
      /\ d < FirstDay[m] + Months[m]
  BY <1>3, MonthFound
<1> HIDE DEF m
<1>5. /\ m \in 1 .. Len(Months) /\ m + 1 \in 1 .. Len(Months)
      /\ FirstDay[m + 1] = FirstDay[m] + Months[m]
  BY <1>4, MonthNumbers, MonthAfter
<1>6. ASSUME NEW k \in 1 .. Len(Months)
      PROVE  /\ SlotDay(k) \in Nat
             /\ FirstDay[k] \in Nat /\ Months[k] \in Nat
             /\ FirstDay[k] <= SlotDay(k) /\ SlotDay(k) < FirstDay[k] + Months[k]
             /\ MonthlyDate(k, r) = 2 * SlotDay(k) + r.half
             /\ IsSlot(r, MonthlyDate(k, r))
  <2>1. FirstDay[k] \in Nat /\ Months[k] \in Nat \ {0} BY MonthNumbers
  <2>2. SlotDay(k) \in Nat /\ FirstDay[k] <= SlotDay(k) /\ SlotDay(k) < FirstDay[k] + Months[k]
    <3>1. DateIn(k) \in Nat /\ 1 <= DateIn(k) /\ DateIn(k) <= Months[k] BY <1>1, <2>1
    <3> HIDE DEF DateIn
    <3> QED BY <2>1, <3>1
  <2>3. MonthlyDate(k, r) = 2 * SlotDay(k) + r.half BY DEF MonthlyDate
  <2>4. DateIn(k) = SlotDay(k) - FirstDay[k] + 1 BY <1>1, <2>1
  <2>5. DateIn(k) = r.day \/ (DateIn(k) < r.day /\ DateIn(k) = Months[k]) BY <1>1, <2>1
  <2> HIDE DEF SlotDay, DateIn
  <2>6. MonthOf(SlotDay(k)) = k BY <2>2, MonthIs
  <2>7. DayOf(2 * SlotDay(k) + r.half) = SlotDay(k) /\ (2 * SlotDay(k) + r.half) % 2 = r.half
    BY <1>1, <2>2, HalfOf DEF DayOf
  <2>8. IsSlot(r, MonthlyDate(k, r))
    BY <2>3, <2>4, <2>5, <2>6, <2>7 DEF IsSlot
  <2> QED BY <2>1, <2>2, <2>3, <2>8
<1>7. ASSUME NEW s \in Nat, IsSlot(r, s), NEW k \in 1 .. Len(Months),
             FirstDay[k] <= DayOf(s), DayOf(s) < FirstDay[k] + Months[k]
      PROVE  s = MonthlyDate(k, r)
  <2>1. /\ s = 2 * DayOf(s) + r.half /\ DayOf(s) \in Nat
    BY <1>7, Halves DEF IsSlot, DayOf
  <2>2. MonthOf(DayOf(s)) = k BY <1>7, <2>1, MonthIs
  <2> DEFINE e == DayOf(s) - FirstDay[k] + 1
  <2>3. e = r.day \/ (e < r.day /\ e = Months[k])
    BY <1>7, <2>2 DEF IsSlot
  <2>4. e \in Nat /\ e <= Months[k] /\ FirstDay[k] \in Nat /\ Months[k] \in Nat
    <3>1. FirstDay[k] \in Nat /\ Months[k] \in Nat BY MonthNumbers
    <3> QED BY <1>7, <2>1, <3>1
  <2>5. DayOf(s) = FirstDay[k] + e - 1 BY <2>1, <2>4
  <2> HIDE DEF e
  <2>6. e = DateIn(k) BY <1>1, <2>3, <2>4
  <2>7. DayOf(s) = SlotDay(k) BY <2>5, <2>6
  <2> QED BY <1>6, <2>1, <2>7
<1> HIDE DEF SlotDay
<1>8. NextSlot(r, t) = IF MonthlyDate(m, r) <= t THEN MonthlyDate(m + 1, r) ELSE MonthlyDate(m, r)
  BY DEF NextSlot, m, d
<1>9. NextSlot(r, t) \in Nat /\ NextSlot(r, t) > t /\ IsSlot(r, NextSlot(r, t))
  <2>1. MonthlyDate(m, r) \in Nat /\ MonthlyDate(m + 1, r) \in Nat
    <3>1. ASSUME NEW k \in 1 .. Len(Months) PROVE MonthlyDate(k, r) \in Nat
      <4>1. SlotDay(k) \in Nat /\ MonthlyDate(k, r) = 2 * SlotDay(k) + r.half BY <1>6
      <4> QED BY <1>1, <4>1
    <3> QED BY <1>5, <3>1
  <2>2. MonthlyDate(m + 1, r) > t
    <3>1. /\ SlotDay(m + 1) \in Nat /\ FirstDay[m + 1] \in Nat
          /\ FirstDay[m + 1] <= SlotDay(m + 1)
          /\ MonthlyDate(m + 1, r) = 2 * SlotDay(m + 1) + r.half
      BY <1>5, <1>6
    <3>2. d < FirstDay[m + 1] BY <1>4, <1>5
    <3> QED BY <1>1, <1>3, <3>1, <3>2
  <2> QED BY <1>3, <1>5, <1>6, <1>8, <2>1, <2>2
<1>10. ASSUME NEW s \in Nat, t < s, s < NextSlot(r, t), IsSlot(r, s) PROVE FALSE
  <2>1. /\ s = 2 * DayOf(s) + r.half /\ DayOf(s) \in Nat
    BY <1>10, Halves DEF IsSlot, DayOf
  <2>2. d <= DayOf(s) BY <1>1, <1>3, <1>10, <2>1
  <2>3. CASE DayOf(s) < FirstDay[m + 1]
    <3>1. FirstDay[m] \in Nat BY <1>5, <1>6
    <3>2. FirstDay[m] <= DayOf(s) BY <1>3, <1>4, <2>1, <2>2, <3>1
    <3>3. DayOf(s) < FirstDay[m] + Months[m] BY <1>5, <2>3
    <3>4. s = MonthlyDate(m, r) BY <1>5, <1>7, <1>10, <3>2, <3>3
    <3> QED BY <1>3, <1>8, <1>10, <3>4
  <2>4. CASE FirstDay[m + 1] <= DayOf(s)
    <3>1. /\ SlotDay(m) \in Nat /\ SlotDay(m) < FirstDay[m + 1]
          /\ MonthlyDate(m, r) = 2 * SlotDay(m) + r.half
      BY <1>5, <1>6
    <3>2. /\ SlotDay(m + 1) \in Nat /\ FirstDay[m + 1] \in Nat /\ Months[m + 1] \in Nat
          /\ SlotDay(m + 1) < FirstDay[m + 1] + Months[m + 1]
          /\ MonthlyDate(m + 1, r) = 2 * SlotDay(m + 1) + r.half
      BY <1>5, <1>6
    <3>3. MonthlyDate(m, r) < s BY <1>1, <2>1, <2>4, <3>1, <3>2
    <3>4. s < MonthlyDate(m + 1, r)
      <4>1. NextSlot(r, t) # MonthlyDate(m, r) BY <1>1, <1>10, <3>1, <3>3
      <4> QED BY <1>8, <1>10, <4>1
    <3>5. DayOf(s) < FirstDay[m + 1] + Months[m + 1]
      BY <1>1, <2>1, <3>2, <3>4
    <3>6. s = MonthlyDate(m + 1, r) BY <1>5, <1>7, <1>10, <2>4, <3>5
    <3> QED BY <1>1, <3>2, <3>4, <3>6
  <2>5. FirstDay[m + 1] \in Nat BY <1>5, <1>6
  <2> QED BY <2>1, <2>3, <2>4, <2>5
<1> QED BY <1>9, <1>10

\* What is computed from a row and a moment is the least slot after it.
THEOREM NextSlotLeast ==
    ASSUME NEW r \in Rows, NEW t \in 0 .. 2 * LastDay
    PROVE  LET n == NextSlot(r, t) IN
           /\ n \in Nat /\ n > t /\ IsSlot(r, n)
           /\ \A s \in Nat : t < s /\ s < n => ~IsSlot(r, s)
<1>1. t \in Nat BY MonthNumbers DEF LastDay
<1>2. r.freq \in {"daily", "weekly", "monthly"} BY DEF Rows
<1> QED BY <1>1, <1>2, DailyLeast, WeeklyLeast, MonthlyLeast

-----------------------------------------------------------------------------
(* The schedule. *)

\* The time of the next sending is the one computed from the row as it stands
\* and the last sending; the row is the one its owner chose, but for Sundays.
IInv == /\ row \in Rows
        /\ base \in 0 .. 2 * LastDay
        /\ next = NextSlot(row, base)
        /\ chosen.weekday # 0 => row = chosen

\* Reading a row gives a row, and the same one unless it is for a Sunday.
LEMMA ReadRowIsRow ==
    ASSUME NEW r \in Rows
    PROVE  ReadRow(r) \in Rows /\ (r.weekday # 0 => ReadRow(r) = r)
BY DEF Rows, ReadRow

\* The tick that marks the schedule as sent keeps the invariant.
LEMMA MarkSentKeeps == IInv /\ [MarkSent]_vars => IInv'
<1> SUFFICES ASSUME IInv, [MarkSent]_vars PROVE IInv'
  OBVIOUS
<1>1. CASE MarkSent
  <2>1. PICK late \in 0 .. MaxLate :
          /\ next + late <= 2 * LastDay
          /\ base' = next + late
          /\ row' = ReadRow(row)
          /\ next' = NextSlot(row', base')
    BY <1>1 DEF MarkSent
  <2>2. next \in Nat BY NextSlotLeast DEF IInv
  <2>3. late \in Nat BY CalendarAssumption
  <2>4. LastDay \in Int BY MonthNumbers DEF LastDay
  <2>5. base' \in 0 .. 2 * LastDay BY <2>1, <2>2, <2>3, <2>4
  <2>6. row' \in Rows BY <2>1, ReadRowIsRow DEF IInv
  <2>7. chosen'.weekday # 0 => row' = chosen'
    BY <1>1, <2>1, ReadRowIsRow DEF IInv, MarkSent
  <2> QED BY <2>1, <2>5, <2>6, <2>7 DEF IInv
<1>2. CASE UNCHANGED vars BY <1>2 DEF IInv, vars
<1> QED BY <1>1, <1>2

\* Of every schedule, over months of any lengths and however late its firings
\* come, the next sending is the least slot after the last one.
THEOREM NeverPassedOver == Spec => []NextIsLeast
<1>1. Init => IInv BY DEF Init, IInv
<1>2. IInv => NextIsLeast
  <2> SUFFICES ASSUME IInv PROVE NextIsLeast OBVIOUS
  <2>1. /\ next \in Nat /\ next > base /\ IsSlot(row, next)
        /\ \A s \in Nat : base < s /\ s < next => ~IsSlot(row, s)
    BY NextSlotLeast DEF IInv
  <2>2. base \in Nat BY MonthNumbers DEF IInv, LastDay
  <2>3. ASSUME NEW t \in base + 1 .. next - 1 PROVE ~IsSlot(row, t)
    BY <2>1, <2>2
  <2> QED BY <2>1, <2>3 DEF NextIsLeast
<1> QED BY <1>1, <1>2, MarkSentKeeps, PTL DEF Spec

\* Only a schedule for Sundays loses the slots its owner chose: what is wrong
\* with the way a row is read touches no other.
THEOREM OnlySundaysMove == Spec => [](chosen.weekday # 0 => ChosenSlotKept)
<1>1. Init => IInv BY DEF Init, IInv
<1>2. IInv => (chosen.weekday # 0 => ChosenSlotKept)
  BY NextSlotLeast DEF IInv, ChosenSlotKept
<1> QED BY <1>1, <1>2, MarkSentKeeps, PTL DEF Spec
=============================================================================
