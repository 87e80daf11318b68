---------------------------- MODULE OffPeakProofs -----------------------------
(***************************************************************************)
(* A schedule means what it says: theorems about OffPeak, for weeks and    *)
(* days of any length, any windows, offsets and multipliers.               *)
(***************************************************************************)
EXTENDS OffPeak, WellFoundedInduction, TLAPS

-----------------------------------------------------------------------------
(***************************************************************************)
(* Arithmetic modulo a number that is not known                            *)
(***************************************************************************)
LEMMA DivMod ==
  ASSUME NEW x \in Int, NEW n \in Nat \ {0}
  PROVE  x \div n \in Int /\ x % n \in 0..n - 1 /\ x = (x \div n) * n + (x % n)
<1>1. x % n = x - (x \div n) * n
  OBVIOUS
<1>2. x % n \in 0..n - 1 /\ x \div n \in Int
  OBVIOUS
<1>3. (x \div n) * n \in Int
  BY <1>2
<1> QED
  BY <1>1, <1>2, <1>3

\* A positive multiple of n is at least n, a greater one at least 2n, a negative one at
\* most -n.
LEMMA Multiples ==
  ASSUME NEW k \in Int, NEW n \in Nat \ {0}
  PROVE  /\ k * n \in Int
         /\ k >= 1 => k * n >= n
         /\ k >= 2 => k * n >= n + n
         /\ k <= -1 => k * n <= -n
         /\ k <= -2 => k * n <= -n - n
         /\ k = 0 => k * n = 0
  OBVIOUS

\* Quotient and remainder are unique.
LEMMA Remainder ==
  ASSUME NEW n \in Nat \ {0}, NEW q \in Int, NEW r \in 0..n - 1
  PROVE  (q * n + r) % n = r
<1> DEFINE x == q * n + r
<1>1. x \in Int /\ q * n \in Int
  BY Multiples
<1>2. x \div n \in Int /\ x % n \in 0..n - 1 /\ x = (x \div n) * n + (x % n)
  BY <1>1, DivMod
<1> DEFINE k == (x \div n) - q
<1>3. k \in Int /\ k * n = (x \div n) * n - q * n /\ (x \div n) * n \in Int
  BY <1>2, Multiples
<1>4. r = k * n + (x % n) /\ k * n \in Int
  BY <1>1, <1>2, <1>3
<1> HIDE DEF k, x
<1>5. k = 0
  <2>1. k \in Int /\ k * n \in Int /\ r = k * n + (x % n) /\ x % n \in 0..n - 1
    BY <1>2, <1>3, <1>4
  <2>2. CASE k >= 1
    <3>1. k * n >= n
      BY <2>1, <2>2, Multiples
    <3> QED
      BY <2>1, <3>1
  <2>3. CASE k <= -1
    <3>1. k * n <= -n
      BY <2>1, <2>3, Multiples
    <3> QED
      BY <2>1, <3>1
  <2> QED
    BY <2>1, <2>2, <2>3
<1>6. k * n = 0
  BY <1>5, Multiples
<1> QED
  BY <1>2, <1>4, <1>6 DEF x

LEMMA Small ==
  ASSUME NEW n \in Nat \ {0}, NEW x \in -n..n - 1
  PROVE  x % n = IF x >= 0 THEN x ELSE x + n
<1>1. CASE x >= 0
  <2>1. (0 * n + x) % n = x
    BY <1>1, Remainder
  <2> QED
    BY <1>1, <2>1
<1>2. CASE x < 0
  <2>1. x + n \in 0..n - 1 /\ -1 * n + (x + n) = x
    BY <1>2
  <2>2. (-1 * n + (x + n)) % n = x + n
    BY <2>1, Remainder
  <2> QED
    BY <1>2, <2>1, <2>2
<1> QED
  BY <1>1, <1>2

\* Whole turns make no difference.
LEMMA Turns ==
  ASSUME NEW n \in Nat \ {0}, NEW k \in Int, NEW x \in Int
  PROVE  (k * n + x) % n = x % n
<1> DEFINE q == x \div n
           r == x % n
<1>1. q \in Int /\ r \in 0..n - 1 /\ x = q * n + r
  BY DivMod
<1>2. k * n \in Int /\ q * n \in Int /\ (k + q) * n = k * n + q * n /\ k + q \in Int
  BY <1>1, Multiples
<1> HIDE DEF q, r
<1>3. k * n + x = (k + q) * n + r
  BY <1>1, <1>2
<1>4. ((k + q) * n + r) % n = r
  BY <1>1, <1>2, Remainder
<1> QED
  BY <1>3, <1>4 DEF r

LEMMA Turn ==
  ASSUME NEW n \in Nat \ {0}, NEW x \in Int
  PROVE  (n + x) % n = x % n
<1>1. PICK k \in Int : k = 1
  OBVIOUS
<1>2. (k * n + x) % n = x % n
  BY Turns
<1> QED
  BY <1>1, <1>2

-----------------------------------------------------------------------------
(***************************************************************************)
(* Days                                                                    *)
(***************************************************************************)

\* Every set of naturals has a least element.
LEMMA Least ==
  ASSUME NEW S, S \subseteq Nat, S # {}
  PROVE  \E s \in S : \A r \in S : s <= r
<1>1. PICK s \in S : \A r \in S : ~(<<r, s>> \in OpToRel(<, Nat))
  BY NatLessThanWellFounded, WFMin
<1>2. \A r \in S : ~(r < s)
  BY <1>1 DEF OpToRel
<1> QED
  BY <1>2

\* A window has a day, and only days of the week.
LEMMA ParsedDays ==
  ASSUME NEW items, items \subseteq Days \X Days
  PROVE  ParseDays(items) \subseteq Days /\ ParseDays(items) # {}
<1> USE OffPeakAssumption
<1>1. CASE items = {}
  <2>1. 0 \in Days
    BY DEF Days
  <2> QED
    BY <1>1, <2>1 DEF ParseDays
<1>2. CASE items # {}
  <2> DEFINE Range(i) == {(i[1] + step) % Week : step \in 0..((i[2] + Week - i[1]) % Week)}
  <2>1. ASSUME NEW i \in items
        PROVE  Range(i) \subseteq Days /\ Range(i) # {}
    <3>1. i[1] \in Int /\ i[2] \in Int
      BY DEF Days
    <3>2. (i[2] + Week - i[1]) % Week \in Nat
      BY <3>1, DivMod
    <3>3. \A step \in 0..((i[2] + Week - i[1]) % Week) : (i[1] + step) % Week \in Days
      <4>1. ASSUME NEW x \in Int PROVE x % Week \in Days
        BY DivMod DEF Days
      <4> QED
        BY <3>1, <3>2, <4>1
    <3>4. 0 \in 0..((i[2] + Week - i[1]) % Week)
      BY <3>2
    <3> QED
      BY <3>3, <3>4
  <2>2. ParseDays(items) = UNION {Range(i) : i \in items}
    BY <1>2 DEF ParseDays
  <2> HIDE DEF Range
  <2> QED
    BY <1>2, <2>1, <2>2
<1> QED
  BY <1>1, <1>2

\* A range that does not wrap is its days.
LEMMA PlainRange ==
  ASSUME NEW a \in Days, NEW b \in Days, a <= b
  PROVE  {(a + step) % Week : step \in 0..((b + Week - a) % Week)} = a..b
<1> USE OffPeakAssumption
<1>1. a \in Int /\ b \in Int /\ 0 <= a /\ b <= Week - 1 /\ Week \in Nat \ {0}
  BY DEF Days
<1> DEFINE n == b - a
<1>2. n \in Int /\ n \in -Week..Week - 1 /\ n >= 0 /\ b + Week - a = Week + n
  BY <1>1
<1> HIDE DEF n
<1>3. (Week + n) % Week = n % Week /\ n % Week = n
  <2>1. (Week + n) % Week = n % Week
    BY <1>1, <1>2, Turn
  <2>2. n % Week = n
    BY <1>1, <1>2, Small
  <2> QED
    BY <2>1, <2>2
<1>4. (b + Week - a) % Week = b - a
  BY <1>2, <1>3 DEF n
<1>5. ASSUME NEW step \in 0..b - a PROVE (a + step) % Week = a + step
  <2> DEFINE x == a + step
  <2>1. x \in -Week..Week - 1 /\ x >= 0
    BY <1>1
  <2> HIDE DEF x
  <2>2. x % Week = x
    BY <1>1, <2>1, Small
  <2> QED
    BY <2>2 DEF x
<1>6. {a + step : step \in 0..b - a} = a..b
  <2>1. ASSUME NEW d \in a..b PROVE d - a \in 0..b - a /\ d = a + (d - a)
    BY <1>1
  <2>2. \A step \in 0..b - a : a + step \in a..b
    BY <1>1
  <2> QED
    BY <2>1, <2>2
<1> QED
  BY <1>4, <1>5, <1>6

\* Every day of a window lies in a run that is written.
LEMMA DayHasRun ==
  ASSUME NEW days, days \subseteq Days, NEW d \in days
  PROVE  \E r \in Runs(days) : d \in r[1]..r[2]
<1> USE OffPeakAssumption
<1> DEFINE A == {x \in 0..d : x..d \subseteq days}
           B == {x \in 0..Week - 1 - d : d..(Week - 1 - x) \subseteq days}
<1>1. d \in Int /\ 0 <= d /\ d <= Week - 1 /\ Week \in Nat
  BY DEF Days
<1>2. A \subseteq Nat /\ d \in A
  <2>1. d..d = {d}
    BY <1>1
  <2> QED
    BY <1>1, <2>1
<1>3. PICK a \in A : \A x \in A : a <= x
  BY <1>2, Least
<1>4. B \subseteq Nat /\ Week - 1 - d \in B
  <2>1. d..(Week - 1 - (Week - 1 - d)) = {d}
    BY <1>1
  <2> QED
    BY <1>1, <2>1
<1>5. PICK c \in B : \A x \in B : c <= x
  BY <1>4, Least
<1> DEFINE b == Week - 1 - c
<1>6. /\ a \in 0..d /\ b \in d..Week - 1 /\ a \in Int /\ b \in Int
      /\ a..d \subseteq days /\ d..b \subseteq days
  BY <1>1, <1>3, <1>5
<1>7. a..b \subseteq days
  <2>1. \A x \in a..b : x \in a..d \/ x \in d..b
    BY <1>1, <1>6
  <2> QED
    BY <1>6, <2>1
<1>8. a - 1 \notin days
  <2> SUFFICES ASSUME a - 1 \in days PROVE FALSE
    OBVIOUS
  <2>1. a - 1 \in 0..d
    BY <1>1, <1>6 DEF Days
  <2>2. \A x \in (a - 1)..d : x = a - 1 \/ x \in a..d
    BY <1>1, <1>6
  <2>3. a - 1 \in A
    BY <1>6, <2>1, <2>2
  <2> QED
    BY <1>3, <1>6, <2>3
<1>9. b + 1 \notin days
  <2> SUFFICES ASSUME b + 1 \in days PROVE FALSE
    OBVIOUS
  <2>1. b + 1 <= Week - 1
    BY <1>6 DEF Days
  <2>2. c \in Int /\ c - 1 \in 0..Week - 1 - d /\ Week - 1 - (c - 1) = b + 1
    BY <1>1, <1>5, <2>1
  <2>3. \A x \in d..(b + 1) : x = b + 1 \/ x \in d..b
    BY <1>1, <1>6
  <2>4. c - 1 \in B
    BY <1>6, <2>2, <2>3
  <2> QED
    BY <1>5, <2>2, <2>4
<1>10. a \in Days /\ b \in Days /\ a <= b /\ d \in a..b
  BY <1>1, <1>6 DEF Days
<1>11. <<a, b>> \in Runs(days)
  BY <1>7, <1>8, <1>9, <1>10 DEF Runs
<1> QED
  BY <1>10, <1>11

\* Days are read as they were written (render_days, parse_days).
LEMMA DaysAreKept ==
  ASSUME NEW days, days \subseteq Days, days # {}
  PROVE  RenderDays(days) \subseteq Days \X Days /\ ParseDays(RenderDays(days)) = days
<1>1. CASE days = Days
  BY <1>1 DEF RenderDays, ParseDays
<1>2. CASE days # Days
  <2>1. RenderDays(days) = Runs(days) /\ Runs(days) \subseteq Days \X Days
    BY <1>2 DEF RenderDays, Runs
  <2>2. Runs(days) # {}
    BY DayHasRun
  <2>3. ASSUME NEW r \in Runs(days)
        PROVE  /\ {(r[1] + step) % Week : step \in 0..((r[2] + Week - r[1]) % Week)} = r[1]..r[2]
               /\ r[1]..r[2] \subseteq days
    <3>1. r[1] \in Days /\ r[2] \in Days /\ r[1] <= r[2] /\ r[1]..r[2] \subseteq days
      BY DEF Runs
    <3> QED
      BY <3>1, PlainRange
  <2>4. ParseDays(Runs(days)) =
          UNION {{(r[1] + step) % Week : step \in 0..((r[2] + Week - r[1]) % Week)} : r \in Runs(days)}
    BY <2>2 DEF ParseDays
  <2>5. ParseDays(Runs(days)) = UNION {r[1]..r[2] : r \in Runs(days)}
    BY <2>3, <2>4
  <2>6. UNION {r[1]..r[2] : r \in Runs(days)} = days
    BY <2>3, DayHasRun
  <2> QED
    BY <2>1, <2>5, <2>6
<1> QED
  BY <1>1, <1>2
-----------------------------------------------------------------------------
(***************************************************************************)
(* Instants                                                                *)
(***************************************************************************)

\* How many days after d the day is.
Since(day, d) == IF day >= d THEN day - d ELSE day - d + Week

\* The time since a window of day d opened at `from', on the circle of the week.
Elapsed(day, minute, d, from) ==
  IF Since(day, d) = 0 /\ minute < from THEN WeekLength + minute - from
  ELSE Since(day, d) * Minutes + minute - from

\* The next day is the one of which it is one day after.
LEMMA NextIsOneSince ==
  ASSUME NEW day \in Days, NEW d \in Days
  PROVE  /\ Since(day, d) \in 0..Week - 1
         /\ Since(day, d) = 0 <=> day = d
         /\ day = (d + 1) % Week <=> Since(day, d) = 1 \/ Week = 1
<1> USE OffPeakAssumption
<1>1. day \in Int /\ d \in Int /\ 0 <= day /\ 0 <= d /\ day <= Week - 1 /\ d <= Week - 1 /\ Week \in Nat \ {0}
  BY DEF Days
<1>2. (d + 1) % Week = IF d = Week - 1 THEN 0 ELSE d + 1
  <2>1. CASE d = Week - 1
    <3>1. (1 * Week + 0) % Week = 0
      BY <1>1, Remainder
    <3> QED
      BY <1>1, <2>1, <3>1
  <2>2. CASE d < Week - 1
    <3> DEFINE x == d + 1
    <3>1. x \in -Week..Week - 1 /\ x >= 0
      BY <1>1, <2>2
    <3> HIDE DEF x
    <3>2. x % Week = x
      BY <1>1, <3>1, Small
    <3> QED
      BY <2>2, <3>2 DEF x
  <2> QED
    BY <1>1, <2>1, <2>2
<1> QED
  BY <1>1, <1>2 DEF Since

\* That time is what the arithmetic of Scheduled computes.
LEMMA ElapsedIsModulo ==
  ASSUME NEW turns \in Int, NEW day \in Days, NEW d \in Days,
         NEW minute \in 0..Minutes - 1, NEW from \in 0..Minutes
  PROVE  ((turns * WeekLength + (day * Minutes + minute)) - (d * Minutes + from)) % WeekLength
           = Elapsed(day, minute, d, from)
<1> USE OffPeakAssumption
<1> DEFINE j == Since(day, d)
           r == Elapsed(day, minute, d, from)
           WL == WeekLength
<1>1. /\ day \in Int /\ d \in Int /\ 0 <= day /\ 0 <= d /\ Week \in Nat \ {0} /\ Minutes \in Nat \ {0}
      /\ minute \in Int /\ from \in Int
  BY DEF Days
<1>2. j \in 0..Week - 1
  BY NextIsOneSince
<1>3. WL = Week * Minutes /\ WL \in Nat \ {0} /\ WL >= Minutes
  BY <1>1, Multiples DEF WeekLength
<1>4. /\ j * Minutes \in Int /\ day * Minutes \in Int /\ d * Minutes \in Int
      /\ (day - d) * Minutes = day * Minutes - d * Minutes
      /\ (Week - 1) * Minutes = WL - Minutes
  BY <1>1, <1>2, <1>3, Multiples
<1>5. j * Minutes = IF day >= d THEN day * Minutes - d * Minutes
                    ELSE day * Minutes - d * Minutes + WL
  BY <1>1, <1>3 DEF Since
<1>6. r \in 0..WL - 1
  <2>1. CASE j = 0 /\ minute < from
    BY <1>1, <1>3, <2>1 DEF Elapsed
  <2>2. CASE j = 0 /\ minute >= from
    BY <1>1, <1>3, <2>2 DEF Elapsed
  <2>3. CASE j >= 1
    <3>1. j * Minutes >= Minutes
      BY <1>1, <1>2, <2>3, Multiples
    <3>2. j * Minutes <= WL - Minutes
      <4>1. (Week - 1 - j) * Minutes \in Int /\ (Week - 1 - j) * Minutes >= 0
        BY <1>1, <1>2
      <4>2. (Week - 1 - j) * Minutes = (Week - 1) * Minutes - j * Minutes
        BY <1>1, <1>2
      <4> QED
        BY <1>4, <4>1, <4>2
    <3>3. r = j * Minutes + minute - from
      BY <2>3 DEF Elapsed
    <3> QED
      BY <1>1, <1>3, <1>4, <3>1, <3>2, <3>3
  <2> QED
    BY <1>1, <1>2, <2>1, <2>2, <2>3
<1> DEFINE q == IF day >= d /\ ~(j = 0 /\ minute < from) THEN 0 ELSE -1
<1>7. q \in Int /\ q * WL = IF day >= d /\ ~(j = 0 /\ minute < from) THEN 0 ELSE -WL
  BY <1>3
<1>8. day * Minutes + minute - (d * Minutes + from) = q * WL + r
  <2>1. CASE j = 0 /\ minute < from
    <3>1. day = d /\ r = WL + minute - from
      BY <2>1, NextIsOneSince DEF Elapsed
    <3> QED
      BY <1>1, <1>3, <1>4, <1>7, <2>1, <3>1
  <2>2. CASE ~(j = 0 /\ minute < from)
    <3>1. r = j * Minutes + minute - from
      BY <2>2 DEF Elapsed
    <3> QED
      BY <1>1, <1>3, <1>4, <1>5, <1>7, <2>2, <3>1
  <2> QED
    BY <2>1, <2>2
<1>9. (turns + q) * WL = turns * WL + q * WL /\ turns * WL \in Int /\ q * WL \in Int
  BY <1>3, Multiples
<1> DEFINE x == (turns * WL + (day * Minutes + minute)) - (d * Minutes + from)
<1> HIDE DEF j, q, r, WL
<1>10. x = (turns + q) * WL + r
  <2>1. r \in Int /\ d * Minutes + from \in Int /\ day * Minutes + minute \in Int
    BY <1>1, <1>4, <1>6
  <2>2. x = (turns * WL) + ((day * Minutes + minute) - (d * Minutes + from))
    BY <1>9, <2>1 DEF x
  <2>3. (day * Minutes + minute) - (d * Minutes + from) = q * WL + r
    <3> DEFINE a == day * Minutes
               c == d * Minutes
               e == q * WL
    <3>1. a \in Int /\ c \in Int /\ e \in Int /\ minute \in Int /\ from \in Int
      BY <1>1, <1>4, <1>9
    <3>2. a + minute - (c + from) = e + r
      BY <1>8
    <3> HIDE DEF a, c, e
    <3>3. (a + minute) - (c + from) = e + r
      BY <2>1, <3>1, <3>2
    <3> QED
      BY <3>3 DEF a, c, e
  <2> QED
    BY <1>9, <2>1, <2>2, <2>3
<1>11. ((turns + q) * WL + r) % WL = r
  <2> DEFINE t == turns + q
  <2>1. t \in Int
    BY <1>7
  <2>2. WL \in Nat \ {0} /\ r \in 0..WL - 1
    BY <1>3, <1>6
  <2> HIDE DEF t
  <2>3. (t * WL + r) % WL = r
    BY <2>1, <2>2, Remainder
  <2> QED
    BY <2>3 DEF t
<1> QED
  BY <1>10, <1>11 DEF r, WL

\* A declared window and its halves cover the same instants of the week (TryFrom,
\* contains).
LEMMA HalvesCover ==
  ASSUME NEW s \in Spec, NEW day \in Days, NEW minute \in 0..Minutes - 1
  PROVE  (\E w \in Halves(s) : day \in w.days /\ w.from <= minute /\ minute < w.to)
           <=> \E d \in ParseDays(s.items) : Elapsed(day, minute, d, s.from) < Lasts(s)
<1> USE OffPeakAssumption
<1> DEFINE D == ParseDays(s.items)
           Within(d) == Elapsed(day, minute, d, s.from) < Lasts(s)
           Early(d) == day = d /\ s.from <= minute
           Late(d)  == day = (d + 1) % Week /\ minute < s.to
<1>1. /\ s.items \subseteq Days \X Days /\ s.from \in 0..Minutes /\ s.to \in 0..Minutes
      /\ D \subseteq Days
  BY ParsedDays DEF Spec
<1>2. /\ s.from \in Int /\ s.to \in Int /\ minute \in Int /\ minute < Minutes /\ 0 <= minute
      /\ Minutes \in Nat \ {0} /\ Week \in Nat \ {0}
  BY <1>1
<1>3. /\ WeekLength \in Nat \ {0} /\ WeekLength >= Minutes
      /\ Week = 1 => WeekLength = Minutes
      /\ Week >= 2 => WeekLength >= Minutes + Minutes
  BY <1>2, Multiples DEF WeekLength
<1>4. ASSUME NEW d \in D
      PROVE  /\ d \in Days /\ Since(day, d) \in 0..Week - 1
             /\ Since(day, d) = 0 <=> day = d
             /\ day = (d + 1) % Week <=> Since(day, d) = 1 \/ Week = 1
             /\ Since(day, d) * Minutes \in Int
             /\ Since(day, d) = 0 => Since(day, d) * Minutes = 0
             /\ Since(day, d) = 1 => Since(day, d) * Minutes = Minutes
             /\ Since(day, d) >= 2 => Since(day, d) * Minutes >= Minutes + Minutes
  <2>1. d \in Days
    BY <1>1
  <2>2. /\ Since(day, d) \in 0..Week - 1
        /\ Since(day, d) = 0 <=> day = d
        /\ day = (d + 1) % Week <=> Since(day, d) = 1 \/ Week = 1
    BY <2>1, NextIsOneSince
  <2>3. Since(day, d) \in Int
    BY <2>2
  <2> QED
    BY <1>2, <2>1, <2>2, <2>3, Multiples
<1>5. CASE s.from < s.to
  <2>1. ASSUME NEW d \in D PROVE Within(d) <=> Early(d) /\ minute < s.to
    <3> DEFINE j == Since(day, d)
    <3>1. Lasts(s) = s.to - s.from
      BY <1>5 DEF Lasts
    <3>2. CASE j = 0
      BY <1>1, <1>2, <1>3, <1>4, <1>5, <3>1, <3>2 DEF Elapsed
    <3>3. CASE j >= 1
      <4>1. j * Minutes >= Minutes /\ j * Minutes \in Int /\ day # d
        BY <1>2, <1>4, <3>3
      <4>2. Elapsed(day, minute, d, s.from) = j * Minutes + minute - s.from
        BY <3>3 DEF Elapsed
      <4> QED
        BY <1>1, <1>2, <3>1, <4>1, <4>2
    <3> QED
      BY <1>4, <3>2, <3>3
  <2>2. Halves(s) = {[days |-> D, from |-> s.from, to |-> s.to]}
    BY <1>5 DEF Halves
  <2>3. (\E w \in Halves(s) : day \in w.days /\ w.from <= minute /\ minute < w.to)
          <=> day \in D /\ s.from <= minute /\ minute < s.to
    BY <2>2
  <2> HIDE DEF D
  <2> QED
    BY <2>1, <2>3 DEF D
<1>6. CASE ~(s.from < s.to)
  <2>1. ASSUME NEW d \in D PROVE Within(d) <=> Early(d) \/ Late(d)
    <3> DEFINE j == Since(day, d)
    <3>1. Lasts(s) = s.to - s.from + Minutes
      BY <1>6 DEF Lasts
    <3>2. CASE j = 0 /\ minute < s.from
      <4>1. Elapsed(day, minute, d, s.from) = WeekLength + minute - s.from
        BY <3>2 DEF Elapsed
      <4>2. day = d /\ (day = (d + 1) % Week <=> Week = 1)
        BY <1>4, <3>2
      <4>3. CASE Week = 1
        BY <1>1, <1>2, <1>3, <3>1, <3>2, <4>1, <4>2, <4>3
      <4>4. CASE Week >= 2
        BY <1>1, <1>2, <1>3, <3>1, <3>2, <4>1, <4>2, <4>4
      <4> QED
        BY <1>2, <4>3, <4>4
    <3>3. CASE j = 0 /\ minute >= s.from
      BY <1>1, <1>2, <1>4, <3>1, <3>3 DEF Elapsed
    <3>4. CASE j >= 1
      <4>1. Elapsed(day, minute, d, s.from) = j * Minutes + minute - s.from
        BY <3>4 DEF Elapsed
      <4>2. day # d /\ Week >= 2 /\ (day = (d + 1) % Week <=> j = 1)
        BY <1>2, <1>4, <3>4
      <4>3. CASE j = 1
        BY <1>1, <1>2, <1>4, <3>1, <4>1, <4>2, <4>3
      <4>4. CASE j >= 2
        <5>1. j * Minutes >= Minutes + Minutes /\ j * Minutes \in Int
          BY <1>4, <4>4
        <5> QED
          BY <1>1, <1>2, <3>1, <4>1, <4>2, <4>4, <5>1
      <4> QED
        BY <1>4, <3>4, <4>3, <4>4
    <3> QED
      BY <1>2, <1>4, <3>2, <3>3, <3>4
  <2>2. Halves(s) = {[days |-> D, from |-> s.from, to |-> Minutes],
                     [days |-> NextDay(D), from |-> 0, to |-> s.to]}
    BY <1>6 DEF Halves
  <2>3. (\E w \in Halves(s) : day \in w.days /\ w.from <= minute /\ minute < w.to)
          <=> \/ day \in D /\ s.from <= minute
              \/ day \in NextDay(D) /\ minute < s.to
    BY <1>2, <2>2
  <2> HIDE DEF D
  <2> QED
    BY <2>1, <2>3 DEF D, NextDay
<1> QED
  BY <1>5, <1>6

\* A schedule that is loaded covers the instants it was declared for.
LEMMA LoadCovers ==
  ASSUME NEW specs, specs \subseteq Spec, NEW at \in Int,
         NEW offset \in Int, offset = ParseOffset(declaredTz)
  PROVE  Contains(Load(specs), at, offset) <=> Scheduled(specs, at)
<1> USE OffPeakAssumption
<1> DEFINE local == at + offset
           now == at + offset + Thursday * Minutes
           whole == local \div Minutes
           days == whole + Thursday
           day == days % Week
           minute == local % Minutes
           turns == days \div Week
           Covers(s) == \E w \in Halves(s) : day \in w.days /\ w.from <= minute /\ minute < w.to
           Declared(s) == \E d \in ParseDays(s.items) :
                            (now - (d * Minutes + s.from)) % WeekLength < Lasts(s)
<1>1. local \in Int /\ Thursday \in Int /\ Minutes \in Nat \ {0} /\ Week \in Nat \ {0}
  BY DEF Days
<1>2. whole \in Int /\ minute \in 0..Minutes - 1 /\ local = whole * Minutes + minute
  BY <1>1, DivMod
<1>3. days \in Int /\ days = whole + Thursday
  BY <1>1, <1>2
<1>4. turns \in Int /\ day \in Days /\ days = turns * Week + day
  BY <1>1, <1>3, DivMod DEF Days
<1>5. now = local + Thursday * Minutes
  BY <1>1
<1>6. Contains(Load(specs), at, offset) <=> \E s \in specs : Covers(s)
  BY DEF Contains, Load
<1>7. Scheduled(specs, at) <=> \E s \in specs : Declared(s)
  BY Zenon DEF Scheduled
<1> HIDE DEF local, now, whole, days, day, minute, turns
<1>8. now = turns * WeekLength + (day * Minutes + minute)
  <2>1. day \in Int
    BY <1>4 DEF Days
  <2>2. /\ whole * Minutes \in Int /\ Thursday * Minutes \in Int
        /\ days * Minutes = whole * Minutes + Thursday * Minutes
    BY <1>1, <1>2, <1>3
  <2>3. /\ turns * WeekLength \in Int /\ day * Minutes \in Int
        /\ days * Minutes = turns * WeekLength + day * Minutes
    BY <1>1, <1>4, <2>1 DEF WeekLength
  <2> QED
    BY <1>1, <1>2, <1>5, <2>2, <2>3
<1>9. ASSUME NEW s \in specs PROVE Covers(s) <=> Declared(s)
  <2>1. s \in Spec /\ s.from \in 0..Minutes /\ ParseDays(s.items) \subseteq Days
    BY ParsedDays DEF Spec
  <2>2. Covers(s) <=> \E d \in ParseDays(s.items) : Elapsed(day, minute, d, s.from) < Lasts(s)
    BY <1>2, <1>4, <2>1, HalvesCover
  <2>3. ASSUME NEW d \in ParseDays(s.items)
        PROVE  (now - (d * Minutes + s.from)) % WeekLength = Elapsed(day, minute, d, s.from)
    <3>1. ((turns * WeekLength + (day * Minutes + minute)) - (d * Minutes + s.from)) % WeekLength
            = Elapsed(day, minute, d, s.from)
      BY <1>2, <1>4, <2>1, ElapsedIsModulo
    <3> QED
      BY <1>8, <3>1, Zenon
  <2> QED
    BY <2>2, <2>3
<1> QED
  BY <1>6, <1>7, <1>9

-----------------------------------------------------------------------------
(***************************************************************************)
(* Rewriting                                                               *)
(***************************************************************************)

\* A window as it is kept in memory: some days, and two times in order.
Normal(w) ==
  /\ w = [days |-> w.days, from |-> w.from, to |-> w.to]
  /\ w.days \subseteq Days /\ w.days # {}
  /\ w.from \in 0..Minutes /\ w.to \in 0..Minutes /\ w.from <= w.to

LEMMA LoadedIsNormal ==
  ASSUME NEW specs, specs \subseteq Spec, NEW w \in Load(specs)
  PROVE  Normal(w)
<1> USE OffPeakAssumption
<1>1. PICK s \in specs : w \in Halves(s)
  BY DEF Load
<1> DEFINE D == ParseDays(s.items)
<1>2. s.items \subseteq Days \X Days /\ s.from \in 0..Minutes /\ s.to \in 0..Minutes
  BY DEF Spec
<1>3. D \subseteq Days /\ D # {}
  BY <1>2, ParsedDays
<1>4. NextDay(D) \subseteq Days /\ NextDay(D) # {}
  <2>1. ASSUME NEW d \in D PROVE (d + 1) % Week \in Days
    <3>1. d + 1 \in Int
      BY <1>3 DEF Days
    <3> QED
      BY <3>1, DivMod DEF Days
  <2> QED
    BY <1>3, <2>1 DEF NextDay
<1>5. \/ s.from < s.to /\ w = [days |-> D, from |-> s.from, to |-> s.to]
      \/ w = [days |-> D, from |-> s.from, to |-> Minutes]
      \/ w = [days |-> NextDay(D), from |-> 0, to |-> s.to]
  BY <1>1 DEF Halves
<1> HIDE DEF D
<1> QED
  BY <1>2, <1>3, <1>4, <1>5 DEF Normal

\* What is written is what is loaded again, if it loads (From<Windows>, TryFrom).
LEMMA RenderThenLoad ==
  ASSUME NEW W, \A w \in W : Normal(w), Readable(Render(W))
  PROVE  Load(Render(W)) = W
<1> DEFINE Written(w) == [items |-> RenderDays(w.days), from |-> w.from, to |-> w.to]
<1>1. ASSUME NEW w \in W PROVE Halves(Written(w)) = {w}
  <2>1. ParseDays(RenderDays(w.days)) = w.days
    BY DaysAreKept DEF Normal
  <2>2. w.from # w.to
    <3>1. Written(w) \in Render(W)
      BY DEF Render
    <3>2. Written(w).from # Written(w).to
      BY <3>1 DEF Readable
    <3> QED
      BY <3>2
  <2>3. w.from < w.to
    BY <2>2, OffPeakAssumption DEF Normal
  <2>4. Halves(Written(w)) = {[days |-> w.days, from |-> w.from, to |-> w.to]}
    BY <2>1, <2>3 DEF Halves
  <2> QED
    BY <2>4 DEF Normal
<1>2. Render(W) = {Written(w) : w \in W}
  BY DEF Render
<1> HIDE DEF Written
<1>3. Load(Render(W)) = UNION {Halves(Written(w)) : w \in W}
  BY <1>2 DEF Load
<1> QED
  BY <1>1, <1>3

\* An offset is read as it was written (From<Offset>, TryFrom), and written alike.
LEMMA OffsetIsKept ==
  ASSUME NEW t \in OffsetText
  PROVE  /\ ParseOffset(t) \in Int
         /\ OffsetFits(t) => /\ Resaved(t) \in OffsetText /\ OffsetFits(Resaved(t))
                            /\ ParseOffset(Resaved(t)) = ParseOffset(t)
                            /\ Resaved(Resaved(t)) = Resaved(t)
<1> USE OffPeakAssumption
<1> DEFINE o == ParseOffset(t)
           m == IF o < 0 THEN -o ELSE o
           h == m \div Hour
           k == m % Hour
<1>1. /\ t.hours \in Nat /\ t.minutes \in Nat /\ t.hours * Hour \in Nat
      /\ t.sign \in {"+", "-", "Z", "absent"}
  BY DEF OffsetText
<1>2. o \in Int /\ m \in Nat
  BY <1>1 DEF ParseOffset
<1>3. /\ h \in Nat /\ k \in Nat /\ k < Hour /\ h * Hour \in Int /\ h * Hour + k = m
      /\ -(h * Hour + k) \in Int
  <2> HIDE DEF o, m
  <2>1. h \in Int /\ k \in 0..Hour - 1 /\ m = h * Hour + k
    BY <1>2, DivMod
  <2> HIDE DEF h, k
  <2>2. h * Hour \in Int /\ (h <= -1 => h * Hour <= -Hour)
    BY <2>1, Multiples
  <2> DEFINE z == h * Hour
  <2> HIDE DEF z
  <2>3. z \in Int /\ (h <= -1 => z <= -Hour) /\ m = z + k
    BY <2>1, <2>2 DEF z
  <2>4. h \in Nat /\ z + k \in Int /\ -(z + k) \in Int
    BY <1>2, <2>1, <2>3
  <2> QED
    BY <2>1, <2>2, <2>3, <2>4 DEF z
<1>4. OffsetFits(t) => m <= Furthest
  BY <1>1 DEF OffsetFits, ParseOffset
<1>5. ASSUME OffsetFits(t), t.sign # "absent"
      PROVE  /\ Resaved(t) \in OffsetText /\ OffsetFits(Resaved(t))
             /\ ParseOffset(Resaved(t)) = o /\ Resaved(t).sign # "absent"
  <2>1. CASE o = 0
    <3>1. Resaved(t) = [sign |-> "Z", hours |-> 0, minutes |-> 0]
      BY <1>5, <2>1 DEF Resaved, RenderOffset
    <3> QED
      BY <2>1, <3>1 DEF OffsetText, OffsetFits, ParseOffset
  <2>2. CASE o # 0
    <3>1. Resaved(t) = [sign |-> IF o < 0 THEN "-" ELSE "+", hours |-> h, minutes |-> k]
      BY <1>5, <2>2 DEF Resaved, RenderOffset
    <3> HIDE DEF h, k, o
    <3>2. Resaved(t) \in OffsetText /\ OffsetFits(Resaved(t)) /\ Resaved(t).sign # "absent"
      BY <1>3, <1>4, <1>5, <3>1 DEF OffsetText, OffsetFits
    <3>3. ParseOffset(Resaved(t)) = IF o < 0 THEN -(h * Hour + k) ELSE h * Hour + k
      BY <3>1 DEF ParseOffset
    <3> QED
      BY <1>2, <1>3, <3>2, <3>3
  <2> QED
    BY <2>1, <2>2
<1>6. CASE t.sign = "absent"
  BY <1>2, <1>6 DEF Resaved
<1>7. CASE t.sign # "absent"
  BY <1>2, <1>5, <1>7 DEF Resaved
<1> QED
  BY <1>6, <1>7

-----------------------------------------------------------------------------
(***************************************************************************)
(* The file                                                                *)
(***************************************************************************)

\* The file has the declared windows and offset, or what the first pull has written.
OffPeakInv ==
  /\ declared \in Schedules /\ declaredTz \in OffsetText
  /\ multiplier \in Int /\ rewritten \in BOOLEAN
  /\ text = IF rewritten THEN Render(Load(declared)) ELSE declared
  /\ tz = IF rewritten THEN Resaved(declaredTz) ELSE declaredTz
  /\ rewritten => OffsetFits(declaredTz)

\* ... and means the same either way, as long as it loads.
LEMMA LoadsAsDeclared ==
  ASSUME OffPeakInv, Readable(text)
  PROVE  Load(text) = Load(declared)
<1>1. declared \subseteq Spec
  BY OffPeakAssumption DEF OffPeakInv
<1>2. CASE rewritten
  <2>1. text = Render(Load(declared)) /\ \A w \in Load(declared) : Normal(w)
    BY <1>1, <1>2, LoadedIsNormal DEF OffPeakInv
  <2> QED
    BY <2>1, RenderThenLoad
<1> QED
  BY <1>2 DEF OffPeakInv

LEMMA OffsetStays ==
  ASSUME OffPeakInv
  PROVE  /\ ParseOffset(tz) = ParseOffset(declaredTz) /\ ParseOffset(tz) \in Int
         /\ OffsetFits(tz) <=> OffsetFits(declaredTz)
         /\ OffsetFits(tz) => Resaved(tz) = Resaved(declaredTz)
  BY OffsetIsKept DEF OffPeakInv

LEMMA OffPeakInvariance == Schedule => []OffPeakInv
<1>1. Init => OffPeakInv
  BY OffPeakAssumption DEF Init, OffPeakInv
<1>2. OffPeakInv /\ [Next]_vars => OffPeakInv'
  <2> SUFFICES ASSUME OffPeakInv, [Next]_vars PROVE OffPeakInv'
    OBVIOUS
  <2>1. CASE Rewrite
    <3>1. text' = Render(Load(declared))
      BY <2>1, LoadsAsDeclared DEF Rewrite
    <3>2. tz' = Resaved(declaredTz) /\ OffsetFits(declaredTz)
      BY <2>1, OffsetStays DEF Rewrite
    <3> QED
      BY <2>1, <3>1, <3>2 DEF Rewrite, OffPeakInv
  <2>2. CASE Refuse \/ UNCHANGED vars
    BY <2>2 DEF Refuse, vars, OffPeakInv
  <2> QED
    BY <2>1, <2>2 DEF Next
<1> QED
  BY <1>1, <1>2, PTL DEF Schedule

\* Every instant of every week is billed by the schedule as it was declared, whatever
\* the pulls have written since (Windows::contains, factor_at).
EveryInstantIsBilled ==
  Readable(text) /\ OffsetFits(tz) =>
    \A at \in Int : FactorAt(at) = Discount(Scheduled(declared, at))

THEOREM EveryInstantTheorem == Schedule => []EveryInstantIsBilled
<1>1. OffPeakInv => EveryInstantIsBilled
  <2> SUFFICES ASSUME OffPeakInv, Readable(text), OffsetFits(tz), NEW at \in Int
               PROVE  FactorAt(at) = Discount(Scheduled(declared, at))
    BY DEF EveryInstantIsBilled
  <2>1. /\ declared \subseteq Spec
        /\ ParseOffset(tz) \in Int /\ ParseOffset(tz) = ParseOffset(declaredTz)
    BY OffPeakAssumption, OffsetStays DEF OffPeakInv
  <2>2. Contains(Load(text), at, ParseOffset(tz)) <=> Scheduled(declared, at)
    BY <2>1, LoadsAsDeclared, LoadCovers
  <2> QED
    BY <2>2 DEF FactorAt, Discount
<1> QED
  BY <1>1, OffPeakInvariance, PTL

\* In particular those of the two weeks around the epoch.
THEOREM BilledTheorem == Schedule => []BilledAsDeclared
<1>1. EveryInstantIsBilled => BilledAsDeclared
  <2>1. WeekLength \in Int
    BY OffPeakAssumption DEF WeekLength
  <2>2. -WeekLength..WeekLength - 1 \subseteq Int
    BY <2>1
  <2> QED
    BY <2>2 DEF EveryInstantIsBilled, BilledAsDeclared
<1> QED
  BY <1>1, EveryInstantTheorem, PTL

\* The second pull writes what the first one wrote (From<Windows>, TryFrom).
THEOREM SettlingTheorem == Schedule => RewritingSettles
<1>1. OffPeakInv /\ [Next]_vars => [rewritten => text' = text /\ tz' = tz]_vars
  <2> SUFFICES ASSUME OffPeakInv, [Next]_vars, rewritten PROVE text' = text /\ tz' = tz
    OBVIOUS
  <2>1. CASE Rewrite
    BY <2>1, LoadsAsDeclared, OffsetStays DEF Rewrite, OffPeakInv
  <2>2. CASE Refuse \/ UNCHANGED vars
    BY <2>2 DEF Refuse, vars
  <2> QED
    BY <2>1, <2>2 DEF Next
<1> QED
  BY <1>1, OffPeakInvariance, PTL DEF Schedule, RewritingSettles

\* Windows that end at midnight, or open at the very end of the day, are the only ones
\* that a pull makes unreadable: without them what loads keeps loading (TryFrom,
\* From<Windows>).
THEOREM ReadableTheorem ==
  ASSUME \A specs \in Schedules : \A s \in specs : s.to # 0 /\ s.from # Minutes
  PROVE  Schedule => []StaysReadable
<1>1. OffPeakInv => StaysReadable
  <2> SUFFICES ASSUME OffPeakInv, Readable(declared) PROVE Readable(text)
    BY OffsetStays DEF StaysReadable
  <2>1. declared \subseteq Spec /\ \A s \in declared : s.to # 0 /\ s.from # Minutes /\ s.from # s.to
    BY OffPeakAssumption DEF OffPeakInv, Readable
  <2>2. ASSUME NEW s \in declared, NEW w \in Halves(s) PROVE w.from # w.to
    <3>1. s.from \in 0..Minutes /\ s.to \in 0..Minutes
      BY <2>1 DEF Spec
    <3> QED
      BY <2>1, <3>1 DEF Halves
  <2>3. Readable(Render(Load(declared)))
    BY <2>2 DEF Readable, Render, Load
  <2> QED
    BY <2>3 DEF OffPeakInv
<1> QED
  BY <1>1, OffPeakInvariance, PTL
=============================================================================
