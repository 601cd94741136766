--------------------------- MODULE BootMenuProofs ---------------------------
(***************************************************************************)
(* Proofs about BootMenu for every card, chip, page and any number of      *)
(* failing calls.                                                          *)
(***************************************************************************)
EXTENDS BootMenu, FiniteSetTheorems, SequenceTheorems, WellFoundedInduction, TLAPS

(* Clocks and times. *)
\* Times that chrono accepts, in the bytes the two sides exchange.
IsTime(tp) == tp \in TimePoints /\ IsDateTime(fromTimePoint(tp))

\* A month has 28 to 31 days.
LEMMA DaysInAMonth ==
  ASSUME NEW y, NEW m PROVE DaysIn(y, m) \in 28..31
BY DEF DaysIn

\* number_from_monday counts from one to seven.
LEMMA WeekDayInRange ==
  ASSUME NEW t, IsDateTime(t), t.year \in Int
  PROVE  WeekDay(t) \in 1..7
<1>. DEFINE shift == <<0, 3, 2, 5, 0, 3, 5, 1, 4, 6, 2, 4>>
            y == IF t.month < 3 THEN t.year - 1 ELSE t.year
            sum == y + (y \div 4) - (y \div 100) + (y \div 400) + shift[t.month] + t.date
<1>1. t.month \in 1..12 /\ t.date \in Int
  BY DaysInAMonth DEF IsDateTime
<1>2. shift[t.month] \in Int
  BY <1>1
<1>3. y \in Int
  BY <1>1
<1>4. sum \in Int
  BY <1>1, <1>2, <1>3
<1>5. sum % 7 \in 0..6
  BY <1>4
<1>6. WeekDay(t) = IF sum % 7 = 0 THEN 7 ELSE sum % 7
  BY DEF WeekDay
<1>. QED
  BY <1>5, <1>6

\* Two decimal digits in a byte, and back.
LEMMA BcdThereAndBack ==
  ASSUME NEW n \in 0..99
  PROVE  /\ bin2bcd(n) \in Byte /\ bcd2bin(bin2bcd(n)) = n
         /\ n <= 12 => bin2bcd(n) % 32 = bin2bcd(n)
         /\ n <= 31 => bin2bcd(n) % 64 = bin2bcd(n)
         /\ n <= 59 => bin2bcd(n) % 128 = bin2bcd(n)
BY DEF bin2bcd, bcd2bin, Byte

\* The numbers in a byte, read as two digits.
LEMMA BcdOfByte ==
  ASSUME NEW b \in Byte PROVE bcd2bin(b) \in 0..165
BY DEF bcd2bin, Byte

\* A time of chrono has its fields in their ranges.
LEMMA DateTimeFields ==
  ASSUME NEW t, IsDateTime(t)
  PROVE  t.month \in 1..12 /\ t.date \in 1..31 /\ t.hour \in 0..23 /\ t.minute \in 0..59
BY DaysInAMonth DEF IsDateTime

\* set_datetime writes bytes.
LEMMA SetIsChip ==
  ASSUME NEW c \in Chips, NEW t, IsDateTime(t), Settable(t)
  PROVE  set_datetime(c, t) \in Chips
<1>1. t.year - 2000 \in 0..99 /\ t.year \in Int
  BY DEF Settable
<1>2. t.month \in 0..99 /\ t.date \in 0..99 /\ t.hour \in 0..99 /\ t.minute \in 0..99
  BY DateTimeFields
<1>3. /\ bin2bcd(t.year - 2000) \in Byte /\ bin2bcd(t.month) \in Byte
      /\ bin2bcd(t.date) \in Byte /\ bin2bcd(t.hour) \in Byte /\ bin2bcd(t.minute) \in Byte
  BY <1>1, <1>2, BcdThereAndBack
<1>4. WeekDay(t) \in 0..7
  BY <1>1, WeekDayInRange
<1>5. TakenForRunning(c) \in BOOLEAN /\ c.vbat \in BOOLEAN
  BY DEF TakenForRunning, Chips
<1>. HIDE DEF TakenForRunning, bin2bcd, WeekDay, Byte
<1>. QED
  BY <1>3, <1>4, <1>5 DEF set_datetime, Chips

\* A chip that was set says the time it was set to.
LEMMA SetIsRead ==
  ASSUME NEW c, NEW t, IsDateTime(t), Settable(t),
         t = [year |-> t.year, month |-> t.month, date |-> t.date,
              hour |-> t.hour, minute |-> t.minute]
  PROVE  datetime(set_datetime(c, t)) = t
<1>. DEFINE d == set_datetime(c, t)
<1>1. /\ d.year = bin2bcd(t.year - 2000) /\ d.month = bin2bcd(t.month)
      /\ d.date = bin2bcd(t.date) /\ d.hour = bin2bcd(t.hour) /\ d.minute = bin2bcd(t.minute)
  BY DEF set_datetime
<1>2. t.year - 2000 \in 0..99 /\ t.year \in Int
  BY DEF Settable
<1>3. /\ t.month \in 0..99 /\ t.date \in 0..99 /\ t.hour \in 0..99 /\ t.minute \in 0..99
      /\ t.month <= 12 /\ t.date <= 31 /\ t.hour <= 31 /\ t.minute <= 59
  BY DateTimeFields
<1>4. /\ bcd2bin(d.year) + 2000 = t.year
      /\ bcd2bin(d.month % 32) = t.month /\ bcd2bin(d.date % 64) = t.date
      /\ bcd2bin(d.hour % 64) = t.hour /\ bcd2bin(d.minute % 128) = t.minute
  BY <1>1, <1>2, <1>3, BcdThereAndBack
<1>. HIDE DEF d
<1>5. datetime(d) = IF IsDateTime(t) THEN t ELSE NoDate
  BY <1>4 DEF datetime
<1>. QED
  BY <1>5 DEF d

\* What datetime finds in the registers is a date from 2000 on, or none.
LEMMA ReadIsTime ==
  ASSUME NEW c \in Chips
  PROVE  IsDateTime(datetimeOrDefault(c)) /\ datetimeOrDefault(c).year \in 1970..2225
<1>. DEFINE t == [year |-> bcd2bin(c.year) + 2000, month |-> bcd2bin(c.month % 32),
                  date |-> bcd2bin(c.date % 64), hour |-> bcd2bin(c.hour % 64),
                  minute |-> bcd2bin(c.minute % 128)]
<1>1. datetime(c) = IF IsDateTime(t) THEN t ELSE NoDate
  BY DEF datetime
<1>2. bcd2bin(c.year) \in 0..165
  BY BcdOfByte DEF Chips
<1>3. IsDateTime(Epoch) /\ Epoch.year = 1970
  BY DEF IsDateTime, Epoch, NoDate, DaysIn
<1>4. t.year \in 2000..2165
  BY <1>2
<1>5. CASE datetimeOrDefault(c) = Epoch
  BY <1>3, <1>5
<1>6. CASE datetimeOrDefault(c) # Epoch
  <2>1. datetimeOrDefault(c) = t /\ IsDateTime(t)
    BY <1>1, <1>6 DEF datetimeOrDefault
  <2>. QED
    BY <2>1, <1>4
<1>. QED
  BY <1>5, <1>6

\* A time of chrono within the bytes is exchanged without loss ...
LEMMA ToTimePointIsTime ==
  ASSUME NEW t, IsDateTime(t), t.year \in 1970..2225
  PROVE  IsTime(toTimePoint(t))
<1>1. t.month \in 1..12 /\ t.date \in 1..31 /\ t.hour \in 0..23 /\ t.minute \in 0..59
  BY DateTimeFields
<1>. DEFINE tp == toTimePoint(t)  u == fromTimePoint(tp)
<1>2. tp = [year |-> t.year - 1970, month |-> t.month - 1, day |-> t.date - 1,
            hour |-> t.hour, minute |-> t.minute]
  BY DEF toTimePoint
<1>3. tp \in TimePoints
  BY <1>1, <1>2 DEF TimePoints
<1>4. u.year = t.year /\ u.month = t.month /\ u.date = t.date /\ u.hour = t.hour
      /\ u.minute = t.minute
  BY <1>1, <1>2 DEF fromTimePoint
<1>5. IsDateTime(u)
  BY <1>4 DEF IsDateTime
<1>. QED
  BY <1>3, <1>5 DEF IsTime

\* ... and back.
LEMMA TimePointThereAndBack ==
  ASSUME NEW tp \in TimePoints
  PROVE  toTimePoint(fromTimePoint(tp)) = tp
BY DEF toTimePoint, fromTimePoint, TimePoints

\* The start of the clock leaves bytes in its registers, whatever power loss left there.
LEMMA StartUpIsChip ==
  ASSUME NEW c \in Chips
  PROVE  StartUp(c, BuiltTime) \in Chips
<1>1. Backed(c) \in Chips
  <2>1. CASE c.vbat
    BY <2>1 DEF Backed
  <2>2. CASE ~c.vbat
    <3>. DEFINE b == [c EXCEPT !.vbat = TRUE]
                d == [b EXCEPT !.pwrfail = FALSE]
                e == [d EXCEPT !.day = 1]
    <3>0. Backed(c) = e
      BY <2>2 DEF Backed
    <3>1. b \in Chips
      BY DEF Chips
    <3>. HIDE DEF b
    <3>2. d \in Chips
      BY <3>1 DEF Chips
    <3>. HIDE DEF d
    <3>3. e \in Chips
      BY <3>2 DEF Chips
    <3>. HIDE DEF e
    <3>. QED
      BY <3>0, <3>3
  <2>. QED
    BY <2>1, <2>2
<1>2. CaughtUp(Backed(c), BuiltTime) \in Chips
  BY <1>1, SetIsChip, BootMenuAssumption DEF CaughtUp
<1>. QED
  BY <1>2 DEF StartUp, Started, Chips

\* The menu and chrono agree on the length of a month.
LEMMA MonthsAgree ==
  ASSUME NEW tp, tp.year \in Nat, tp.month \in 0..11
  PROVE  maxDay(tp) + 1 = DaysIn(tp.year + 1970, tp.month + 1)
<1>. DEFINE y == tp.year + 1970  m == tp.month + 1
<1>1. m \in 1..12 /\ y \in Nat /\ 1970 + tp.year = y
  OBVIOUS
<1>2. CASE tp.month = 1
  BY <1>2 DEF maxDay, DaysIn, IsLeap
<1>3. CASE tp.month # 1
  BY <1>3 DEF maxDay, DaysIn
<1>. QED
  BY <1>2, <1>3

\* What sanitizing makes of a time on the screen.
LEMMA Sanitized ==
  ASSUME NEW tp \in TimePoints
  PROVE  LET month == LowerOf(tp.month, 11)
             day == maxDay([tp EXCEPT !.month = month])
         IN  sanitizeRTCReal(tp) =
               [year |-> tp.year, month |-> month, day |-> LowerOf(tp.day, day),
                hour |-> LowerOf(tp.hour, 23), minute |-> LowerOf(tp.minute, 59)]
<1>. DEFINE month == LowerOf(tp.month, 11)
            day == maxDay([tp EXCEPT !.month = month])
            a == [tp EXCEPT !.month = month]
            b == [a EXCEPT !.day = LowerOf(@, day)]
            c == [b EXCEPT !.hour = LowerOf(@, 23)]
            d == [c EXCEPT !.minute = LowerOf(@, 59)]
<1>1. sanitizeRTCReal(tp) = d
  BY DEF sanitizeRTCReal
<1>. HIDE DEF month
<1>2. a = [year |-> tp.year, month |-> month, day |-> tp.day, hour |-> tp.hour,
           minute |-> tp.minute]
  BY DEF TimePoints
<1>. HIDE DEF a, day
<1>3. b = [year |-> tp.year, month |-> month, day |-> LowerOf(tp.day, day), hour |-> tp.hour,
           minute |-> tp.minute]
  BY <1>2
<1>. HIDE DEF b
<1>4. c = [year |-> tp.year, month |-> month, day |-> LowerOf(tp.day, day),
           hour |-> LowerOf(tp.hour, 23), minute |-> tp.minute]
  BY <1>3
<1>. HIDE DEF c
<1>5. d = [year |-> tp.year, month |-> month, day |-> LowerOf(tp.day, day),
           hour |-> LowerOf(tp.hour, 23), minute |-> LowerOf(tp.minute, 59)]
  BY <1>4
<1>. HIDE DEF d
<1>. QED
  BY <1>1, <1>5 DEF month, day

\* It is a time of chrono.
LEMMA SanitizedIsTime ==
  ASSUME NEW tp \in TimePoints
  PROVE  /\ IsTime(sanitizeRTCReal(tp)) /\ sanitizeRTCReal(tp).year = tp.year
<1>. DEFINE month == LowerOf(tp.month, 11)
            a == [tp EXCEPT !.month = month]
            s == sanitizeRTCReal(tp)
            u == fromTimePoint(s)
<1>1. /\ tp.year \in 0..255 /\ tp.month \in 0..255 /\ tp.day \in 0..255
      /\ tp.hour \in 0..255 /\ tp.minute \in 0..255
  BY DEF TimePoints
<1>2. month \in 0..11
  BY <1>1 DEF LowerOf
<1>. HIDE DEF month
<1>3. a.year = tp.year /\ a.month = month
  BY DEF TimePoints
<1>. HIDE DEF a
<1>4. maxDay(a) + 1 = DaysIn(tp.year + 1970, month + 1)
  <2>1. a.year \in Nat /\ a.month \in 0..11
    BY <1>1, <1>2, <1>3
  <2>2. maxDay(a) + 1 = DaysIn(a.year + 1970, a.month + 1)
    BY <2>1, MonthsAgree
  <2>. QED
    BY <1>3, <2>2
<1>5. maxDay(a) \in 27..30
  <2>1. maxDay(a) \in 27..30
    BY <1>2, <1>3 DEF maxDay
  <2>. QED
    BY <2>1
<1>. DEFINE top == maxDay(a)
<1>6. s = [year |-> tp.year, month |-> month, day |-> LowerOf(tp.day, top),
           hour |-> LowerOf(tp.hour, 23), minute |-> LowerOf(tp.minute, 59)]
  BY Sanitized DEF month, a
<1>. HIDE DEF a, top, s
<1>7. LowerOf(tp.day, top) \in 0..30 /\ LowerOf(tp.day, top) <= top
  BY <1>1, <1>5 DEF LowerOf, top
<1>8. LowerOf(tp.hour, 23) \in 0..23 /\ LowerOf(tp.minute, 59) \in 0..59
  BY <1>1 DEF LowerOf
<1>9. s \in TimePoints /\ s.year = tp.year
  BY <1>1, <1>2, <1>6, <1>7, <1>8 DEF TimePoints
<1>10. /\ u.year = tp.year + 1970 /\ u.month = month + 1 /\ u.date = LowerOf(tp.day, top) + 1
       /\ u.hour = LowerOf(tp.hour, 23) /\ u.minute = LowerOf(tp.minute, 59)
  BY <1>6 DEF fromTimePoint
<1>. HIDE DEF u
<1>11. IsDateTime(u)
  BY <1>1, <1>2, <1>4, <1>5, <1>7, <1>8, <1>10 DEF IsDateTime, top
<1>. QED
  BY <1>9, <1>11 DEF IsTime, s, u

\* A field of a time may start over, except the year: January has days enough.
LEMMA FieldToZero ==
  ASSUME NEW tp, IsTime(tp), NEW field \in Fields \ {"year"}
  PROVE  IsTime([tp EXCEPT ![field] = 0])
<1>. DEFINE z == [tp EXCEPT ![field] = 0]  t == fromTimePoint(tp)  u == fromTimePoint(z)
<1>1. tp \in TimePoints /\ IsDateTime(t)
  BY DEF IsTime
<1>2. t.month \in 1..12 /\ t.date \in Int /\ t.hour \in Int /\ t.minute \in Int
  BY <1>1 DEF IsDateTime, TimePoints, fromTimePoint
<1>3. /\ t.year = tp.year + 1970 /\ t.month = tp.month + 1 /\ t.date = tp.day + 1
      /\ t.hour = tp.hour /\ t.minute = tp.minute
  BY DEF fromTimePoint
<1>4. /\ u.year = z.year + 1970 /\ u.month = z.month + 1 /\ u.date = z.day + 1
      /\ u.hour = z.hour /\ u.minute = z.minute
  BY DEF fromTimePoint
<1>5. field \in {"month", "day", "hour", "minute"}
  BY DEF Fields, NoTime
<1>6. z \in TimePoints
  BY <1>1, <1>5 DEF TimePoints
<1>7. \A m, y : DaysIn(y, 1) = 31 /\ DaysIn(y, m) <= 31 /\ DaysIn(y, m) \in 1..31
  BY DaysInAMonth DEF DaysIn
<1>8. t.date \in 1..DaysIn(t.year, t.month) /\ t.hour \in 0..23 /\ t.minute \in 0..59
  BY <1>1 DEF IsDateTime
<1>. HIDE DEF t, u
<1>9. CASE field = "month"
  <2>1. /\ z.year = tp.year /\ z.month = 0 /\ z.day = tp.day /\ z.hour = tp.hour
        /\ z.minute = tp.minute
    BY <1>1, <1>9 DEF TimePoints
  <2>. QED
    BY <1>3, <1>4, <1>6, <1>7, <1>8, <2>1 DEF IsDateTime, IsTime, u
<1>10. CASE field = "day"
  <2>1. /\ z.year = tp.year /\ z.month = tp.month /\ z.day = 0 /\ z.hour = tp.hour
        /\ z.minute = tp.minute
    BY <1>1, <1>10 DEF TimePoints
  <2>. QED
    BY <1>2, <1>3, <1>4, <1>6, <1>7, <1>8, <2>1 DEF IsDateTime, IsTime, u
<1>11. CASE field = "hour"
  <2>1. /\ z.year = tp.year /\ z.month = tp.month /\ z.day = tp.day /\ z.hour = 0
        /\ z.minute = tp.minute
    BY <1>1, <1>11 DEF TimePoints
  <2>. QED
    BY <1>2, <1>3, <1>4, <1>6, <1>8, <2>1 DEF IsDateTime, IsTime, u
<1>12. CASE field = "minute"
  <2>1. /\ z.year = tp.year /\ z.month = tp.month /\ z.day = tp.day /\ z.hour = tp.hour
        /\ z.minute = 0
    BY <1>1, <1>12 DEF TimePoints
  <2>. QED
    BY <1>2, <1>3, <1>4, <1>6, <1>8, <2>1 DEF IsDateTime, IsTime, u
<1>. QED
  BY <1>5, <1>9, <1>10, <1>11, <1>12

\* Whatever key is pressed, the time on the screen is one of chrono.
LEMMA KeysKeepTime ==
  ASSUME NEW tp \in TimePoints, NEW field \in Fields
  PROVE  IsTime(FieldUp(tp, field)) /\ IsTime(FieldDown(tp, field))
<1>. DEFINE up == (tp[field] + 1) % 256
            tpUp == [tp EXCEPT ![field] = up]
            new == sanitizeRTCReal(tpUp)
            down == (tp[field] - 1) % 256
            tpDown == [tp EXCEPT ![field] = down]
<1>1. field \in {"year", "month", "day", "hour", "minute"}
  BY DEF Fields, NoTime
<1>2. tp[field] \in 0..255
  BY <1>1 DEF TimePoints
<1>3. up \in 0..255 /\ down \in 0..255
  BY <1>2
<1>. HIDE DEF up, down
<1>4. tpUp \in TimePoints /\ tpDown \in TimePoints
  BY <1>1, <1>3 DEF TimePoints
<1>5. IsTime(new) /\ IsTime(sanitizeRTCReal(tpDown)) /\ new.year = tpUp.year
  BY <1>4, SanitizedIsTime
<1>6. FieldDown(tp, field) = sanitizeRTCReal(tpDown)
  BY DEF FieldDown, down
<1>7. FieldUp(tp, field) = IF new[field] = up - 1 THEN [new EXCEPT ![field] = 0] ELSE new
  BY DEF FieldUp, up
<1>8. field = "year" => new[field] = up
  BY <1>5 DEF TimePoints
<1>9. field = "year" => new[field] # up - 1
  BY <1>3, <1>8
<1>. HIDE DEF new, tpUp, tpDown
<1>10. CASE new[field] = up - 1
  BY <1>5, <1>6, <1>7, <1>9, <1>10, FieldToZero
<1>. QED
  BY <1>5, <1>6, <1>7, <1>10

(* The list of games. *)
\* A set of natural numbers has a least one.
LEMMA Least ==
  ASSUME NEW S, S \subseteq Nat, S # {}
  PROVE  \E n \in S : \A m \in S : n <= m
<1>1. PICK n \in S : \A m \in S : ~(<<m, n>> \in OpToRel(<, Nat))
  BY NatLessThanWellFounded, WFMin
<1>2. \A m \in S : ~(m < n)
  BY <1>1 DEF OpToRel
<1>. QED
  BY <1>2

\* The ROM files of a card, and those up to an entry, are finitely many entries of it.
LEMMA RomsAreFinite ==
  ASSUME IsCard(card)
  PROVE  /\ Roms \subseteq 1..Len(card.entries) /\ Len(card.entries) \in Nat
         /\ IsFiniteSet(Roms) /\ Cardinality(Roms) \in Nat
         /\ \A i : IsFiniteSet(RomsUpTo(i)) /\ Cardinality(RomsUpTo(i)) \in Nat
<1>1. Len(card.entries) \in Nat /\ DOMAIN card.entries = 1..Len(card.entries)
  BY DEF IsCard
<1>2. Roms \subseteq 1..Len(card.entries)
  BY <1>1 DEF Roms
<1>3. IsFiniteSet(1..Len(card.entries))
  BY <1>1, FS_Interval
<1>4. IsFiniteSet(Roms)
  BY <1>2, <1>3, FS_Subset
<1>5. ASSUME NEW i PROVE IsFiniteSet(RomsUpTo(i)) /\ Cardinality(RomsUpTo(i)) \in Nat
  <2>1. RomsUpTo(i) \subseteq Roms
    BY DEF RomsUpTo
  <2>2. IsFiniteSet(RomsUpTo(i))
    BY <1>4, <2>1, FS_Subset
  <2>. QED
    BY <2>2, FS_CardinalityType
<1>. QED
  BY <1>1, <1>2, <1>4, <1>5, FS_CardinalityType

\* Counting the ROMs of a card up to each of its entries meets every number.
LEMMA NthRomExists ==
  ASSUME IsCard(card), NEW n \in 1..Cardinality(Roms)
  PROVE  \E i \in Roms : Cardinality(RomsUpTo(i)) = n
<1>. DEFINE Count(i) == Cardinality(RomsUpTo(i))
            S == {i \in Nat : Count(i) >= n}
<1>1. /\ Roms \subseteq 1..Len(card.entries) /\ Len(card.entries) \in Nat
      /\ \A i : IsFiniteSet(RomsUpTo(i)) /\ Count(i) \in Nat
  BY RomsAreFinite
<1>0. \A i, j : j \in RomsUpTo(i) <=> j \in Roms /\ j <= i
  BY DEF RomsUpTo
<1>13. \A j \in Roms : j \in Nat /\ 1 <= j /\ j <= Len(card.entries)
  BY <1>1
<1>2. RomsUpTo(Len(card.entries)) = Roms
  BY <1>0, <1>13
<1>3. Len(card.entries) \in S
  BY <1>1, <1>2, RomsAreFinite
<1>4. PICK i \in S : \A m \in S : i <= m
  BY <1>3, Least
<1>5. Count(0) = 0
  <2>1. RomsUpTo(0) = {}
    BY <1>0, <1>13
  <2>. QED
    BY <2>1, FS_EmptySet
<1>6. i # 0
  BY <1>4, <1>5
<1>7. i \in Nat /\ i - 1 \in Nat /\ Count(i) >= n
  BY <1>4, <1>6
<1>8. Count(i - 1) < n
  <2>1. i - 1 \notin S
    BY <1>4, <1>7
  <2>. HIDE DEF Count
  <2>. QED
    BY <1>1, <1>7, <2>1
<1>9. i \in Roms
  <2>. SUFFICES ASSUME i \notin Roms PROVE FALSE
    OBVIOUS
  <2>1. RomsUpTo(i) = RomsUpTo(i - 1)
    <3>1. \A j \in Roms : j <= i <=> j <= i - 1
      BY <1>7, <1>13
    <3>. QED
      BY <1>0, <3>1
  <2>. QED
    BY <1>1, <1>7, <1>8, <2>1
<1>10. RomsUpTo(i) = RomsUpTo(i - 1) \cup {i} /\ i \notin RomsUpTo(i - 1)
  <2>1. \A j \in Roms : (j <= i <=> j <= i - 1 \/ j = i) /\ ~(i <= i - 1)
    BY <1>7, <1>13
  <2>2. i <= i
    BY <1>7
  <2>. QED
    BY <1>0, <1>9, <2>1, <2>2
<1>11. Count(i) = Count(i - 1) + 1
  BY <1>1, <1>10, FS_AddElement
<1>12. Count(i) = n
  <2>. HIDE DEF Count
  <2>. QED
    BY <1>1, <1>7, <1>8, <1>11
<1>. QED
  BY <1>9, <1>12

\* The list holds names of ROM files of the card.
LEMMA NamesOnCard ==
  ASSUME IsCard(card)
  PROVE  /\ RomNames \in Seq(STRING)
         /\ \A k \in DOMAIN RomNames :
              \E e \in Range(card.entries) : e.name = RomNames[k] /\ e.isRom
<1>1. Cardinality(Roms) \in Nat /\ Roms \subseteq DOMAIN card.entries
  BY RomsAreFinite DEF Roms
<1>2. ASSUME NEW k \in 1..Cardinality(Roms)
      PROVE  \E e \in Range(card.entries) : e.name = RomNames[k] /\ e.isRom
  <2>. DEFINE i == CHOOSE i \in Roms : Cardinality(RomsUpTo(i)) = k
  <2>1. i \in Roms
    BY NthRomExists
  <2>2. card.entries[i] \in Range(card.entries)
    BY <1>1, <2>1 DEF Range
  <2>3. RomNames[k] = card.entries[i].name /\ card.entries[i].isRom
    BY <2>1 DEF RomNames, Roms
  <2>. QED
    BY <2>2, <2>3
<1>3. \A e \in Range(card.entries) : e.name \in STRING
  <2>1. \A i \in DOMAIN card.entries : card.entries[i] \in Entries
    BY DEF IsCard
  <2>2. \A e \in Entries : e.name \in STRING
    BY DEF Entries
  <2>. QED
    BY <2>1, <2>2 DEF Range
<1>4. DOMAIN RomNames = 1..Cardinality(Roms)
  BY DEF RomNames
<1>5. RomNames = [k \in 1..Cardinality(Roms) |-> RomNames[k]]
  BY DEF RomNames
<1>6. \A k \in 1..Cardinality(Roms) : RomNames[k] \in STRING
  BY <1>2, <1>3
<1>7. RomNames \in Seq(STRING)
  <2>. HIDE DEF RomNames
  <2>1. RomNames \in [1..Cardinality(Roms) -> STRING]
    BY <1>5, <1>6
  <2>. QED
    BY <1>1, <2>1
<1>. QED
  BY <1>2, <1>4, <1>7

(* Code is still. *)
\* The reset line holds the Game Boy whenever the RP2350 is about to write the
\* pointer or the area it points to; while the menu runs, it runs from area 1.
HeldWhileWritten ==
  /\ DOMAIN rom = Areas
  /\ rp \in {"detect", "integrity", "load wallet", "wallet", "clock", "list", "switch"}
       => line = "high"
  /\ rp \in {"serve", "acknowledge", "load"} => served = 1

\* The cartridge powers up with the reset line high.
LEMMA HeldInitially == Init => HeldWhileWritten
BY DEF Init, HeldWhileWritten

\* The steps of the RP2350 that leave pointer, areas and line alone, and those of the
\* menu and the player, which own none of the three.
Untouched == UNCHANGED <<served, rom, line>>

\* The Game Boy and the player reach the RP2350's memory through the FIFO and the RAM only.
LEMMA GameBoyTouchesNothing ==
  ASSUME GbStep \/ Player
  PROVE  Untouched /\ rp' = rp
BY DEF GbStep, Player, GbStart, SendCommand, TimeRead, TimeWritten, MoveCursor, StartGame,
       OpenSettings, CloseSettings, OpenTime, SetTime, ChangeTime, LeaveTime,
       others, rpVars, memVars, Untouched

\* A write to another area leaves the menu's where it is.
LEMMA OtherArea ==
  ASSUME DOMAIN rom = Areas, NEW a \in {0, 2}, NEW x, rom' = [rom EXCEPT ![a] = x]
  PROVE  DOMAIN rom' = Areas /\ rom'[1] = rom[1]
BY DEF Areas

\* Each step of the RP2350 keeps the invariant and, from a state in which it holds,
\* leaves what a running Game Boy executes alone.
LEMMA RpStepIsSafe ==
  ASSUME HeldWhileWritten, RpStep
  PROVE  /\ HeldWhileWritten'
         /\ line = "low" /\ line' = "low" => served' = served /\ rom'[served] = rom[served]
<1>. USE DEF HeldWhileWritten, Goto, Panic, rpVars, memVars, Areas
<1>1. CASE Detect
  BY <1>1 DEF Detect
<1>2. CASE Integrity
  BY <1>2 DEF Integrity
<1>3. CASE LoadWallet
  BY <1>3 DEF LoadWallet
<1>4. CASE StartClock
  BY <1>4 DEF StartClock
<1>5. CASE ListGames
  BY <1>5 DEF ListGames
<1>6. CASE ReadTime
  BY <1>6 DEF ReadTime
<1>7. CASE WriteTime
  BY <1>7 DEF WriteTime
<1>8. CASE Acknowledge \/ IgnoreWrite
  BY <1>8 DEF Acknowledge, IgnoreWrite
<1>9. CASE OpenGame
  <2>1. rp = "serve" /\ line' = line /\ served' = served
    BY <1>9 DEF OpenGame
  <2>2. rp' \in {"load", "panic"}
    BY <1>9 DEF OpenGame
  <2>3. rom' = rom \/ \E x : rom' = [rom EXCEPT ![0] = x]
    BY <1>9 DEF OpenGame
  <2>4. DOMAIN rom' = Areas /\ rom'[1] = rom[1]
    BY <2>3, OtherArea
  <2>. QED
    BY <2>1, <2>2, <2>4
<1>10. CASE LoadBank
  <2>1. rp = "load" /\ line' = line /\ served' = served
    BY <1>10 DEF LoadBank
  <2>2. rp' \in {"load", "panic"}
    BY <1>10 DEF LoadBank
  <2>3. rom' = rom \/ \E x : rom' = [rom EXCEPT ![2] = x]
    BY <1>10 DEF LoadBank
  <2>4. DOMAIN rom' = Areas /\ rom'[1] = rom[1]
    BY <2>3, OtherArea
  <2>. QED
    BY <2>1, <2>2, <2>4
<1>11. CASE HoldGameBoy
  BY <1>11 DEF HoldGameBoy
<1>12. CASE SwitchBank0
  BY <1>12 DEF SwitchBank0
<1>13. CASE RestoreSave
  BY <1>13 DEF RestoreSave
<1>14. CASE ChooseMapper
  BY <1>14 DEF ChooseMapper
<1>15. CASE ReleaseGame
  BY <1>15 DEF ReleaseGame
<1>. QED
  BY <1>1, <1>2, <1>3, <1>4, <1>5, <1>6, <1>7, <1>8, <1>9, <1>10, <1>11, <1>12, <1>13,
     <1>14, <1>15 DEF RpStep

\* The same of every step of the specification.
LEMMA StepIsSafe ==
  ASSUME HeldWhileWritten, [Next]_vars
  PROVE  /\ HeldWhileWritten'
         /\ line = "low" /\ line' = "low" => served' = served /\ rom'[served] = rom[served]
<1>1. CASE RpStep
  BY <1>1, RpStepIsSafe
<1>2. CASE GbStep \/ Player
  BY <1>2, GameBoyTouchesNothing DEF Untouched, HeldWhileWritten
<1>3. CASE UNCHANGED vars
  BY <1>3 DEF vars, rpVars, memVars, HeldWhileWritten
<1>. QED
  BY <1>1, <1>2, <1>3 DEF Next

\* GbBootloader::run and main write the pointer to bank 0 and the area behind it only
\* while the reset line holds the Game Boy.
THEOREM CodeIsStill == Spec => RunningCodeIsStill
<1>1. HeldWhileWritten /\ [Next]_vars => HeldWhileWritten'
  BY StepIsSafe
<1>2. HeldWhileWritten /\ [Next]_vars =>
        [line = "low" /\ line' = "low" => served' = served /\ rom'[served] = rom[served]]_vars
  BY StepIsSafe
<1>. QED
  BY HeldInitially, <1>1, <1>2, PTL DEF Spec, RunningCodeIsStill

(***************************************************************************)
(* The inductive invariant.                                                *)
(***************************************************************************)
\* Where the RP2350 is before the menu runs, from the menu's choice to the game, and what the
\* menu does while the player chooses.
Boot == {"detect", "integrity", "load wallet", "wallet", "clock", "list"}
Starting == {"load", "switch", "restore", "mapper", "release", "game"}
Choosing == {"games", "settings", "time", "ask read", "ask write"}

\* The types, part by part.
StepsOK ==
  /\ hash \in Hashes \cup {NONE}
  /\ rp \in Boot \cup Starting \cup {"serve", "acknowledge", "panic"}
  /\ panic \in {NONE, "chip", "year", "card", "header", "unimplemented"}
  /\ line \in {"high", "low"} /\ served \in Areas
  /\ chip \in Chips /\ faults \in 0..MaxFaults
  /\ idGb \in 0..IdMod - 1 /\ idRp \in 0..IdMod - 1
  /\ gb \in Choosing \cup {"held", "wait read", "wait write", "loading", "game"}
  /\ real_rtc \in TimePoints /\ presses \in 0..MaxPresses
\* What the areas hold, and where the cursor stands.
RomOK == \A a \in Areas : rom[a] \in Contents
CursorOK ==
  /\ list = <<>> \/ cursor \in 0..Len(list) - 1
  /\ cursor - page \in 0..PageRows - 1

\* Nothing has happened before the list is made.
Asleep ==
  rp \in Boot => /\ gb = "held" /\ list = <<>> /\ cursor = 0 /\ page = 0
                 /\ lastSet = Unset /\ hyper = <<>> /\ loaded = 0

\* What the menu works on: the list is that of the card, the cursor counts from zero.
MenuData ==
  /\ IsCard(card) /\ list \in {<<>>, RomNames}
  /\ cursor \in Nat /\ page \in Nat /\ loaded \in Nat

\* The two writes that may precede a command in the FIFO, and the command.
Enable == <<0, 10>>
Sent(c) == fifo \in {<<<<CMD, c>>>>, <<Enable, <<CMD, c>>>>}

\* The Game Boy waits: its command is on its way or being served, or its number is back.
Waiting(c) ==
  \/ rp = "serve" /\ fifo = <<>> /\ idGb = idRp
  \/ /\ idGb # idRp
     /\ \/ rp = "serve" /\ Sent(c)
        \/ rp \in {"acknowledge", "panic"} /\ fifo = <<>>

\* Which steps of the two processors can meet, and what is in the FIFO then.
Conversation ==
  /\ gb = "held" => /\ fifo = <<>> /\ rp \notin {"acknowledge", "load"}
                    /\ line = "low" => rp \in {"serve", "game"}
                    /\ rp = "serve" => idRp = 0
  /\ gb \in Choosing => rp = "serve" /\ fifo \in {<<>>, <<Enable>>}
  /\ gb \in {"games", "settings", "time"} => idGb = idRp \/ (idGb = 1 /\ idRp = 0)
  /\ gb \in {"ask read", "ask write"} => idGb # idRp
  /\ gb = "wait read" => Waiting(RTC_READ)
  /\ gb = "wait write" => Waiting(RTC_WRITE)
  /\ gb = "loading" => \/ rp = "serve" /\ Sent(START)
                       \/ rp \in {"load", "panic"} /\ fifo = <<>>
  /\ gb = "game" => rp = "game"

\* The name in RAM is the one the player saw, and there is such a file.
GameChosen ==
  gb = "loading" \/ rp \in Starting =>
    area.name = wanted /\ \E e \in Range(card.entries) : e.name = wanted /\ e.isRom

\* What is known of the game the player saw.
Game == Named(wanted)
GameHasRam == RomInfo(Game).ram_bank_count > 0
GameMbc == RomInfo(Game).mbc
Copies == [b \in 1..loaded - 1 |-> <<wanted, b>>]

\* How far the game is in place at each step of its start.
GameInPlace ==
  /\ rp \in {"serve", "acknowledge"} => hyper = <<>> /\ loaded = 0
  /\ rp \in {"serve", "acknowledge", "load"} => rom[1] = MENU
  /\ rp \in Starting => /\ loaded \in 1..Game.banks /\ hyper = Copies
                        /\ rom[0] = <<wanted, 0>>
  /\ rp \in Starting \ {"load"} => loaded = Game.banks
  /\ rp \in Starting \ {"load", "switch"} => served = 0
  /\ rp \in {"mapper", "release", "game"} /\ GameHasRam
       => saveRam \in {<<wanted, 0>>, ZEROS}
  /\ rp \in {"release", "game"} => mapper = GameMbc

\* The time set is on its way to the chip, or in it.
Setting == gb = "ask write" \/ (gb = "wait write" /\ fifo # <<>>)
ChipTime == datetime(chip)
TimeKept ==
  /\ IsTime(real_rtc)
  /\ lastSet # Unset =>
       /\ IsTime(lastSet)
       /\ Setting => area.time = lastSet
       /\ ~Setting /\ rp # "panic" => ChipTime = fromTimePoint(lastSet)

\* What an answered menu will read.
TimeAnswered ==
  gb = "wait read" /\ fifo = <<>> =>
    /\ IsTime(area.time)
    /\ lastSet # Unset => \/ area.time = lastSet
                          \/ faults > 0 /\ area.time = toTimePoint(Epoch)

\* All of it.
IInv ==
  /\ StepsOK /\ RomOK /\ AreaTypeOK /\ CursorOK
  /\ HeldWhileWritten /\ Asleep /\ MenuData /\ Conversation
  /\ GameChosen /\ GameInPlace /\ TimeKept /\ TimeAnswered

(* The FIFO, the list and the copies. *)
\* Sequences of up to two elements.
LEMMA ShortSeqs ==
  ASSUME NEW a, NEW b
  PROVE  /\ Head(<<a>>) = a /\ Tail(<<a>>) = <<>> /\ Append(<<>>, a) = <<a>>
         /\ Head(<<a, b>>) = a /\ Tail(<<a, b>>) = <<b>> /\ Append(<<a>>, b) = <<a, b>>
         /\ <<a>> # <<>> /\ <<a, b>> # <<>>
<1>1. /\ Head(<<a>>) = a /\ Tail(<<a>>) = <<>> /\ Append(<<>>, a) = <<a>>
      /\ <<a>> # <<>> /\ <<a, b>> # <<>>
  OBVIOUS
<1>2. Head(<<a, b>>) = a /\ Tail(<<a, b>>) = <<b>>
  OBVIOUS
<1>3. Append(<<a>>, b) = <<a, b>>
  <2>. DEFINE S == {a, b}
  <2>1. <<a, b>> \in Seq(S) /\ Append(<<a>>, b) \in Seq(S) /\ Len(Append(<<a>>, b)) = 2
    OBVIOUS
  <2>2. \A i \in 1..2 : Append(<<a>>, b)[i] = <<a, b>>[i]
    OBVIOUS
  <2>. QED
    BY <2>1, <2>2, SeqEqual
<1>. QED
  BY <1>1, <1>2, <1>3

\* A command names itself and is not the menu's first write.
LEMMA CommandsDiffer ==
  ASSUME NEW c, NEW d
  PROVE  /\ <<CMD, c>> = <<CMD, d>> => c = d
         /\ Enable # <<CMD, d>> /\ Enable[1] # CMD /\ <<CMD, c>>[1] = CMD
BY DEF CMD, Enable

\* A command is taken from the FIFO only when one was sent, and then it is that one.
LEMMA CommandTaken ==
  ASSUME NEW d, Command(d)
  PROVE  /\ fifo \notin {<<>>, <<Enable>>}
         /\ \A c : Sent(c) => c = d /\ fifo' = <<>>
<1>1. fifo # <<>> /\ Head(fifo) = <<CMD, d>> /\ fifo' = Tail(fifo)
  BY DEF Command
<1>2. fifo # <<Enable>>
  BY <1>1, ShortSeqs, CommandsDiffer
<1>3. ASSUME NEW c, Sent(c) PROVE c = d /\ fifo' = <<>>
  <2>1. fifo # <<Enable, <<CMD, c>>>>
    BY <1>1, ShortSeqs, CommandsDiffer
  <2>2. fifo = <<<<CMD, c>>>>
    BY <1>3, <2>1 DEF Sent
  <2>3. <<CMD, c>> = <<CMD, d>> /\ fifo' = <<>>
    BY <1>1, <2>2, ShortSeqs
  <2>. QED
    BY <2>3, CommandsDiffer
<1>. QED
  BY <1>1, <1>2, <1>3

\* What IgnoreWrite takes is the menu's first write.
LEMMA WriteIgnored ==
  ASSUME IgnoreWrite
  PROVE  /\ fifo # <<>>
         /\ fifo = <<Enable>> => fifo' = <<>>
         /\ \A c : Sent(c) => Sent(c)'
<1>1. fifo # <<>> /\ Head(fifo)[1] # CMD /\ fifo' = Tail(fifo)
  BY DEF IgnoreWrite
<1>2. fifo = <<Enable>> => fifo' = <<>>
  BY <1>1, ShortSeqs
<1>3. ASSUME NEW c, Sent(c) PROVE Sent(c)'
  <2>1. fifo # <<<<CMD, c>>>>
    BY <1>1, ShortSeqs, CommandsDiffer
  <2>2. fifo = <<Enable, <<CMD, c>>>>
    BY <1>3, <2>1 DEF Sent
  <2>3. fifo' = <<<<CMD, c>>>>
    BY <1>1, <2>2, ShortSeqs
  <2>. QED
    BY <2>3 DEF Sent
<1>. QED
  BY <1>1, <1>2, <1>3

\* The menu sends one command, behind its first write if that is still there.
LEMMA CommandSent ==
  ASSUME NEW c, ToRp(CMD, c), fifo \in {<<>>, <<Enable>>}
  PROVE  Sent(c)'
BY ShortSeqs DEF ToRp, Sent

\* The list depends on the card alone.
LEMMA SameCard ==
  ASSUME card' = card
  PROVE  RomNames' = RomNames /\ (IsCard(card))' = IsCard(card)
BY DEF RomNames, Roms, RomsUpTo

\* What is known of the game depends on the card and the name.
LEMMA SameGame ==
  ASSUME card' = card, wanted' = wanted
  PROVE  Game' = Game /\ GameHasRam' = GameHasRam /\ GameMbc' = GameMbc
<1>1. Game' = Game
  BY DEF Game, Named
<1>. QED
  BY <1>1 DEF GameHasRam, GameMbc

\* The copies depend on their number and the name.
LEMMA SameCopies ==
  ASSUME loaded' = loaded, wanted' = wanted
  PROVE  Copies' = Copies
BY DEF Copies

\* Loading more adds to what an area may hold.
LEMMA ContentsGrow ==
  ASSUME card' = card, loaded \in Nat, loaded' \in Nat, loaded <= loaded'
  PROVE  /\ Contents \subseteq Contents' /\ {EMPTY, MENU, WALLET} \subseteq Contents
         /\ \A e \in Range(card.entries), b \in 0..loaded' : <<e.name, b>> \in Contents'
BY DEF Contents

\* The file of the game the player saw is on the card.
LEMMA GameIsFile ==
  ASSUME IsCard(card), \E e \in Range(card.entries) : e.name = wanted /\ e.isRom
  PROVE  /\ Game \in Range(card.entries) /\ Game.name = wanted
         /\ Game.banks \in Nat \ {0} /\ <<wanted, 0>> # MENU
<1>1. Game \in Range(card.entries) /\ Game.name = wanted /\ Game.isRom
  <2>1. Game \in Range(card.entries) /\ Game.name = wanted
    BY DEF Game, Named
  <2>2. \A e \in Range(card.entries) : e.name = wanted => e = Game
    BY <2>1 DEF IsCard
  <2>. QED
    BY <2>1, <2>2
<1>2. Game \in Entries
  <2>1. \A i \in DOMAIN card.entries : card.entries[i] \in Entries
    BY DEF IsCard
  <2>. QED
    BY <1>1, <2>1 DEF Range
<1>3. Game.banks \in Nat \ {0} /\ Game.name # MENU[1]
  BY <1>1, <1>2 DEF Entries, IsCard
<1>4. <<wanted, 0>>[1] # MENU[1]
  BY <1>1, <1>3
<1>. QED
  BY <1>1, <1>3, <1>4

\* The type invariant in its parts.
LEMMA Types ==
  TypeOK <=> StepsOK /\ RomOK /\ AreaTypeOK /\ CursorOK
BY DEF TypeOK, StepsOK, RomOK, CursorOK, Boot, Starting, Choosing

(* What a step that leaves their variables alone does to the parts of the invariant. *)

\* RomOK depends on the card, the areas and the number of banks.
LEMMA RomStays ==
  ASSUME RomOK, UNCHANGED <<card, rom, loaded>> PROVE RomOK'
BY DEF RomOK, Contents

\* AreaTypeOK depends on the shared RAM and the list.
LEMMA AreaStays ==
  ASSUME AreaTypeOK, UNCHANGED <<area, list>> PROVE AreaTypeOK'
BY DEF AreaTypeOK

\* CursorOK depends on the list, the cursor and the page.
LEMMA CursorStays ==
  ASSUME CursorOK, UNCHANGED <<list, cursor, page>> PROVE CursorOK'
BY DEF CursorOK

\* Asleep depends on where the two processors are and on what boot leaves empty.
LEMMA AsleepStays ==
  ASSUME Asleep, UNCHANGED <<rp, gb, list, cursor, page, lastSet, hyper, loaded>> PROVE Asleep'
BY DEF Asleep

\* MenuData depends on the card, the list and the counters.
LEMMA MenuDataStays ==
  ASSUME MenuData, UNCHANGED <<card, list, cursor, page, loaded>> PROVE MenuData'
BY SameCard DEF MenuData

\* Conversation depends on the two processors, the FIFO, the line and the numbers.
LEMMA ConversationStays ==
  ASSUME Conversation, UNCHANGED <<rp, gb, fifo, line, idGb, idRp>> PROVE Conversation'
BY DEF Conversation, Waiting, Sent

\* GameChosen depends on the card, the two processors and the two names.
LEMMA GameChosenStays ==
  ASSUME GameChosen, UNCHANGED <<card, gb, rp, area, wanted>> PROVE GameChosen'
BY DEF GameChosen

\* GameInPlace depends on the game, the RP2350 and what it put in place.
LEMMA GameInPlaceStays ==
  ASSUME GameInPlace, UNCHANGED <<card, wanted, rp, hyper, loaded, rom, served, saveRam, mapper>>
  PROVE  GameInPlace'
BY SameGame, SameCopies DEF GameInPlace

\* TimeKept depends on the times, the way of a command and the chip.
LEMMA TimeKeptStays ==
  ASSUME TimeKept, UNCHANGED <<real_rtc, lastSet, gb, fifo, area, rp, chip>> PROVE TimeKept'
BY DEF TimeKept, Setting, ChipTime

\* TimeAnswered depends on the way of an answer and the times.
LEMMA TimeAnsweredStays ==
  ASSUME TimeAnswered, UNCHANGED <<gb, fifo, area, lastSet, faults>> PROVE TimeAnswered'
BY DEF TimeAnswered

\* Whom a command is from: one who waits for it.
LEMMA Serving ==
  ASSUME StepsOK, Asleep, Conversation, rp = "serve", NEW d, Command(d)
  PROVE  /\ fifo # <<>> /\ fifo' = <<>>
         /\ \/ gb = "wait read" /\ d = RTC_READ /\ idGb # idRp
            \/ gb = "wait write" /\ d = RTC_WRITE /\ idGb # idRp
            \/ gb = "loading" /\ d = START
<1>1. fifo \notin {<<>>, <<Enable>>} /\ \A c : Sent(c) => c = d /\ fifo' = <<>>
  BY CommandTaken
<1>2. gb \in {"wait read", "wait write", "loading"}
  BY <1>1 DEF StepsOK, Conversation
<1>3. CASE gb = "wait read"
  BY <1>1, <1>3 DEF Conversation, Waiting
<1>4. CASE gb = "wait write"
  BY <1>1, <1>4 DEF Conversation, Waiting
<1>5. CASE gb = "loading"
  BY <1>1, <1>5 DEF Conversation
<1>. QED
  BY <1>1, <1>2, <1>3, <1>4, <1>5

\* The three commands, one by one.
LEMMA Commands ==
  ASSUME IInv, rp = "serve"
  PROVE  /\ Command(RTC_READ) => /\ gb = "wait read" /\ idGb # idRp
                                 /\ fifo # <<>> /\ fifo' = <<>>
         /\ Command(RTC_WRITE) => /\ gb = "wait write" /\ idGb # idRp
                                  /\ fifo # <<>> /\ fifo' = <<>>
         /\ Command(START) => gb = "loading" /\ fifo # <<>> /\ fifo' = <<>>
<1>1. RTC_READ # RTC_WRITE /\ RTC_READ # START /\ RTC_WRITE # START
  BY DEF RTC_READ, RTC_WRITE, START
<1>2. StepsOK /\ Asleep /\ Conversation
  BY DEF IInv
<1>3. ASSUME Command(RTC_READ)
      PROVE  gb = "wait read" /\ idGb # idRp /\ fifo # <<>> /\ fifo' = <<>>
  BY <1>1, <1>2, <1>3, Serving
<1>4. ASSUME Command(RTC_WRITE)
      PROVE  gb = "wait write" /\ idGb # idRp /\ fifo # <<>> /\ fifo' = <<>>
  BY <1>1, <1>2, <1>4, Serving
<1>5. ASSUME Command(START)
      PROVE  gb = "loading" /\ fifo # <<>> /\ fifo' = <<>>
  BY <1>1, <1>2, <1>5, Serving
<1>. QED
  BY <1>3, <1>4, <1>5

\* A call may fail as long as the bound is not reached.
LEMMA OneMoreFault ==
  ASSUME StepsOK, MayFail PROVE faults' \in 1..MaxFaults
<1>1. MaxFaults \in Nat
  BY BootMenuAssumption
<1>2. faults \in 0..MaxFaults
  BY DEF StepsOK
<1>3. faults < MaxFaults /\ faults' = faults + 1
  BY DEF MayFail
<1>. QED
  BY <1>1, <1>2, <1>3

\* What the messages in the shared RAM carry.
LEMMA Texts ==
  /\ Blank.name = NONE /\ Blank.time = NoTime
  /\ \A n : Text(n).name = n /\ Text(n).time = NoTime
  /\ \A tp : Timed(tp).name = NONE /\ Timed(tp).time = tp
  /\ NoTime \in TimePoints
BY DEF Blank, Text, Timed, NoTime, TimePoints

\* The all-zero time is the epoch, a time of chrono.
LEMMA NoTimeIsTime == IsTime(NoTime) /\ IsTime(toTimePoint(Epoch))
<1>1. IsDateTime(Epoch) /\ Epoch.year = 1970
  BY DEF IsDateTime, Epoch, DaysIn
<1>2. IsTime(toTimePoint(Epoch))
  BY <1>1, ToTimePointIsTime
<1>3. toTimePoint(Epoch) = NoTime
  BY DEF toTimePoint, Epoch, NoTime
<1>. QED
  BY <1>2, <1>3

\* A command that stays in the FIFO keeps it from being empty.
LEMMA SentStays ==
  \A c : Sent(c)' => fifo' # <<>>
<1>. SUFFICES ASSUME NEW c, Sent(c)' PROVE fifo' # <<>>
  OBVIOUS
<1>1. fifo' \in {<<<<CMD, c>>>>, <<Enable, <<CMD, c>>>>}
  BY DEF Sent
<1>. QED
  BY <1>1, ShortSeqs

\* The next message number is a new one.
LEMMA NextId ==
  ASSUME NEW i \in 0..IdMod - 1
  PROVE  /\ (i + 1) % IdMod \in 0..IdMod - 1 /\ (i + 1) % IdMod # i
         /\ i = 1 => (i + 1) % IdMod # 0
<1>1. IdMod \in Nat /\ IdMod > 2
  BY BootMenuAssumption
<1>2. (i + 1) % IdMod = IF i + 1 = IdMod THEN 0 ELSE i + 1
  BY <1>1
<1>. QED
  BY <1>1, <1>2

\* The row highlighted is the entry of the list at the cursor.
LEMMA HighlightedIsEntry ==
  ASSUME MenuData, CursorOK, list # <<>>
  PROVE  /\ Highlighted = list[cursor + 1] /\ cursor + 1 \in DOMAIN list
         /\ list[cursor + 1] \in Range(list)
         /\ \E e \in Range(card.entries) : e.name = list[cursor + 1] /\ e.isRom
<1>. DEFINE top == LowerOf(page + PageRows, Len(RomNames))
            row == (cursor - page) + 1
<1>1. list = RomNames /\ cursor \in Nat /\ page \in Nat
  BY DEF MenuData
<1>2. /\ RomNames \in Seq(STRING)
      /\ \A k \in DOMAIN RomNames :
           \E e \in Range(card.entries) : e.name = RomNames[k] /\ e.isRom
  BY NamesOnCard DEF MenuData
<1>3. Len(RomNames) \in Nat /\ DOMAIN RomNames = 1..Len(RomNames)
  BY <1>2
<1>4. cursor < Len(RomNames) /\ row \in 1..PageRows /\ PageRows \in Nat
  BY <1>1, <1>3, BootMenuAssumption DEF CursorOK
<1>5. top \in Nat /\ top <= Len(RomNames) /\ row + page <= top /\ row + page = cursor + 1
  BY <1>1, <1>3, <1>4 DEF LowerOf
<1>. HIDE DEF top
<1>6. page + 1 \in Int /\ top \in Int /\ (page + 1)..top \subseteq 1..Len(RomNames)
  BY <1>1, <1>3, <1>5
<1>7. \A i \in (page + 1)..top : RomNames[i] \in STRING
  BY <1>2, <1>3, <1>6
<1>8. /\ SubSeq(RomNames, page + 1, top) \in Seq(STRING)
      /\ Len(SubSeq(RomNames, page + 1, top)) =
           IF page + 1 <= top THEN top - (page + 1) + 1 ELSE 0
      /\ \A i \in 1..(top - (page + 1) + 1) :
           SubSeq(RomNames, page + 1, top)[i] = RomNames[(page + 1) + i - 1]
  BY <1>6, <1>7, SubSeqProperties
<1>9. row \in 1..(top - (page + 1) + 1) /\ (page + 1) + row - 1 = cursor + 1 /\ page + 1 <= top
  BY <1>1, <1>4, <1>5
<1>10. Shown = SubSeq(RomNames, page + 1, top)
  BY DEF Shown, top
<1>11. row \in DOMAIN Shown /\ Shown[row] = RomNames[cursor + 1]
  BY <1>8, <1>9, <1>10
<1>12. Highlighted = RomNames[cursor + 1]
  BY <1>11 DEF Highlighted
<1>13. cursor + 1 \in DOMAIN RomNames
  BY <1>1, <1>3, <1>4
<1>. QED
  BY <1>1, <1>2, <1>12, <1>13 DEF Range

\* The cursor stays on the list and on the page, whichever way it moves.
LEMMA CursorMoves ==
  ASSUME MenuData, CursorOK,
         CursorUp \/ CursorDown(Len(list)) \/ PageUp(Len(list)) \/ PageDown(Len(list))
  PROVE  /\ cursor' \in Nat /\ page' \in Nat
         /\ list = <<>> \/ cursor' \in 0..Len(list) - 1
         /\ cursor' - page' \in 0..PageRows - 1
<1>1. Len(list) \in Nat /\ PageRows \in Nat /\ PageRows > 0 /\ cursor \in Nat /\ page \in Nat
  BY NamesOnCard, BootMenuAssumption DEF MenuData
<1>2. page <= cursor /\ cursor < page + PageRows /\ (list = <<>> \/ cursor < Len(list))
  BY <1>1 DEF CursorOK
<1>3. CASE CursorUp
  BY <1>1, <1>2, <1>3 DEF CursorUp
<1>4. CASE CursorDown(Len(list))
  BY <1>1, <1>2, <1>4 DEF CursorDown
<1>5. CASE PageUp(Len(list))
  BY <1>1, <1>2, <1>5 DEF PageUp
<1>6. CASE PageDown(Len(list))
  BY <1>1, <1>2, <1>6 DEF PageDown
<1>. QED
  BY <1>3, <1>4, <1>5, <1>6

\* A bank more in HyperRAM is a copy more.
LEMMA OneMoreCopy ==
  ASSUME loaded \in Nat \ {0}, hyper = Copies, hyper' = Append(hyper, <<wanted, loaded>>),
         loaded' = loaded + 1, wanted' = wanted
  PROVE  hyper' = Copies'
<1>. DEFINE S == {<<wanted, b>> : b \in Nat}
<1>1. Copies \in Seq(S) /\ Len(Copies) = loaded - 1
  BY DEF Copies
<1>2. <<wanted, loaded>> \in S
  OBVIOUS
<1>3. Copies' = [b \in 1..loaded |-> <<wanted, b>>]
  BY DEF Copies
<1>4. Copies' \in Seq(S) /\ Len(Copies') = loaded
  BY <1>3
<1>5. /\ hyper' \in Seq(S) /\ Len(hyper') = loaded /\ hyper'[loaded] = <<wanted, loaded>>
      /\ \A i \in 1..loaded - 1 : hyper'[i] = Copies[i]
  <2>. HIDE DEF S
  <2>. QED
    BY <1>1, <1>2, AppendProperties
<1>6. ASSUME NEW i \in 1..loaded PROVE hyper'[i] = Copies'[i]
  <2>1. CASE i = loaded
    BY <1>3, <1>5, <2>1
  <2>2. CASE i # loaded
    <3>1. i \in 1..loaded - 1
      BY <2>2
    <3>2. Copies[i] = <<wanted, i>>
      BY <3>1 DEF Copies
    <3>. QED
      BY <1>3, <1>5, <3>1, <3>2
  <2>. QED
    BY <2>1, <2>2
<1>. HIDE DEF S
<1>. QED
  BY <1>4, <1>5, <1>6, SeqEqual

\* With bank 0 alone there is no copy.
LEMMA NoCopies ==
  ASSUME loaded' = 1 PROVE Copies' = <<>>
BY DEF Copies

(* One lemma per action: it keeps every part of the invariant. *)
\* detect_mode chooses what the firmware boots into.
LEMMA DetectKeeps ==
  ASSUME IInv, Detect PROVE IInv'
<1>1. UNCHANGED <<card, hash, panic, line, served, rom, hyper, loaded, fifo, idGb, idRp, list,
      area, saveRam, chip, faults, mapper, core1, gb, cursor, page, real_rtc, presses, wanted,
      lastSet>>
  BY DEF Detect, Goto, fixed, memVars, msgVars, gbVars
<1>2. HeldWhileWritten'
  BY StepIsSafe DEF IInv, Next, RpStep
<1>3. RomOK' /\ AreaTypeOK' /\ CursorOK' /\ MenuData' /\ TimeAnswered'
  BY <1>1, RomStays, AreaStays, CursorStays, MenuDataStays, TimeAnsweredStays DEF IInv
<1>4. StepsOK'
  BY <1>1, BootMenuAssumption DEF IInv, StepsOK, Areas, Boot, Starting, Choosing, Detect, Goto
<1>5. Asleep'
  BY <1>1 DEF IInv, Asleep, Boot, Detect, Goto
<1>6. Conversation'
  BY <1>1 DEF IInv, Conversation, Waiting, Choosing, Sent, Detect, Goto
<1>7. GameChosen'
  BY <1>1 DEF IInv, GameChosen, Starting, Detect, Goto
<1>8. GameInPlace'
  BY <1>1, SameGame, SameCopies DEF IInv, GameInPlace, Starting, Detect, Goto
<1>9. TimeKept'
  BY <1>1 DEF IInv, TimeKept, Setting, ChipTime, Detect, Goto
<1>. QED
  BY <1>2, <1>3, <1>4, <1>5, <1>6, <1>7, <1>8, <1>9 DEF IInv

\* The hash check decides whether the boot goes on.
LEMMA IntegrityKeeps ==
  ASSUME IInv, Integrity PROVE IInv'
<1>1. UNCHANGED <<card, panic, line, served, rom, hyper, loaded, fifo, idGb, idRp, list, area,
      saveRam, chip, faults, mapper, core1, gb, cursor, page, real_rtc, presses, wanted,
      lastSet>>
  BY DEF Integrity, Goto, memVars, msgVars, gbVars
<1>2. HeldWhileWritten'
  BY StepIsSafe DEF IInv, Next, RpStep
<1>3. RomOK' /\ AreaTypeOK' /\ CursorOK' /\ MenuData' /\ TimeAnswered'
  BY <1>1, RomStays, AreaStays, CursorStays, MenuDataStays, TimeAnsweredStays DEF IInv
<1>4. StepsOK'
  BY <1>1, BootMenuAssumption DEF IInv, StepsOK, Areas, Boot, Starting, Choosing, Integrity,
     Goto
<1>5. Asleep'
  BY <1>1 DEF IInv, Asleep, Boot, Integrity, Goto
<1>6. Conversation'
  BY <1>1 DEF IInv, Conversation, Waiting, Choosing, Sent, Integrity, Goto
<1>7. GameChosen'
  BY <1>1 DEF IInv, GameChosen, Starting, Integrity, Goto
<1>8. GameInPlace'
  BY <1>1, SameGame, SameCopies DEF IInv, GameInPlace, Starting, Integrity, Goto
<1>9. TimeKept'
  BY <1>1 DEF IInv, TimeKept, Setting, ChipTime, Integrity, Goto
<1>. QED
  BY <1>2, <1>3, <1>4, <1>5, <1>6, <1>7, <1>8, <1>9 DEF IInv

\* The wallet is put behind the pointer before anything was said.
LEMMA LoadWalletKeeps ==
  ASSUME IInv, LoadWallet PROVE IInv'
<1>1. UNCHANGED <<card, hash, panic, line, served, hyper, loaded, fifo, idGb, idRp, list, area,
      saveRam, chip, faults, mapper, core1, gb, cursor, page, real_rtc, presses, wanted,
      lastSet>>
  BY DEF LoadWallet, Goto, fixed, msgVars, gbVars
<1>2. HeldWhileWritten'
  BY StepIsSafe DEF IInv, Next, RpStep
<1>3. AreaTypeOK' /\ CursorOK' /\ MenuData' /\ TimeAnswered'
  BY <1>1, AreaStays, CursorStays, MenuDataStays, TimeAnsweredStays DEF IInv
<1>4. StepsOK'
  BY <1>1, BootMenuAssumption DEF IInv, StepsOK, Areas, Boot, Starting, Choosing, LoadWallet,
     Goto
<1>5. RomOK'
  <2>1. rom' = [a \in Areas |-> IF a \in {0, 1} THEN WALLET ELSE EMPTY]
    BY DEF LoadWallet
  <2>. QED
    BY <2>1 DEF RomOK, Contents
<1>6. Asleep'
  BY <1>1 DEF IInv, Asleep, Boot, LoadWallet, Goto
<1>7. Conversation'
  BY <1>1 DEF IInv, Conversation, Waiting, Choosing, Sent, LoadWallet, Goto
<1>8. GameChosen'
  BY <1>1 DEF IInv, GameChosen, Starting, LoadWallet, Goto
<1>9. GameInPlace'
  BY <1>1, SameGame, SameCopies DEF IInv, GameInPlace, Starting, LoadWallet, Goto
<1>10. TimeKept'
  BY <1>1 DEF IInv, TimeKept, Setting, ChipTime, LoadWallet, Goto
<1>. QED
  BY <1>2, <1>3, <1>4, <1>5, <1>6, <1>7, <1>8, <1>9, <1>10 DEF IInv

\* Whatever the chip answers at start-up, its registers hold bytes afterwards.
LEMMA StartClockKeeps ==
  ASSUME IInv, StartClock PROVE IInv'
<1>1. UNCHANGED <<card, hash, line, served, rom, hyper, loaded, fifo, idGb, idRp, list, area,
      saveRam, mapper, core1, gb, cursor, page, real_rtc, presses, wanted, lastSet>>
  BY DEF StartClock, Goto, Panic, MayFail, fixed, memVars, msgVars, gbVars
<1>2. HeldWhileWritten'
  BY StepIsSafe DEF IInv, Next, RpStep
<1>3. /\ rp = "clock" /\ rp' \in {"list", "panic"} /\ lastSet = Unset
      /\ panic' \in {panic, "chip"} /\ chip' \in Chips /\ faults' \in 0..MaxFaults
  <2>1. rp = "clock" /\ chip \in Chips /\ faults \in 0..MaxFaults
    BY DEF StartClock, IInv, StepsOK
  <2>2. lastSet = Unset
    BY <2>1 DEF IInv, Asleep, Boot
  <2>3. MayFail => faults' \in 0..MaxFaults
    BY OneMoreFault DEF IInv
  <2>. QED
    BY <2>1, <2>2, <2>3, StartUpIsChip DEF StartClock, Goto, Panic
<1>4. RomOK' /\ AreaTypeOK' /\ CursorOK' /\ MenuData'
  BY <1>1, RomStays, AreaStays, CursorStays, MenuDataStays DEF IInv
<1>5. StepsOK'
  BY <1>1, <1>3, BootMenuAssumption DEF IInv, StepsOK, Areas, Boot, Starting, Choosing
<1>6. Asleep'
  BY <1>1, <1>3 DEF IInv, Asleep, Boot
<1>7. Conversation'
  BY <1>1, <1>3 DEF IInv, Conversation, Waiting, Choosing, Sent
<1>8. GameChosen'
  BY <1>1, <1>3 DEF IInv, GameChosen, Starting
<1>9. GameInPlace'
  BY <1>1, <1>3, SameGame, SameCopies DEF IInv, GameInPlace, Starting
<1>10. TimeKept'
  BY <1>1, <1>3 DEF IInv, TimeKept, Setting, ChipTime
<1>11. TimeAnswered'
  BY <1>1, <1>3 DEF IInv, TimeAnswered
<1>. QED
  BY <1>2, <1>4, <1>5, <1>6, <1>7, <1>8, <1>9, <1>10, <1>11 DEF IInv

\* The list is the card's, the menu stands in area 1 and the numbers start over.
LEMMA ListGamesKeeps ==
  ASSUME IInv, ListGames PROVE IInv'
<1>1. UNCHANGED <<card, hash, panic, hyper, loaded, fifo, saveRam, chip, faults, mapper, core1,
      gb, cursor, page, real_rtc, presses, wanted, lastSet>>
  BY DEF ListGames, Goto, fixed, gbVars
<1>2. HeldWhileWritten'
  BY StepIsSafe DEF IInv, Next, RpStep
<1>3. /\ rp = "list" /\ rp' = "serve" /\ panic' = panic /\ rom' = [rom EXCEPT ![1] = MENU]
      /\ served' = 1
      /\ idGb' = 0 /\ idRp' = 0 /\ area' = Blank /\ list' \in {<<>>, RomNames} /\ line' = "low"
      /\ gb = "held" /\ fifo = <<>> /\ cursor = 0 /\ page = 0 /\ lastSet = Unset
      /\ hyper = <<>> /\ loaded = 0
  <2>1. rp = "list"
    BY DEF ListGames, Goto
  <2>2. /\ gb = "held" /\ cursor = 0 /\ page = 0 /\ lastSet = Unset
        /\ hyper = <<>> /\ loaded = 0
    BY <2>1 DEF IInv, Asleep, Boot
  <2>3. fifo = <<>>
    BY <2>2 DEF IInv, Conversation
  <2>. QED
    BY <2>1, <2>2, <2>3 DEF ListGames, Goto
<1>4. StepsOK'
  BY <1>1, <1>3, BootMenuAssumption DEF IInv, StepsOK, Areas, Boot, Starting, Choosing
<1>5. RomOK'
  <2>1. MENU \in Contents
    BY DEF Contents
  <2>3. \A a \in Areas : rom'[a] \in {rom[a], MENU}
    BY <1>3 DEF IInv, HeldWhileWritten, Areas
  <2>2. Contents \subseteq Contents'
    BY <1>1, <1>3, ContentsGrow DEF IInv, MenuData
  <2>. QED
    BY <2>1, <2>2, <2>3 DEF IInv, RomOK
<1>6. AreaTypeOK'
  BY <1>3, Texts DEF AreaTypeOK
<1>7. CursorOK'
  <2>1. RomNames = <<>> \/ Len(RomNames) \in Nat \ {0}
    BY NamesOnCard, EmptySeq DEF IInv, MenuData
  <2>. QED
    BY <1>1, <1>3, <2>1, BootMenuAssumption DEF CursorOK
<1>8. Asleep'
  BY <1>1, <1>3 DEF IInv, Asleep, Boot
<1>9. MenuData'
  BY <1>1, <1>3, SameCard DEF IInv, MenuData
<1>10. Conversation'
  BY <1>1, <1>3 DEF IInv, Conversation, Waiting, Choosing, Sent
<1>11. GameChosen'
  BY <1>1, <1>3 DEF IInv, GameChosen, Starting
<1>12. GameInPlace'
  <2>1. rom'[1] = MENU
    BY <1>3 DEF IInv, HeldWhileWritten, Areas
  <2>. QED
    BY <1>1, <1>3, <2>1 DEF GameInPlace, Starting
<1>13. TimeKept'
  BY <1>1, <1>3 DEF IInv, TimeKept, Setting, ChipTime
<1>14. TimeAnswered'
  BY <1>1, <1>3 DEF IInv, TimeAnswered
<1>. QED
  BY <1>2, <1>4, <1>5, <1>6, <1>7, <1>8, <1>9, <1>10, <1>11, <1>12, <1>13, <1>14 DEF IInv

\* The answer is the time that was set, or the epoch after a failed call.
LEMMA ReadTimeKeeps ==
  ASSUME IInv, ReadTime PROVE IInv'
<1>1. UNCHANGED <<card, hash, panic, line, served, rom, hyper, loaded, idGb, idRp, list,
      saveRam, chip, mapper, core1, gb, cursor, page, real_rtc, presses, wanted, lastSet>>
  BY DEF ReadTime, Goto, MayFail, fixed, memVars, gbVars
<1>2. HeldWhileWritten'
  BY StepIsSafe DEF IInv, Next, RpStep
<1>3. /\ rp = "serve" /\ rp' = "acknowledge" /\ gb = "wait read" /\ idGb # idRp
      /\ fifo # <<>> /\ fifo' = <<>> /\ area'.name = NONE
      /\ \/ area'.time = toTimePoint(datetimeOrDefault(chip)) /\ faults' = faults
         \/ area'.time = toTimePoint(Epoch) /\ faults' \in 1..MaxFaults
      /\ faults' \in 0..MaxFaults
  <2>1. rp = "serve" /\ rp' = "acknowledge" /\ Command(RTC_READ)
    BY DEF ReadTime, Goto
  <2>2. gb = "wait read" /\ idGb # idRp /\ fifo # <<>> /\ fifo' = <<>>
    BY <2>1, Commands
  <2>. QED
    <3>1. \/ area' = Timed(toTimePoint(datetimeOrDefault(chip))) /\ faults' = faults
          \/ area' = Timed(toTimePoint(Epoch)) /\ faults' \in 1..MaxFaults
      BY OneMoreFault DEF ReadTime, IInv
    <3>2. faults \in 0..MaxFaults
      BY DEF IInv, StepsOK
    <3>4. 1..MaxFaults \subseteq 0..MaxFaults
      OBVIOUS
    <3>. QED
      BY <2>1, <2>2, <3>1, <3>2, <3>4, Texts
<1>4. RomOK' /\ CursorOK' /\ MenuData'
  BY <1>1, RomStays, CursorStays, MenuDataStays DEF IInv
<1>5. StepsOK'
  BY <1>1, <1>3, BootMenuAssumption DEF IInv, StepsOK, Areas, Boot, Starting, Choosing
<1>6. AreaTypeOK'
  <2>1. area'.time \in TimePoints
    <3>1. datetimeOrDefault(chip).year \in 1970..2225 /\ IsDateTime(datetimeOrDefault(chip))
      <4>1. chip \in Chips
        BY DEF IInv, StepsOK
      <4>. QED
        BY <4>1, ReadIsTime
    <3>2. toTimePoint(datetimeOrDefault(chip)) \in TimePoints
      BY <3>1, ToTimePointIsTime DEF IsTime
    <3>3. toTimePoint(Epoch) \in TimePoints
      BY NoTimeIsTime DEF IsTime
    <3>. QED
      BY <1>3, <3>2, <3>3
  <2>. QED
    BY <1>3, <2>1 DEF AreaTypeOK
<1>7. Asleep'
  BY <1>1, <1>3 DEF IInv, Asleep, Boot
<1>8. Conversation'
  BY <1>1, <1>3 DEF IInv, Conversation, Waiting, Choosing
<1>9. GameChosen'
  BY <1>1, <1>3 DEF IInv, GameChosen, Starting
<1>10. GameInPlace'
  BY <1>1, <1>3, SameGame, SameCopies DEF IInv, GameInPlace, Starting
<1>11. TimeKept'
  BY <1>1, <1>3 DEF IInv, TimeKept, Setting, ChipTime
<1>12. TimeAnswered'
  <2>. DEFINE t == datetimeOrDefault(chip)
  <2>1. IsTime(toTimePoint(t)) /\ IsTime(toTimePoint(Epoch))
    <3>1. t.year \in 1970..2225 /\ IsDateTime(t)
      <4>1. chip \in Chips
        BY DEF IInv, StepsOK
      <4>. QED
        BY <4>1, ReadIsTime
    <3>. QED
      BY <3>1, ToTimePointIsTime, NoTimeIsTime
  <2>2. ASSUME lastSet # Unset PROVE toTimePoint(t) = lastSet
    <3>1. IsTime(lastSet) /\ datetime(chip) = fromTimePoint(lastSet)
      BY <1>3, <2>2 DEF IInv, TimeKept, Setting, ChipTime
    <3>2. ~IsDateTime(NoDate)
      BY DEF IsDateTime, NoDate
    <3>3. t = fromTimePoint(lastSet)
      BY <3>1, <3>2 DEF datetimeOrDefault, IsTime
    <3>. QED
      BY <3>1, <3>3, TimePointThereAndBack DEF IsTime
  <2>3. faults' \in 1..MaxFaults => faults' > 0
    BY BootMenuAssumption
  <2>. HIDE DEF t
  <2>4. /\ IsTime(area'.time)
        /\ lastSet # Unset =>
             area'.time = lastSet \/ (faults' > 0 /\ area'.time = toTimePoint(Epoch))
    BY <1>3, <2>1, <2>2, <2>3 DEF t
  <2>. QED
    BY <1>1, <2>4 DEF TimeAnswered
<1>. QED
  BY <1>2, <1>4, <1>5, <1>6, <1>7, <1>8, <1>9, <1>10, <1>11, <1>12 DEF IInv

\* The chip holds what the menu set, unless the firmware gave up.
LEMMA WriteTimeKeeps ==
  ASSUME IInv, WriteTime PROVE IInv'
<1>1. UNCHANGED <<card, hash, line, served, rom, hyper, loaded, idGb, idRp, list, area, saveRam,
      mapper, core1, gb, cursor, page, real_rtc, presses, wanted, lastSet>>
  BY DEF WriteTime, Goto, Panic, MayFail, fixed, memVars, gbVars
<1>2. HeldWhileWritten'
  BY StepIsSafe DEF IInv, Next, RpStep
<1>3. /\ rp = "serve" /\ rp' \in {"acknowledge", "panic"} /\ gb = "wait write" /\ idGb # idRp
      /\ fifo # <<>> /\ fifo' = <<>> /\ panic' \in {panic, "year", "chip"}
      /\ faults' \in 0..MaxFaults
  <2>1. rp = "serve" /\ Command(RTC_WRITE)
    BY DEF WriteTime
  <2>2. gb = "wait write" /\ idGb # idRp /\ fifo # <<>> /\ fifo' = <<>>
    BY <2>1, Commands
  <2>3. rp' \in {"acknowledge", "panic"} /\ panic' \in {panic, "year", "chip"}
    BY DEF WriteTime, Goto, Panic
  <2>4. faults' \in 0..MaxFaults
    <3>1. faults \in 0..MaxFaults
      BY DEF IInv, StepsOK
    <3>. QED
      BY <3>1, OneMoreFault DEF WriteTime, IInv
  <2>. QED
    BY <2>1, <2>2, <2>3, <2>4
<1>4. RomOK' /\ AreaTypeOK' /\ CursorOK' /\ MenuData'
  BY <1>1, RomStays, AreaStays, CursorStays, MenuDataStays DEF IInv
<1>5. StepsOK'
  <2>1. chip' \in Chips
    BY SetIsChip DEF WriteTime, IInv, StepsOK
  <2>. QED
    BY <1>1, <1>3, <2>1 DEF IInv, StepsOK, Boot, Starting, Choosing
<1>6. Asleep'
  BY <1>1, <1>3 DEF IInv, Asleep, Boot
<1>7. Conversation'
  BY <1>1, <1>3 DEF IInv, Conversation, Waiting, Choosing
<1>8. GameChosen'
  BY <1>1, <1>3 DEF IInv, GameChosen, Starting
<1>9. GameInPlace'
  BY <1>1, <1>3, SameGame, SameCopies DEF IInv, GameInPlace, Starting
<1>10. TimeKept'
  <2>. DEFINE t == fromTimePoint(area.time)
  <2>1. ASSUME lastSet # Unset, rp' # "panic" PROVE datetime(chip') = fromTimePoint(lastSet)
    <3>1. area.time = lastSet /\ IsDateTime(t)
      BY <1>3, <2>1 DEF IInv, TimeKept, Setting, IsTime
    <3>2. Settable(t) /\ chip' = set_datetime(chip, t)
      BY <2>1, <3>1 DEF WriteTime, Panic
    <3>3. t = [year |-> t.year, month |-> t.month, date |-> t.date, hour |-> t.hour,
               minute |-> t.minute]
      BY DEF fromTimePoint
    <3>. HIDE DEF t
    <3>4. datetime(chip') = t
      BY <3>1, <3>2, <3>3, SetIsRead
    <3>. QED
      BY <3>1, <3>4 DEF t
  <2>2. ~Setting'
    BY <1>1, <1>3 DEF Setting
  <2>. QED
    BY <1>1, <2>1, <2>2 DEF IInv, TimeKept, ChipTime
<1>11. TimeAnswered'
  BY <1>1, <1>3 DEF IInv, TimeAnswered
<1>. QED
  BY <1>2, <1>4, <1>5, <1>6, <1>7, <1>8, <1>9, <1>10, <1>11 DEF IInv

\* The number goes up to the one the menu waits for.
LEMMA AcknowledgeKeeps ==
  ASSUME IInv, Acknowledge PROVE IInv'
<1>1. UNCHANGED <<card, hash, panic, line, served, rom, hyper, loaded, fifo, idGb, list, area,
      saveRam, chip, faults, mapper, core1, gb, cursor, page, real_rtc, presses, wanted,
      lastSet>>
  BY DEF Acknowledge, Goto, fixed, memVars, gbVars
<1>2. HeldWhileWritten'
  BY StepIsSafe DEF IInv, Next, RpStep
<1>3. RomOK' /\ AreaTypeOK' /\ CursorOK' /\ MenuData' /\ TimeAnswered'
  BY <1>1, RomStays, AreaStays, CursorStays, MenuDataStays, TimeAnsweredStays DEF IInv
<1>4. StepsOK'
  BY <1>1, BootMenuAssumption DEF IInv, StepsOK, Areas, Boot, Starting, Choosing, Acknowledge,
     Goto
<1>5. Asleep'
  BY <1>1 DEF IInv, Asleep, Boot, Acknowledge, Goto
<1>6. Conversation'
  BY <1>1 DEF IInv, Conversation, Waiting, Choosing, Sent, Acknowledge, Goto
<1>7. GameChosen'
  BY <1>1 DEF IInv, GameChosen, Starting, Acknowledge, Goto
<1>8. GameInPlace'
  BY <1>1, SameGame, SameCopies DEF IInv, GameInPlace, Starting, Acknowledge, Goto
<1>9. TimeKept'
  BY <1>1 DEF IInv, TimeKept, Setting, ChipTime, Acknowledge, Goto
<1>. QED
  BY <1>2, <1>3, <1>4, <1>5, <1>6, <1>7, <1>8, <1>9 DEF IInv

\* Only the menu's first write is dropped: a command stays in the FIFO.
LEMMA IgnoreWriteKeeps ==
  ASSUME IInv, IgnoreWrite PROVE IInv'
<1>1. UNCHANGED <<card, hash, rp, panic, line, served, rom, hyper, loaded, idGb, idRp, list,
      area, saveRam, chip, faults, mapper, core1, gb, cursor, page, real_rtc, presses, wanted,
      lastSet>>
  BY DEF IgnoreWrite, fixed, rpVars, memVars, gbVars
<1>2. HeldWhileWritten'
  BY StepIsSafe DEF IInv, Next, RpStep
<1>3. RomOK' /\ AreaTypeOK' /\ CursorOK' /\ Asleep' /\ MenuData' /\ GameChosen' /\ GameInPlace'
  BY <1>1, RomStays, AreaStays, CursorStays, AsleepStays, MenuDataStays, GameChosenStays,
     GameInPlaceStays DEF IInv
<1>4. StepsOK'
  BY <1>1, BootMenuAssumption DEF IInv, StepsOK, Areas, Boot, Starting, Choosing, IgnoreWrite
<1>5. Conversation'
  <2>1. fifo # <<>> /\ (fifo = <<Enable>> => fifo' = <<>>) /\ (\A c : Sent(c) => Sent(c)')
    BY WriteIgnored
  <2>2. rp = "serve"
    BY DEF IgnoreWrite
  <2>3. /\ gb = "wait read" => idGb # idRp /\ Sent(RTC_READ)
        /\ gb = "wait write" => idGb # idRp /\ Sent(RTC_WRITE)
        /\ gb = "loading" => Sent(START)
    BY <2>1, <2>2 DEF IInv, Conversation, Waiting
  <2>. QED
    BY <1>1, <2>1, <2>2, <2>3 DEF IInv, Conversation, Waiting
<1>6. TimeKept'
  <2>1. fifo # <<>>
    BY WriteIgnored
  <2>2. gb = "wait write" => Sent(RTC_WRITE)
    BY <2>1 DEF IInv, Conversation, Waiting, IgnoreWrite
  <2>3. gb = "wait write" => fifo' # <<>>
    BY <2>2, WriteIgnored, SentStays
  <2>. QED
    BY <1>1, <2>1, <2>3 DEF IInv, TimeKept, Setting, ChipTime
<1>7. TimeAnswered'
  <2>1. fifo # <<>>
    BY WriteIgnored
  <2>2. gb = "wait read" => Sent(RTC_READ)
    BY <2>1 DEF IInv, Conversation, Waiting, IgnoreWrite
  <2>3. gb = "wait read" => fifo' # <<>>
    BY <2>2, WriteIgnored, SentStays
  <2>. QED
    BY <1>1, <2>3 DEF TimeAnswered
<1>. QED
  BY <1>2, <1>3, <1>4, <1>5, <1>6, <1>7 DEF IInv

\* The file opened is the one the player saw, and bank 0 of it is read.
LEMMA OpenGameKeeps ==
  ASSUME IInv, OpenGame PROVE IInv'
<1>1. UNCHANGED <<card, hash, line, served, hyper, idGb, idRp, list, area, saveRam, chip,
      mapper, core1, gb, cursor, page, real_rtc, presses, wanted, lastSet>>
  BY DEF OpenGame, Goto, Panic, MayFail, fixed, gbVars
<1>2. HeldWhileWritten'
  BY StepIsSafe DEF IInv, Next, RpStep
<1>3. /\ rp = "serve" /\ gb = "loading" /\ fifo # <<>> /\ fifo' = <<>> /\ area.name = wanted
      /\ panic' \in {panic, "header", "card"} /\ faults' \in 0..MaxFaults
      /\ \/ rp' = "load" /\ rom' = [rom EXCEPT ![0] = <<wanted, 0>>] /\ loaded' = 1
         \/ rp' = "panic" /\ rom' = [rom EXCEPT ![0] = <<wanted, 0>>] /\ loaded' = loaded
         \/ rp' = "panic" /\ rom' = rom /\ loaded' = loaded
  <2>1. rp = "serve" /\ Command(START)
    BY DEF OpenGame
  <2>2. gb = "loading" /\ fifo # <<>> /\ fifo' = <<>>
    BY <2>1, Commands
  <2>3. area.name = wanted
    BY <2>2 DEF IInv, GameChosen
  <2>4. panic' \in {panic, "header", "card"} /\ faults' \in 0..MaxFaults
    <3>1. faults \in 0..MaxFaults
      BY DEF IInv, StepsOK
    <3>2. MayFail => faults' \in 0..MaxFaults
      BY OneMoreFault DEF IInv
    <3>3. faults' \in 0..MaxFaults
      BY <3>1, <3>2 DEF OpenGame
    <3>4. panic' \in {panic, "header", "card"}
      BY DEF OpenGame, Goto, Panic
    <3>. QED
      BY <3>3, <3>4
  <2>5. \/ rp' = "load" /\ rom' = [rom EXCEPT ![0] = <<wanted, 0>>] /\ loaded' = 1
        \/ rp' = "panic" /\ rom' = [rom EXCEPT ![0] = <<wanted, 0>>] /\ loaded' = loaded
        \/ rp' = "panic" /\ rom' = rom /\ loaded' = loaded
    BY <2>3 DEF OpenGame, Goto, Panic
  <2>. QED
    BY <2>1, <2>2, <2>3, <2>4, <2>5
<1>4. AreaTypeOK' /\ CursorOK'
  BY <1>1, AreaStays, CursorStays DEF IInv
<1>5. StepsOK'
  BY <1>1, <1>3, BootMenuAssumption DEF IInv, StepsOK, Areas, Boot, Starting, Choosing
<1>6. RomOK'
  <2>1. \E e \in Range(card.entries) : e.name = wanted /\ e.isRom
    BY <1>3 DEF IInv, GameChosen
  <2>2. loaded \in Nat /\ loaded' \in Nat /\ loaded <= loaded'
    BY <1>3 DEF IInv, MenuData, GameInPlace
  <2>3. Contents \subseteq Contents' /\ <<wanted, 0>> \in Contents'
    BY <1>1, <2>1, <2>2, ContentsGrow
  <2>4. \A a \in Areas : rom'[a] \in {rom[a], <<wanted, 0>>}
    BY <1>3 DEF IInv, HeldWhileWritten, Areas
  <2>. QED
    BY <2>3, <2>4 DEF IInv, RomOK
<1>7. Asleep'
  BY <1>1, <1>3 DEF IInv, Asleep, Boot
<1>8. MenuData'
  BY <1>1, <1>3, SameCard DEF IInv, MenuData
<1>9. Conversation'
  BY <1>1, <1>3 DEF IInv, Conversation, Waiting, Choosing
<1>10. GameChosen'
  BY <1>1, <1>3 DEF IInv, GameChosen, Starting
<1>11. GameInPlace'
  <2>1. CASE rp' = "panic"
    BY <2>1 DEF GameInPlace, Starting
  <2>2. CASE rp' = "load"
    <3>1. rom' = [rom EXCEPT ![0] = <<wanted, 0>>] /\ loaded' = 1
      BY <1>3, <2>2
    <3>2. rom'[0] = <<wanted, 0>> /\ rom'[1] = MENU
      BY <1>3, <3>1 DEF IInv, HeldWhileWritten, GameInPlace, Areas
    <3>3. hyper' = Copies'
      BY <1>1, <1>3, <3>1, NoCopies DEF IInv, GameInPlace
    <3>4. Game' = Game /\ 1 \in 1..Game.banks
      BY <1>1, <1>3, SameGame, GameIsFile DEF IInv, MenuData, GameChosen
    <3>. QED
      BY <1>1, <2>2, <3>1, <3>2, <3>3, <3>4 DEF GameInPlace, Starting
  <2>. QED
    BY <1>3, <2>1, <2>2
<1>12. TimeKept'
  BY <1>1, <1>3 DEF IInv, TimeKept, Setting, ChipTime
<1>13. TimeAnswered'
  BY <1>1, <1>3 DEF IInv, TimeAnswered
<1>. QED
  BY <1>2, <1>4, <1>5, <1>6, <1>7, <1>8, <1>9, <1>10, <1>11, <1>12, <1>13 DEF IInv

\* Each bank read is the next of the same file.
LEMMA LoadBankKeeps ==
  ASSUME IInv, LoadBank PROVE IInv'
<1>1. UNCHANGED <<card, hash, line, served, fifo, idGb, idRp, list, area, saveRam, chip, mapper,
      core1, gb, cursor, page, real_rtc, presses, wanted, lastSet>>
  BY DEF LoadBank, Panic, MayFail, fixed, rpVars, msgVars, gbVars
<1>2. HeldWhileWritten'
  BY StepIsSafe DEF IInv, Next, RpStep
<1>3. /\ rp = "load" /\ gb = "loading" /\ loaded < Game.banks /\ faults' \in 0..MaxFaults
      /\ panic' \in {panic, "card"}
      /\ \/ /\ rp' = "load" /\ rom' = [rom EXCEPT ![2] = <<wanted, loaded>>]
            /\ hyper' = Append(hyper, <<wanted, loaded>>) /\ loaded' = loaded + 1
         \/ rp' = "panic" /\ rom' = rom /\ hyper' = hyper /\ loaded' = loaded
  <2>1. rp = "load" /\ area.name = wanted
    BY DEF LoadBank, IInv, GameChosen, Starting
  <2>2. loaded < Game.banks
    BY <2>1 DEF LoadBank, MoreBanks, Game
  <2>3. faults' \in 0..MaxFaults /\ panic' \in {panic, "card"}
    <3>1. faults \in 0..MaxFaults
      BY DEF IInv, StepsOK
    <3>. QED
      BY <3>1, OneMoreFault DEF LoadBank, Panic, IInv, rpVars
  <2>4. \/ /\ rp' = "load" /\ rom' = [rom EXCEPT ![2] = <<wanted, loaded>>]
           /\ hyper' = Append(hyper, <<wanted, loaded>>) /\ loaded' = loaded + 1
        \/ rp' = "panic" /\ rom' = rom /\ hyper' = hyper /\ loaded' = loaded
    BY <2>1 DEF LoadBank, Panic, rpVars
  <2>5. gb = "loading"
    BY <2>1 DEF IInv, Conversation, Choosing, StepsOK, Waiting
  <2>. QED
    BY <2>1, <2>2, <2>3, <2>4, <2>5
<1>4. AreaTypeOK' /\ CursorOK'
  BY <1>1, AreaStays, CursorStays DEF IInv
<1>5. StepsOK'
  BY <1>1, <1>3, BootMenuAssumption DEF IInv, StepsOK, Areas, Boot, Starting, Choosing
<1>6. RomOK'
  <2>1. Game \in Range(card.entries) /\ Game.name = wanted
    BY <1>3, GameIsFile DEF IInv, MenuData, GameChosen, Starting
  <2>2. loaded \in Nat /\ loaded' \in Nat /\ loaded <= loaded'
    BY <1>3 DEF IInv, MenuData
  <2>3. Contents \subseteq Contents' /\ <<Game.name, loaded>> \in Contents'
    BY <1>1, <2>1, <2>2, ContentsGrow
  <2>4. \A a \in Areas : rom'[a] \in {rom[a], <<wanted, loaded>>}
    BY <1>3 DEF IInv, HeldWhileWritten, Areas
  <2>. QED
    BY <2>1, <2>3, <2>4 DEF IInv, RomOK
<1>7. Asleep'
  BY <1>1, <1>3 DEF IInv, Asleep, Boot
<1>8. MenuData'
  BY <1>1, <1>3, SameCard DEF IInv, MenuData
<1>9. Conversation'
  BY <1>1, <1>3 DEF IInv, Conversation, Waiting, Choosing, Sent
<1>10. GameChosen'
  BY <1>1, <1>3 DEF IInv, GameChosen, Starting
<1>11. GameInPlace'
  <2>1. CASE rp' = "panic"
    BY <2>1 DEF GameInPlace, Starting
  <2>2. CASE rp' = "load"
    <3>1. /\ rom' = [rom EXCEPT ![2] = <<wanted, loaded>>] /\ loaded' = loaded + 1
          /\ hyper' = Append(hyper, <<wanted, loaded>>)
      BY <1>3, <2>2
    <3>2. rom'[0] = <<wanted, 0>> /\ rom'[1] = MENU
      BY <1>3, <3>1 DEF IInv, HeldWhileWritten, GameInPlace, Areas, Starting
    <3>3. loaded \in 1..Game.banks /\ hyper = Copies /\ Game.banks \in Nat
      BY <1>3, GameIsFile DEF IInv, GameInPlace, MenuData, GameChosen, Starting
    <3>4. hyper' = Copies'
      BY <1>1, <3>1, <3>3, OneMoreCopy
    <3>5. Game' = Game /\ loaded' \in 1..Game.banks
      BY <1>1, <1>3, <3>1, <3>3, SameGame
    <3>. QED
      BY <1>1, <2>2, <3>2, <3>4, <3>5 DEF GameInPlace, Starting
  <2>. QED
    BY <1>3, <2>1, <2>2
<1>12. TimeKept'
  BY <1>1, <1>3 DEF IInv, TimeKept, Setting, ChipTime
<1>13. TimeAnswered'
  BY <1>1, <1>3 DEF IInv, TimeAnswered
<1>. QED
  BY <1>2, <1>4, <1>5, <1>6, <1>7, <1>8, <1>9, <1>10, <1>11, <1>12, <1>13 DEF IInv

\* The Game Boy is held once every bank is there.
LEMMA HoldGameBoyKeeps ==
  ASSUME IInv, HoldGameBoy PROVE IInv'
<1>1. UNCHANGED <<card, hash, panic, served, rom, hyper, loaded, fifo, idGb, idRp, list, area,
      saveRam, chip, faults, mapper, core1, cursor, page, real_rtc, presses, wanted, lastSet>>
  BY DEF HoldGameBoy, Goto, fixed, memVars, msgVars
<1>2. HeldWhileWritten'
  BY StepIsSafe DEF IInv, Next, RpStep
<1>3. /\ rp = "load" /\ rp' = "switch" /\ panic' = panic /\ line' = "high" /\ gb' = "held"
      /\ gb = "loading" /\ fifo = <<>> /\ ~(loaded < Game.banks)
  <2>1. /\ rp = "load" /\ rp' = "switch" /\ panic' = panic /\ line' = "high" /\ gb' = "held"
        /\ ~MoreBanks
    BY DEF HoldGameBoy, Goto
  <2>2. area.name = wanted
    BY <2>1 DEF IInv, GameChosen, Starting
  <2>3. ~(loaded < Game.banks)
    BY <2>1, <2>2 DEF MoreBanks, Game
  <2>4. gb = "loading" /\ fifo = <<>>
    BY <2>1 DEF IInv, Conversation, Choosing, StepsOK, Waiting
  <2>. QED
    BY <2>1, <2>3, <2>4
<1>4. RomOK' /\ AreaTypeOK' /\ CursorOK' /\ MenuData'
  BY <1>1, RomStays, AreaStays, CursorStays, MenuDataStays DEF IInv
<1>5. StepsOK'
  BY <1>1, <1>3, BootMenuAssumption DEF IInv, StepsOK, Areas, Boot, Starting, Choosing
<1>6. Asleep'
  BY <1>1, <1>3 DEF IInv, Asleep, Boot
<1>7. Conversation'
  BY <1>1, <1>3 DEF IInv, Conversation, Waiting, Choosing, Sent
<1>8. GameChosen'
  BY <1>1, <1>3 DEF IInv, GameChosen, Starting
<1>9. GameInPlace'
  <2>1. loaded = Game.banks
    BY <1>3, GameIsFile DEF IInv, GameInPlace, MenuData, GameChosen, Starting
  <2>. QED
    BY <1>1, <1>3, <2>1, SameGame, SameCopies DEF IInv, GameInPlace, Starting
<1>10. TimeKept'
  BY <1>1, <1>3 DEF IInv, TimeKept, Setting, ChipTime
<1>11. TimeAnswered'
  BY <1>1, <1>3 DEF IInv, TimeAnswered
<1>. QED
  BY <1>2, <1>4, <1>5, <1>6, <1>7, <1>8, <1>9, <1>10, <1>11 DEF IInv

\* The pointer moves to the area that holds the game.
LEMMA SwitchBank0Keeps ==
  ASSUME IInv, SwitchBank0 PROVE IInv'
<1>1. UNCHANGED <<card, hash, panic, line, rom, hyper, loaded, fifo, idGb, idRp, list, area,
      saveRam, chip, faults, mapper, core1, gb, cursor, page, real_rtc, presses, wanted,
      lastSet>>
  BY DEF SwitchBank0, Goto, fixed, msgVars, gbVars
<1>2. HeldWhileWritten'
  BY StepIsSafe DEF IInv, Next, RpStep
<1>3. /\ rp = "switch" /\ rp' = "restore" /\ panic' = panic /\ served' = 0
  BY DEF SwitchBank0, Goto
<1>4. RomOK' /\ AreaTypeOK' /\ CursorOK' /\ MenuData' /\ TimeAnswered'
  BY <1>1, RomStays, AreaStays, CursorStays, MenuDataStays, TimeAnsweredStays DEF IInv
<1>5. StepsOK'
  <2>1. rp' \in Starting /\ served' \in Areas
    BY <1>3 DEF Starting, Areas
  <2>. QED
    BY <1>1, <2>1 DEF IInv, StepsOK
<1>6. Asleep'
  BY <1>1, <1>3 DEF IInv, Asleep, Boot
<1>7. Conversation'
  BY <1>1, <1>3 DEF IInv, Conversation, Waiting, Choosing, Sent
<1>8. GameChosen'
  BY <1>1, <1>3 DEF IInv, GameChosen, Starting
<1>9. GameInPlace'
  BY <1>1, <1>3, SameGame, SameCopies DEF IInv, GameInPlace, Starting
<1>10. TimeKept'
  BY <1>1, <1>3 DEF IInv, TimeKept, Setting, ChipTime
<1>. QED
  BY <1>2, <1>4, <1>5, <1>6, <1>7, <1>8, <1>9, <1>10 DEF IInv

\* The RAM is the save of the same game, or zeroes.
LEMMA RestoreSaveKeeps ==
  ASSUME IInv, RestoreSave PROVE IInv'
<1>1. UNCHANGED <<card, hash, panic, line, served, rom, hyper, loaded, fifo, idGb, idRp, list,
      area, chip, faults, mapper, core1, gb, cursor, page, real_rtc, presses, wanted, lastSet>>
  BY DEF RestoreSave, Goto, fixed, msgVars, gbVars
<1>2. HeldWhileWritten'
  BY StepIsSafe DEF IInv, Next, RpStep
<1>3. /\ rp = "restore" /\ rp' = "mapper" /\ panic' = panic
      /\ GameHasRam => saveRam' \in {<<wanted, 0>>, ZEROS}
  <2>1. rp = "restore" /\ rp' = "mapper" /\ panic' = panic
    BY DEF RestoreSave, Goto
  <2>2. area.name = wanted
    BY <2>1 DEF IInv, GameChosen, Starting
  <2>3. RomInfo(Game).ram_bank_count # 0 => saveRam' \in {<<wanted, 0>>, ZEROS}
    BY <2>2 DEF RestoreSave, Game
  <2>4. GameHasRam => RomInfo(Game).ram_bank_count # 0
    BY DEF GameHasRam
  <2>. QED
    BY <2>1, <2>3, <2>4
<1>4. RomOK' /\ AreaTypeOK' /\ CursorOK' /\ MenuData' /\ TimeAnswered'
  BY <1>1, RomStays, AreaStays, CursorStays, MenuDataStays, TimeAnsweredStays DEF IInv
<1>5. StepsOK'
  BY <1>1, <1>3, BootMenuAssumption DEF IInv, StepsOK, Areas, Boot, Starting, Choosing
<1>6. Asleep'
  BY <1>1, <1>3 DEF IInv, Asleep, Boot
<1>7. Conversation'
  BY <1>1, <1>3 DEF IInv, Conversation, Waiting, Choosing, Sent
<1>8. GameChosen'
  BY <1>1, <1>3 DEF IInv, GameChosen, Starting
<1>9. GameInPlace'
  BY <1>1, <1>3, SameGame, SameCopies DEF IInv, GameInPlace, Starting
<1>10. TimeKept'
  BY <1>1, <1>3 DEF IInv, TimeKept, Setting, ChipTime
<1>. QED
  BY <1>2, <1>4, <1>5, <1>6, <1>7, <1>8, <1>9, <1>10 DEF IInv

\* The controller is the one in the header of the game.
LEMMA ChooseMapperKeeps ==
  ASSUME IInv, ChooseMapper PROVE IInv'
<1>1. UNCHANGED <<card, hash, line, served, rom, hyper, loaded, fifo, idGb, idRp, list, area,
      saveRam, chip, faults, gb, cursor, page, real_rtc, presses, wanted, lastSet>>
  BY DEF ChooseMapper, Goto, Panic, fixed, msgVars, gbVars
<1>2. HeldWhileWritten'
  BY StepIsSafe DEF IInv, Next, RpStep
<1>3. /\ rp = "mapper" /\ rp' \in {"release", "panic"} /\ panic' \in {panic, "unimplemented"}
      /\ rp' = "release" => mapper' = GameMbc
  <2>1. rp = "mapper"
    BY DEF ChooseMapper
  <2>2. area.name = wanted
    BY <2>1 DEF IInv, GameChosen, Starting
  <2>. QED
    BY <2>1, <2>2 DEF ChooseMapper, Goto, Panic, GameMbc, Game
<1>4. RomOK' /\ AreaTypeOK' /\ CursorOK' /\ MenuData' /\ TimeAnswered'
  BY <1>1, RomStays, AreaStays, CursorStays, MenuDataStays, TimeAnsweredStays DEF IInv
<1>5. StepsOK'
  BY <1>1, <1>3, BootMenuAssumption DEF IInv, StepsOK, Areas, Boot, Starting, Choosing
<1>6. Asleep'
  BY <1>1, <1>3 DEF IInv, Asleep, Boot
<1>7. Conversation'
  BY <1>1, <1>3 DEF IInv, Conversation, Waiting, Choosing, Sent
<1>8. GameChosen'
  BY <1>1, <1>3 DEF IInv, GameChosen, Starting
<1>9. GameInPlace'
  BY <1>1, <1>3, SameGame, SameCopies DEF IInv, GameInPlace, Starting
<1>10. TimeKept'
  BY <1>1, <1>3 DEF IInv, TimeKept, Setting, ChipTime
<1>. QED
  BY <1>2, <1>4, <1>5, <1>6, <1>7, <1>8, <1>9, <1>10 DEF IInv

\* The line falls when everything is in place.
LEMMA ReleaseGameKeeps ==
  ASSUME IInv, ReleaseGame PROVE IInv'
<1>1. UNCHANGED <<card, hash, panic, served, rom, hyper, loaded, fifo, idGb, idRp, list, area,
      saveRam, chip, faults, mapper, core1, gb, cursor, page, real_rtc, presses, wanted,
      lastSet>>
  BY DEF ReleaseGame, Goto, fixed, memVars, msgVars, gbVars
<1>2. HeldWhileWritten'
  BY StepIsSafe DEF IInv, Next, RpStep
<1>3. RomOK' /\ AreaTypeOK' /\ CursorOK' /\ MenuData' /\ TimeAnswered'
  BY <1>1, RomStays, AreaStays, CursorStays, MenuDataStays, TimeAnsweredStays DEF IInv
<1>4. StepsOK'
  BY <1>1, BootMenuAssumption DEF IInv, StepsOK, Areas, Boot, Starting, Choosing, ReleaseGame,
     Goto
<1>5. Asleep'
  BY <1>1 DEF IInv, Asleep, Boot, ReleaseGame, Goto
<1>6. Conversation'
  BY <1>1 DEF IInv, Conversation, Waiting, Choosing, Sent, ReleaseGame, Goto
<1>7. GameChosen'
  BY <1>1 DEF IInv, GameChosen, Starting, ReleaseGame, Goto
<1>8. GameInPlace'
  BY <1>1, SameGame, SameCopies DEF IInv, GameInPlace, Starting, ReleaseGame, Goto
<1>9. TimeKept'
  BY <1>1 DEF IInv, TimeKept, Setting, ChipTime, ReleaseGame, Goto
<1>. QED
  BY <1>2, <1>3, <1>4, <1>5, <1>6, <1>7, <1>8, <1>9 DEF IInv

\* A released Game Boy starts in what the pointer serves.
LEMMA GbStartKeeps ==
  ASSUME IInv, GbStart PROVE IInv'
<1>1. UNCHANGED <<card, hash, rp, panic, line, served, rom, hyper, loaded, idRp, list, saveRam,
      chip, faults, mapper, core1, cursor, page, real_rtc, presses, wanted, lastSet>>
  BY DEF GbStart, others, fixed, rpVars, memVars, timeVars, cursorVars
<1>2. HeldWhileWritten'
  BY StepIsSafe DEF IInv, Next, GbStep
<1>3. /\ gb = "held" /\ line = "low"
      /\ \/ /\ rp = "serve" /\ gb' = "games" /\ fifo' = <<Enable>> /\ idGb' = 1 /\ idRp = 0
            /\ area' = Blank
         \/ rp = "game" /\ gb' = "game" /\ UNCHANGED <<fifo, idGb, area>>
  <2>1. gb = "held" /\ line = "low"
    BY DEF GbStart
  <2>2. fifo = <<>> /\ rp \in {"serve", "game"}
    BY <2>1 DEF IInv, Conversation
  <2>3. CASE rp = "serve"
    <3>1. rom[served] = MENU /\ idRp = 0
      BY <2>1, <2>3 DEF IInv, HeldWhileWritten, GameInPlace, Conversation
    <3>2. ToRp(0, 10) => fifo' = <<Enable>>
      BY <2>2, ShortSeqs DEF ToRp, Enable
    <3>. QED
      BY <2>1, <2>3, <3>1, <3>2 DEF GbStart
  <2>4. CASE rp = "game"
    <3>1. rom[served] = <<wanted, 0>>
      BY <2>4 DEF IInv, GameInPlace, Starting
    <3>2. <<wanted, 0>> # MENU
      BY <2>4, GameIsFile DEF IInv, MenuData, GameChosen, Starting
    <3>. QED
      BY <2>1, <2>4, <3>1, <3>2 DEF GbStart
  <2>. QED
    BY <2>2, <2>3, <2>4
<1>4. RomOK' /\ CursorOK' /\ MenuData' /\ GameInPlace'
  BY <1>1, RomStays, CursorStays, MenuDataStays, GameInPlaceStays DEF IInv
<1>5. StepsOK'
  <2>1. 1 \in 0..IdMod - 1
    BY BootMenuAssumption
  <2>. QED
    BY <1>1, <1>3, <2>1 DEF IInv, StepsOK, Choosing
<1>6. AreaTypeOK'
  BY <1>1, <1>3, Texts DEF IInv, AreaTypeOK
<1>7. Asleep'
  BY <1>1, <1>3 DEF IInv, Asleep, Boot
<1>8. Conversation'
  BY <1>1, <1>3 DEF IInv, Conversation, Waiting, Choosing
<1>9. GameChosen'
  BY <1>1, <1>3 DEF IInv, GameChosen, Starting
<1>10. TimeKept'
  BY <1>1, <1>3 DEF IInv, TimeKept, Setting, ChipTime
<1>11. TimeAnswered'
  BY <1>1, <1>3 DEF IInv, TimeAnswered
<1>. QED
  BY <1>2, <1>4, <1>5, <1>6, <1>7, <1>8, <1>9, <1>10, <1>11 DEF IInv

\* One command is sent, behind the first write at most.
LEMMA SendCommandKeeps ==
  ASSUME IInv, SendCommand PROVE IInv'
<1>1. UNCHANGED <<card, hash, rp, panic, line, served, rom, hyper, loaded, idGb, idRp, list,
      area, saveRam, chip, faults, mapper, core1, cursor, page, real_rtc, presses, wanted,
      lastSet>>
  BY DEF SendCommand, Screen, others, fixed, rpVars, memVars, timeVars, cursorVars
<1>2. HeldWhileWritten'
  BY StepIsSafe DEF IInv, Next, GbStep
<1>3. /\ rp = "serve" /\ idGb # idRp /\ fifo' # <<>>
      /\ \/ gb = "ask read" /\ gb' = "wait read" /\ Sent(RTC_READ)'
         \/ gb = "ask write" /\ gb' = "wait write" /\ Sent(RTC_WRITE)'
  <2>1. \/ gb = "ask read" /\ gb' = "wait read" /\ ToRp(CMD, RTC_READ)
        \/ gb = "ask write" /\ gb' = "wait write" /\ ToRp(CMD, RTC_WRITE)
    BY DEF SendCommand, Screen
  <2>2. rp = "serve" /\ idGb # idRp /\ fifo \in {<<>>, <<Enable>>}
    BY <2>1 DEF IInv, Conversation, Choosing
  <2>3. CASE gb = "ask read"
    BY <2>1, <2>2, <2>3, CommandSent, SentStays
  <2>4. CASE gb = "ask write"
    BY <2>1, <2>2, <2>4, CommandSent, SentStays
  <2>. QED
    BY <2>1, <2>3, <2>4
<1>4. RomOK' /\ AreaTypeOK' /\ CursorOK' /\ MenuData' /\ GameInPlace'
  BY <1>1, RomStays, AreaStays, CursorStays, MenuDataStays, GameInPlaceStays DEF IInv
<1>5. StepsOK'
  BY <1>1, <1>3, BootMenuAssumption DEF IInv, StepsOK, Areas, Boot, Starting, Choosing
<1>6. Asleep'
  BY <1>1, <1>3 DEF IInv, Asleep, Boot
<1>7. Conversation'
  BY <1>1, <1>3 DEF IInv, Conversation, Waiting, Choosing
<1>8. GameChosen'
  BY <1>1, <1>3 DEF IInv, GameChosen, Starting
<1>9. TimeKept'
  BY <1>1, <1>3 DEF IInv, TimeKept, Setting, ChipTime
<1>10. TimeAnswered'
  BY <1>1, <1>3 DEF IInv, TimeAnswered
<1>. QED
  BY <1>2, <1>4, <1>5, <1>6, <1>7, <1>8, <1>9, <1>10 DEF IInv

\* The menu takes the answer, a time of chrono.
LEMMA TimeReadKeeps ==
  ASSUME IInv, TimeRead PROVE IInv'
<1>1. UNCHANGED <<card, hash, rp, panic, line, served, rom, hyper, loaded, fifo, idGb, idRp,
      list, area, saveRam, chip, faults, mapper, core1, cursor, page, presses, wanted, lastSet>>
  BY DEF TimeRead, Screen, others, fixed, rpVars, memVars, msgVars, cursorVars
<1>2. HeldWhileWritten'
  BY StepIsSafe DEF IInv, Next, GbStep
<1>3. /\ gb = "wait read" /\ gb' = "time" /\ rp = "serve" /\ idGb = idRp /\ fifo = <<>>
      /\ IsTime(area.time) /\ real_rtc' = area.time
  <2>1. gb = "wait read" /\ gb' = "time" /\ idGb = idRp /\ real_rtc' = area.time
    BY DEF TimeRead, Screen
  <2>2. rp = "serve" /\ fifo = <<>>
    BY <2>1 DEF IInv, Conversation, Waiting
  <2>3. IsTime(area.time)
    BY <2>1, <2>2 DEF IInv, TimeAnswered
  <2>. QED
    BY <2>1, <2>2, <2>3
<1>4. RomOK' /\ AreaTypeOK' /\ CursorOK' /\ MenuData' /\ GameInPlace'
  BY <1>1, RomStays, AreaStays, CursorStays, MenuDataStays, GameInPlaceStays DEF IInv
<1>5. StepsOK'
  BY <1>1, <1>3 DEF IInv, StepsOK, Choosing, IsTime
<1>6. Asleep'
  BY <1>1, <1>3 DEF IInv, Asleep, Boot
<1>7. Conversation'
  BY <1>1, <1>3 DEF IInv, Conversation, Waiting, Choosing, Sent
<1>8. GameChosen'
  BY <1>1, <1>3 DEF IInv, GameChosen, Starting
<1>9. TimeKept'
  BY <1>1, <1>3 DEF IInv, TimeKept, Setting, ChipTime
<1>10. TimeAnswered'
  BY <1>1, <1>3 DEF IInv, TimeAnswered
<1>. QED
  BY <1>2, <1>4, <1>5, <1>6, <1>7, <1>8, <1>9, <1>10 DEF IInv

\* The menu goes on when its number is back.
LEMMA TimeWrittenKeeps ==
  ASSUME IInv, TimeWritten PROVE IInv'
<1>1. UNCHANGED <<card, hash, rp, panic, line, served, rom, hyper, loaded, fifo, idGb, idRp,
      list, area, saveRam, chip, faults, mapper, core1, cursor, page, real_rtc, presses, wanted,
      lastSet>>
  BY DEF TimeWritten, Screen, others, fixed, rpVars, memVars, msgVars, timeVars, cursorVars
<1>2. HeldWhileWritten'
  BY StepIsSafe DEF IInv, Next, GbStep
<1>3. /\ gb = "wait write" /\ gb' = "settings" /\ rp = "serve" /\ idGb = idRp /\ fifo = <<>>
  <2>1. gb = "wait write" /\ gb' = "settings" /\ idGb = idRp
    BY DEF TimeWritten, Screen
  <2>. QED
    BY <2>1 DEF IInv, Conversation, Waiting
<1>4. RomOK' /\ AreaTypeOK' /\ CursorOK' /\ MenuData' /\ GameInPlace'
  BY <1>1, RomStays, AreaStays, CursorStays, MenuDataStays, GameInPlaceStays DEF IInv
<1>5. StepsOK'
  BY <1>1, <1>3, BootMenuAssumption DEF IInv, StepsOK, Areas, Boot, Starting, Choosing
<1>6. Asleep'
  BY <1>1, <1>3 DEF IInv, Asleep, Boot
<1>7. Conversation'
  BY <1>1, <1>3 DEF IInv, Conversation, Waiting, Choosing, Sent
<1>8. GameChosen'
  BY <1>1, <1>3 DEF IInv, GameChosen, Starting
<1>9. TimeKept'
  BY <1>1, <1>3 DEF IInv, TimeKept, Setting, ChipTime
<1>10. TimeAnswered'
  BY <1>1, <1>3 DEF IInv, TimeAnswered
<1>. QED
  BY <1>2, <1>4, <1>5, <1>6, <1>7, <1>8, <1>9, <1>10 DEF IInv

\* The cursor stays on the list and on the page.
LEMMA MoveCursorKeeps ==
  ASSUME IInv, MoveCursor PROVE IInv'
<1>1. UNCHANGED <<card, hash, rp, panic, line, served, rom, hyper, loaded, fifo, idGb, idRp,
      list, area, saveRam, chip, faults, mapper, core1, gb, real_rtc, presses, wanted, lastSet>>
  BY DEF MoveCursor, Screen, others, fixed, rpVars, memVars, msgVars, timeVars
<1>2. HeldWhileWritten'
  BY StepIsSafe DEF IInv, Next, Player
<1>3. /\ gb = "games" /\ cursor' \in Nat /\ page' \in Nat
      /\ list = <<>> \/ cursor' \in 0..Len(list) - 1
      /\ cursor' - page' \in 0..PageRows - 1
  BY CursorMoves DEF MoveCursor, Screen, IInv
<1>4. /\ RomOK' /\ AreaTypeOK' /\ Conversation' /\ GameChosen' /\ GameInPlace' /\ TimeKept'
      /\ TimeAnswered'
  BY <1>1, RomStays, AreaStays, ConversationStays, GameChosenStays, GameInPlaceStays,
     TimeKeptStays, TimeAnsweredStays DEF IInv
<1>5. StepsOK'
  BY <1>1, <1>3, BootMenuAssumption DEF IInv, StepsOK, Areas, Boot, Starting, Choosing
<1>6. CursorOK'
  BY <1>1, <1>3 DEF IInv, CursorOK
<1>7. Asleep'
  BY <1>1, <1>3 DEF IInv, Asleep, Boot
<1>8. MenuData'
  BY <1>1, <1>3, SameCard DEF IInv, MenuData
<1>. QED
  BY <1>2, <1>4, <1>5, <1>6, <1>7, <1>8 DEF IInv

\* The name handed over is that of the highlighted row.
LEMMA StartGameKeeps ==
  ASSUME IInv, StartGame PROVE IInv'
<1>1. UNCHANGED <<card, hash, rp, panic, line, served, rom, hyper, loaded, idGb, idRp, list,
      saveRam, chip, faults, mapper, core1, cursor, page, real_rtc, presses, lastSet>>
  BY DEF StartGame, Screen, others, fixed, rpVars, memVars, timeVars, cursorVars
<1>2. HeldWhileWritten'
  BY StepIsSafe DEF IInv, Next, Player
<1>3. /\ gb = "games" /\ gb' = "loading" /\ rp = "serve" /\ Sent(START)' /\ fifo' # <<>>
      /\ area' = Text(wanted') /\ wanted' \in Range(list)
      /\ \E e \in Range(card.entries) : e.name = wanted' /\ e.isRom
  <2>1. gb = "games" /\ gb' = "loading" /\ list # <<>> /\ ToRp(CMD, START)
    BY DEF StartGame, Screen
  <2>2. rp = "serve" /\ fifo \in {<<>>, <<Enable>>}
    BY <2>1 DEF IInv, Conversation, Choosing
  <2>3. Sent(START)' /\ fifo' # <<>>
    BY <2>1, <2>2, CommandSent, SentStays
  <2>4. wanted' = list[cursor + 1] /\ area' = Text(wanted')
    BY <2>1, HighlightedIsEntry DEF StartGame, IInv
  <2>5. wanted' \in Range(list) /\ \E e \in Range(card.entries) : e.name = wanted' /\ e.isRom
    BY <2>1, <2>4, HighlightedIsEntry DEF IInv
  <2>. QED
    BY <2>1, <2>2, <2>3, <2>4, <2>5
<1>4. RomOK' /\ CursorOK' /\ MenuData'
  BY <1>1, RomStays, CursorStays, MenuDataStays DEF IInv
<1>5. StepsOK'
  BY <1>1, <1>3, BootMenuAssumption DEF IInv, StepsOK, Areas, Boot, Starting, Choosing
<1>6. AreaTypeOK'
  BY <1>1, <1>3, Texts DEF IInv, AreaTypeOK
<1>7. Asleep'
  BY <1>1, <1>3 DEF IInv, Asleep, Boot
<1>8. Conversation'
  BY <1>1, <1>3 DEF IInv, Conversation, Waiting, Choosing
<1>9. GameChosen'
  BY <1>1, <1>3, Texts DEF GameChosen
<1>10. GameInPlace'
  BY <1>1, <1>3, SameGame, SameCopies DEF IInv, GameInPlace, Starting
<1>11. TimeKept'
  BY <1>1, <1>3 DEF IInv, TimeKept, Setting, ChipTime
<1>12. TimeAnswered'
  BY <1>1, <1>3 DEF IInv, TimeAnswered
<1>. QED
  BY <1>2, <1>4, <1>5, <1>6, <1>7, <1>8, <1>9, <1>10, <1>11, <1>12 DEF IInv

\* The settings are a screen of the menu.
LEMMA OpenSettingsKeeps ==
  ASSUME IInv, OpenSettings PROVE IInv'
<1>1. UNCHANGED <<card, hash, rp, panic, line, served, rom, hyper, loaded, fifo, idGb, idRp,
      list, area, saveRam, chip, faults, mapper, core1, cursor, page, real_rtc, presses, wanted,
      lastSet>>
  BY DEF OpenSettings, Screen, others, fixed, rpVars, memVars, msgVars, timeVars, cursorVars
<1>2. HeldWhileWritten'
  BY StepIsSafe DEF IInv, Next, Player
<1>3. RomOK' /\ AreaTypeOK' /\ CursorOK' /\ MenuData' /\ GameInPlace'
  BY <1>1, RomStays, AreaStays, CursorStays, MenuDataStays, GameInPlaceStays DEF IInv
<1>4. StepsOK'
  BY <1>1, BootMenuAssumption DEF IInv, StepsOK, Areas, Boot, Starting, Choosing, OpenSettings,
     Screen
<1>5. Asleep'
  BY <1>1 DEF IInv, Asleep, Boot, OpenSettings, Screen
<1>6. Conversation'
  BY <1>1 DEF IInv, Conversation, Waiting, Choosing, Sent, OpenSettings, Screen
<1>7. GameChosen'
  BY <1>1 DEF IInv, GameChosen, Starting, OpenSettings, Screen
<1>8. TimeKept'
  BY <1>1 DEF IInv, TimeKept, Setting, ChipTime, OpenSettings, Screen
<1>9. TimeAnswered'
  BY <1>1 DEF IInv, TimeAnswered, OpenSettings, Screen
<1>. QED
  BY <1>2, <1>3, <1>4, <1>5, <1>6, <1>7, <1>8, <1>9 DEF IInv

\* The list is as it was left.
LEMMA CloseSettingsKeeps ==
  ASSUME IInv, CloseSettings PROVE IInv'
<1>1. UNCHANGED <<card, hash, rp, panic, line, served, rom, hyper, loaded, fifo, idGb, idRp,
      list, area, saveRam, chip, faults, mapper, core1, cursor, page, real_rtc, presses, wanted,
      lastSet>>
  BY DEF CloseSettings, Screen, others, fixed, rpVars, memVars, msgVars, timeVars, cursorVars
<1>2. HeldWhileWritten'
  BY StepIsSafe DEF IInv, Next, Player
<1>3. RomOK' /\ AreaTypeOK' /\ CursorOK' /\ MenuData' /\ GameInPlace'
  BY <1>1, RomStays, AreaStays, CursorStays, MenuDataStays, GameInPlaceStays DEF IInv
<1>4. StepsOK'
  BY <1>1, BootMenuAssumption DEF IInv, StepsOK, Areas, Boot, Starting, Choosing, CloseSettings,
     Screen
<1>5. Asleep'
  BY <1>1 DEF IInv, Asleep, Boot, CloseSettings, Screen
<1>6. Conversation'
  BY <1>1 DEF IInv, Conversation, Waiting, Choosing, Sent, CloseSettings, Screen
<1>7. GameChosen'
  BY <1>1 DEF IInv, GameChosen, Starting, CloseSettings, Screen
<1>8. TimeKept'
  BY <1>1 DEF IInv, TimeKept, Setting, ChipTime, CloseSettings, Screen
<1>9. TimeAnswered'
  BY <1>1 DEF IInv, TimeAnswered, CloseSettings, Screen
<1>. QED
  BY <1>2, <1>3, <1>4, <1>5, <1>6, <1>7, <1>8, <1>9 DEF IInv

\* The number of the request differs from the RP2350's.
LEMMA OpenTimeKeeps ==
  ASSUME IInv, OpenTime PROVE IInv'
<1>1. UNCHANGED <<card, hash, rp, panic, line, served, rom, hyper, loaded, fifo, idRp, list,
      area, saveRam, chip, faults, mapper, core1, cursor, page, real_rtc, presses, wanted,
      lastSet>>
  BY DEF OpenTime, Screen, others, fixed, rpVars, memVars, timeVars, cursorVars
<1>2. HeldWhileWritten'
  BY StepIsSafe DEF IInv, Next, Player
<1>3. /\ gb = "settings" /\ gb' = "ask read" /\ rp = "serve"
      /\ idGb' \in 0..IdMod - 1 /\ idGb' # idRp
  <2>1. gb = "settings" /\ gb' = "ask read" /\ idGb' = (idGb + 1) % IdMod
    BY DEF OpenTime, Screen
  <2>2. rp = "serve" /\ (idGb = idRp \/ (idGb = 1 /\ idRp = 0))
    BY <2>1 DEF IInv, Conversation, Choosing
  <2>3. idGb \in 0..IdMod - 1
    BY DEF IInv, StepsOK
  <2>. QED
    BY <2>1, <2>2, <2>3, NextId
<1>4. RomOK' /\ AreaTypeOK' /\ CursorOK' /\ MenuData' /\ GameInPlace'
  BY <1>1, RomStays, AreaStays, CursorStays, MenuDataStays, GameInPlaceStays DEF IInv
<1>5. StepsOK'
  BY <1>1, <1>3, BootMenuAssumption DEF IInv, StepsOK, Areas, Boot, Starting, Choosing
<1>6. Asleep'
  BY <1>1, <1>3 DEF IInv, Asleep, Boot
<1>7. Conversation'
  BY <1>1, <1>3 DEF IInv, Conversation, Waiting, Choosing, Sent
<1>8. GameChosen'
  BY <1>1, <1>3 DEF IInv, GameChosen, Starting
<1>9. TimeKept'
  BY <1>1, <1>3 DEF IInv, TimeKept, Setting, ChipTime
<1>10. TimeAnswered'
  BY <1>1, <1>3 DEF IInv, TimeAnswered
<1>. QED
  BY <1>2, <1>4, <1>5, <1>6, <1>7, <1>8, <1>9, <1>10 DEF IInv

\* The time on the screen is on its way to the chip.
LEMMA SetTimeKeeps ==
  ASSUME IInv, SetTime PROVE IInv'
<1>1. UNCHANGED <<card, hash, rp, panic, line, served, rom, hyper, loaded, fifo, idRp, list,
      saveRam, chip, faults, mapper, core1, cursor, page, real_rtc, presses, wanted>>
  BY DEF SetTime, Screen, others, fixed, rpVars, memVars, cursorVars
<1>2. HeldWhileWritten'
  BY StepIsSafe DEF IInv, Next, Player
<1>3. /\ gb = "time" /\ gb' = "ask write" /\ rp = "serve"
      /\ idGb' \in 0..IdMod - 1 /\ idGb' # idRp
      /\ area'.name = NONE /\ area'.time = real_rtc /\ lastSet' = real_rtc
  <2>1. gb = "time" /\ gb' = "ask write" /\ idGb' = (idGb + 1) % IdMod
    BY DEF SetTime, Screen
  <2>2. rp = "serve" /\ (idGb = idRp \/ (idGb = 1 /\ idRp = 0))
    BY <2>1 DEF IInv, Conversation, Choosing
  <2>3. idGb \in 0..IdMod - 1
    BY DEF IInv, StepsOK
  <2>4. idGb' \in 0..IdMod - 1 /\ idGb' # idRp
    BY <2>1, <2>2, <2>3, NextId
  <2>. QED
    BY <2>1, <2>2, <2>4, Texts DEF SetTime
<1>4. RomOK' /\ CursorOK' /\ MenuData' /\ GameInPlace'
  BY <1>1, RomStays, CursorStays, MenuDataStays, GameInPlaceStays DEF IInv
<1>5. StepsOK'
  BY <1>1, <1>3, BootMenuAssumption DEF IInv, StepsOK, Areas, Boot, Starting, Choosing
<1>6. AreaTypeOK'
  BY <1>3, Texts DEF IInv, StepsOK, AreaTypeOK
<1>7. Asleep'
  BY <1>1, <1>3 DEF IInv, Asleep, Boot
<1>8. Conversation'
  BY <1>1, <1>3 DEF IInv, Conversation, Waiting, Choosing, Sent
<1>9. GameChosen'
  BY <1>1, <1>3 DEF IInv, GameChosen, Starting
<1>10. TimeKept'
  BY <1>1, <1>3 DEF IInv, TimeKept, Setting, ChipTime
<1>11. TimeAnswered'
  BY <1>1, <1>3 DEF IInv, TimeAnswered
<1>. QED
  BY <1>2, <1>4, <1>5, <1>6, <1>7, <1>8, <1>9, <1>10, <1>11 DEF IInv

\* Every key leaves a time of chrono on the screen.
LEMMA ChangeTimeKeeps ==
  ASSUME IInv, ChangeTime PROVE IInv'
<1>1. UNCHANGED <<card, hash, rp, panic, line, served, rom, hyper, loaded, fifo, idGb, idRp,
      list, area, saveRam, chip, faults, mapper, core1, gb, cursor, page, wanted, lastSet>>
  BY DEF ChangeTime, Screen, others, fixed, rpVars, memVars, msgVars, cursorVars
<1>2. HeldWhileWritten'
  BY StepIsSafe DEF IInv, Next, Player
<1>3. /\ gb = "time" /\ IsTime(real_rtc') /\ presses' \in 0..MaxPresses
  <2>1. gb = "time" /\ presses < MaxPresses /\ presses' = presses + 1
    BY DEF ChangeTime, Screen
  <2>2. presses \in 0..MaxPresses /\ MaxPresses \in Nat /\ real_rtc \in TimePoints
    BY BootMenuAssumption DEF IInv, StepsOK
  <2>3. IsTime(real_rtc')
    BY <2>2, KeysKeepTime DEF ChangeTime
  <2>. QED
    BY <2>1, <2>2, <2>3
<1>4. /\ RomOK' /\ AreaTypeOK' /\ CursorOK' /\ Asleep' /\ MenuData' /\ Conversation'
      /\ GameChosen' /\ GameInPlace' /\ TimeAnswered'
  BY <1>1, RomStays, AreaStays, CursorStays, AsleepStays, MenuDataStays, ConversationStays,
     GameChosenStays, GameInPlaceStays, TimeAnsweredStays DEF IInv
<1>5. StepsOK'
  BY <1>1, <1>3 DEF IInv, StepsOK, IsTime
<1>6. TimeKept'
  BY <1>1, <1>3 DEF IInv, TimeKept, Setting, ChipTime
<1>. QED
  BY <1>2, <1>4, <1>5, <1>6 DEF IInv

\* Leaving sends nothing.
LEMMA LeaveTimeKeeps ==
  ASSUME IInv, LeaveTime PROVE IInv'
<1>1. UNCHANGED <<card, hash, rp, panic, line, served, rom, hyper, loaded, fifo, idGb, idRp,
      list, area, saveRam, chip, faults, mapper, core1, cursor, page, real_rtc, presses, wanted,
      lastSet>>
  BY DEF LeaveTime, Screen, others, fixed, rpVars, memVars, msgVars, timeVars, cursorVars
<1>2. HeldWhileWritten'
  BY StepIsSafe DEF IInv, Next, Player
<1>3. RomOK' /\ AreaTypeOK' /\ CursorOK' /\ MenuData' /\ GameInPlace'
  BY <1>1, RomStays, AreaStays, CursorStays, MenuDataStays, GameInPlaceStays DEF IInv
<1>4. StepsOK'
  BY <1>1, BootMenuAssumption DEF IInv, StepsOK, Areas, Boot, Starting, Choosing, LeaveTime,
     Screen
<1>5. Asleep'
  BY <1>1 DEF IInv, Asleep, Boot, LeaveTime, Screen
<1>6. Conversation'
  BY <1>1 DEF IInv, Conversation, Waiting, Choosing, Sent, LeaveTime, Screen
<1>7. GameChosen'
  BY <1>1 DEF IInv, GameChosen, Starting, LeaveTime, Screen
<1>8. TimeKept'
  BY <1>1 DEF IInv, TimeKept, Setting, ChipTime, LeaveTime, Screen
<1>9. TimeAnswered'
  BY <1>1 DEF IInv, TimeAnswered, LeaveTime, Screen
<1>. QED
  BY <1>2, <1>3, <1>4, <1>5, <1>6, <1>7, <1>8, <1>9 DEF IInv

(* The theorems. *)
\* At power-on nothing is in place and nothing is said.
LEMMA Initially == Init => IInv
<1>. SUFFICES ASSUME Init PROVE IInv
  OBVIOUS
<1>1. /\ hash = NONE /\ rp = "detect" /\ panic = NONE /\ line = "high" /\ served = 0
      /\ rom = [a \in Areas |-> EMPTY] /\ hyper = <<>> /\ loaded = 0
      /\ fifo = <<>> /\ idGb = 0 /\ idRp = 0 /\ list = <<>> /\ area = Blank /\ faults = 0
      /\ gb = "held" /\ cursor = 0 /\ page = 0 /\ real_rtc = NoTime /\ lastSet = Unset
  BY DEF Init
<1>2. IsCard(card) /\ chip \in Chips /\ presses \in 0..MaxPresses
  BY BootMenuAssumption DEF Init
<1>3. IsTime(NoTime) /\ NoTime \in TimePoints
  BY NoTimeIsTime, Texts
<1>4. MaxFaults \in Nat /\ PageRows \in Nat \ {0} /\ IdMod \in Nat /\ IdMod > 2
  BY BootMenuAssumption
<1>5. StepsOK
  BY <1>1, <1>2, <1>3, <1>4 DEF StepsOK, Areas, Boot
<1>6. RomOK
  BY <1>1 DEF RomOK, Contents
<1>7. AreaTypeOK
  BY <1>1, Texts DEF AreaTypeOK
<1>8. CursorOK
  BY <1>1, <1>4 DEF CursorOK
<1>9. HeldWhileWritten
  BY HeldInitially
<1>10. Asleep
  BY <1>1 DEF Asleep
<1>11. MenuData
  BY <1>1, <1>2 DEF MenuData
<1>12. Conversation
  BY <1>1 DEF Conversation, Choosing
<1>13. GameChosen /\ GameInPlace
  BY <1>1 DEF GameChosen, GameInPlace, Starting
<1>14. TimeKept /\ TimeAnswered
  BY <1>1, <1>3 DEF TimeKept, TimeAnswered
<1>. QED
  BY <1>5, <1>6, <1>7, <1>8, <1>9, <1>10, <1>11, <1>12, <1>13, <1>14 DEF IInv

\* Every step keeps the invariant.
LEMMA Step == IInv /\ [Next]_vars => IInv'
<1>. SUFFICES ASSUME IInv, [Next]_vars PROVE IInv'
  OBVIOUS
<1>1. CASE RpStep
  BY <1>1, DetectKeeps, IntegrityKeeps, LoadWalletKeeps, StartClockKeeps, ListGamesKeeps,
     ReadTimeKeeps, WriteTimeKeeps, AcknowledgeKeeps, IgnoreWriteKeeps, OpenGameKeeps,
     LoadBankKeeps, HoldGameBoyKeeps, SwitchBank0Keeps, RestoreSaveKeeps, ChooseMapperKeeps,
     ReleaseGameKeeps DEF RpStep
<1>2. CASE GbStep
  BY <1>2, GbStartKeeps, SendCommandKeeps, TimeReadKeeps, TimeWrittenKeeps DEF GbStep
<1>3. CASE Player
  BY <1>3, MoveCursorKeeps, StartGameKeeps, OpenSettingsKeeps, CloseSettingsKeeps,
     OpenTimeKeeps, SetTimeKeeps, ChangeTimeKeeps, LeaveTimeKeeps DEF Player
<1>4. CASE UNCHANGED vars
  <2>1. UNCHANGED <<card, hash, rp, panic, line, served, rom, hyper, loaded, saveRam, mapper,
                    core1, idGb, idRp, area, fifo, list, chip, faults, gb, cursor, page,
                    real_rtc, presses, wanted, lastSet>>
    BY <1>4 DEF vars, fixed, rpVars, memVars, msgVars, gbVars
  <2>2. StepsOK'
    BY <2>1 DEF IInv, StepsOK
  <2>3. HeldWhileWritten'
    BY <2>1 DEF IInv, HeldWhileWritten
  <2>4. RomOK' /\ AreaTypeOK' /\ CursorOK' /\ Asleep' /\ MenuData' /\ Conversation'
    BY <2>1, RomStays, AreaStays, CursorStays, AsleepStays, MenuDataStays, ConversationStays
       DEF IInv
  <2>5. GameChosen' /\ GameInPlace' /\ TimeKept' /\ TimeAnswered'
    BY <2>1, GameChosenStays, GameInPlaceStays, TimeKeptStays, TimeAnsweredStays DEF IInv
  <2>. QED
    BY <2>2, <2>3, <2>4, <2>5 DEF IInv
<1>. QED
  BY <1>1, <1>2, <1>3, <1>4 DEF Next

\* The two processors stay in step, whatever is on the card, pressed or failing.
THEOREM Invariance == Spec => []IInv
BY Initially, Step, PTL DEF Spec

\* Types; the cursor stands on an entry of the list and on the page shown.
THEOREM TypeCorrect == Spec => []TypeOK
<1>1. IInv => TypeOK
  BY Types DEF IInv
<1>. QED
  BY Invariance, <1>1, PTL

\* OpenGame to ReleaseGame put the game in place that the player saw highlighted, with
\* every bank, the controller and the RAM, before the Game Boy runs it.
THEOREM GamesRunWhole == Spec => []GameRunsWhole
<1>1. IInv => GameRunsWhole
  <2>. SUFFICES ASSUME IInv, gb = "game"
                PROVE  /\ rom[served] = <<wanted, 0>> /\ loaded = Game.banks
                       /\ \A b \in 1..Game.banks - 1 : hyper[b] = <<wanted, b>>
                       /\ mapper = RomInfo(Game).mbc
                       /\ RomInfo(Game).ram_bank_count > 0 => saveRam \in {<<wanted, 0>>, ZEROS}
    BY DEF GameRunsWhole, Game
  <2>1. rp = "game"
    BY DEF IInv, Conversation
  <2>2. /\ rom[served] = <<wanted, 0>> /\ loaded = Game.banks /\ hyper = Copies
        /\ mapper = GameMbc /\ (GameHasRam => saveRam \in {<<wanted, 0>>, ZEROS})
    BY <2>1 DEF IInv, GameInPlace, Starting
  <2>3. \A b \in 1..Game.banks - 1 : hyper[b] = <<wanted, b>>
    BY <2>2 DEF Copies
  <2>. QED
    BY <2>2, <2>3 DEF GameMbc, GameHasRam
<1>. QED
  BY Invariance, <1>1, PTL

\* A time set in the menu is the time the menu reads back: the two calendars, the bytes
\* exchanged and the digits of the chip agree.
THEOREM TimesComeBack == Spec => TimeComesBack
<1>1. ASSUME IInv, TimeRead, lastSet # Unset
      PROVE  real_rtc' = lastSet \/ (faults > 0 /\ real_rtc' = toTimePoint(Epoch))
  <2>1. gb = "wait read" /\ idGb = idRp /\ real_rtc' = area.time
    BY <1>1 DEF TimeRead, Screen
  <2>2. fifo = <<>>
    BY <1>1, <2>1 DEF IInv, Conversation, Waiting
  <2>. QED
    BY <1>1, <2>1, <2>2 DEF IInv, TimeAnswered
<1>2. IInv /\ [Next]_vars =>
        [TimeRead /\ lastSet # Unset =>
           real_rtc' = lastSet \/ (faults > 0 /\ real_rtc' = toTimePoint(Epoch))]_vars
  BY <1>1
<1>. QED
  BY Invariance, <1>2, PTL DEF Spec, TimeComesBack

=============================================================================
