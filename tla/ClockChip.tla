----------------------------- MODULE ClockChip -----------------------------
(***************************************************************************)
(* The driver of the battery-backed clock (mcp795xx.rs) on the registers   *)
(* of the chip: the BCD bytes of minute, hour, date, month and year, and   *)
(* the bits st (start the oscillator), vbat (battery enabled), pwrfail     *)
(* (power was lost since the weekday register was last written) and day    *)
(* (of the week, three bits).  Seconds are left out, they are zeroed by    *)
(* everything the menu does; a date and time is a record of numbers.       *)
(***************************************************************************)
EXTENDS Integers, FiniteSets

NoDate == [year |-> 0, month |-> 0, date |-> 0, hour |-> 0, minute |-> 0]
Epoch == [year |-> 1970, month |-> 1, date |-> 1, hour |-> 0, minute |-> 0]     \* NaiveDateTime::default()

bin2bcd(dec) == (dec \div 10) * 16 + (dec % 10)
bcd2bin(bcd) == (bcd \div 16) * 10 + (bcd % 16)

(***************************************************************************)
(* What the driver takes from chrono.                                      *)
(***************************************************************************)
IsLeap(y) == y % 4 = 0 /\ (y % 100 # 0 \/ y % 400 = 0)
DaysIn(y, m) == CASE m = 2 -> IF IsLeap(y) THEN 29 ELSE 28
                  [] m \in {4, 6, 9, 11} -> 30
                  [] OTHER -> 31

\* NaiveDate::from_ymd_opt and and_hms_opt return Some.
IsDateTime(t) == /\ t.month \in 1..12 /\ t.date \in 1..DaysIn(t.year, t.month)
                 /\ t.hour \in 0..23 /\ t.minute \in 0..59

\* number_from_monday
WeekDay(t) ==
  LET shift == <<0, 3, 2, 5, 0, 3, 5, 1, 4, 6, 2, 4>>
      y == IF t.month < 3 THEN t.year - 1 ELSE t.year
      fromSunday == (y + (y \div 4) - (y \div 100) + (y \div 400) + shift[t.month] + t.date) % 7
  IN  IF fromSunday = 0 THEN 7 ELSE fromSunday

Minutes(t) == (((t.year * 12 + t.month) * 31 + t.date) * 24 + t.hour) * 60 + t.minute
Later(t, u) == Minutes(t) > Minutes(u)

(***************************************************************************)
(* The driver.                                                             *)
(***************************************************************************)

\* What the registers say; no date where datetime() returns CalendarError.
datetime(chip) ==
  LET t == [year |-> bcd2bin(chip.year) + 2000, month |-> bcd2bin(chip.month % 32),
            date |-> bcd2bin(chip.date % 64), hour |-> bcd2bin(chip.hour % 64),
            minute |-> bcd2bin(chip.minute % 128)]
  IN  IF IsDateTime(t) THEN t ELSE NoDate

datetimeOrDefault(chip) == IF datetime(chip) = NoDate THEN Epoch ELSE datetime(chip)

\* set_datetime refuses what two digits of a year cannot hold.
Settable(t) == t.year \in 2000..2099

(***************************************************************************)
(* set_datetime asks data[3] & 20u8, the bits of value 16 and 4 of the     *)
(* weekday register: power failure, and Thursday to Sunday.  The           *)
(* oscillator's own bit is 0x20.                                           *)
(***************************************************************************)
TakenForRunning(chip) == chip.pwrfail \/ chip.day \in 4..7

\* The seconds register is written without its start bit, and the bit is
\* set again only when the oscillator was taken for running; of the weekday
\* register only vbat is kept.
set_datetime(chip, t) ==
  [st |-> TakenForRunning(chip), vbat |-> chip.vbat, pwrfail |-> FALSE, day |-> WeekDay(t),
   minute |-> bin2bcd(t.minute), hour |-> bin2bcd(t.hour), date |-> bin2bcd(t.date),
   month |-> bin2bcd(t.month), year |-> bin2bcd(t.year - 2000)]

\* main: enable the battery, catch up with the time of the build, start the oscillator.
Backed(chip) == IF chip.vbat THEN chip
                ELSE [chip EXCEPT !.vbat = TRUE, !.pwrfail = FALSE, !.day = 1]
CaughtUp(chip, built) == IF Later(built, datetimeOrDefault(chip)) THEN set_datetime(chip, built)
                         ELSE chip
Started(chip) == [chip EXCEPT !.st = TRUE]
StartUp(chip, built) == Started(CaughtUp(Backed(chip), built))

Byte == 0..255
Chips == [st : BOOLEAN, vbat : BOOLEAN, pwrfail : BOOLEAN, day : 0..7,
          minute : Byte, hour : Byte, date : Byte, month : Byte, year : Byte]
=============================================================================
