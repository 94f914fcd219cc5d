------------------------------ MODULE SflDate ------------------------------
(***************************************************************************)
(* Dates and times (libsfl/sfldate.c).  A date is <<year, month, day>>, with *)
(* the year in full, and a time <<hour, minute, second, centi>>: the digits *)
(* of the numbers the code makes of them.  Divisions are of numbers that    *)
(* are not negative, unless Cut is used.                                    *)
(***************************************************************************)
EXTENDS Integers, Sequences, FiniteSets

CONSTANTS
  Starts,         \* dates from which days are counted in a run
  Days,           \* how many days
  Times, Intervals

VARIABLE day      \* [date, number]: a date, and how many days after its start

GET_CCYEAR(d)  == d[1]
GET_CENTURY(d) == d[1] \div 100
GET_YEAR(d)    == d[1] % 100
GET_MONTH(d)   == d[2]
GET_DAY(d)     == d[3]

MAKE_DATE(c, y, m, d) == <<c * 100 + y, m, d>>

(* C's division, towards zero.                                              *)
Cut(a, b) == IF a < 0 THEN -((-a) \div b) ELSE a \div b

(* Asserts that the year is not 0: there is no answer then.                 *)
leap_year(year) == CASE year > 0 -> (year % 4 = 0 /\ year % 100 # 0) \/ year % 400 = 0

(* Both ask about the year without its century, which stops the program in  *)
(* a year 00: julian_date from March on, valid_date on the 29th of February.*)
julian_date(date) ==
  LET days == <<0, 31, 59, 90, 120, 151, 181, 212, 243, 273, 304, 334>>
  IN  days[GET_MONTH(date)] + GET_DAY(date)
        + (IF GET_MONTH(date) > 2 /\ leap_year(GET_YEAR(date)) THEN 1 ELSE 0)

valid_date(date) ==
  LET month_days == <<31, 29, 31, 30, 31, 30, 31, 31, 30, 31, 30, 31>>
  IN  \/ date = <<0, 0, 0>>
      \/ /\ GET_MONTH(date) \in 1 .. 12
         /\ GET_DAY(date) \in 1 .. month_days[GET_MONTH(date)]
         /\ GET_MONTH(date) = 2 /\ GET_DAY(date) = 29 => leap_year(GET_YEAR(date))

day_of_week(date) ==
  LET early == GET_MONTH(date) =< 2
      year  == GET_CCYEAR(date) - (IF early THEN 1 ELSE 0)
      month == GET_MONTH(date) + (IF early THEN 10 ELSE -2)
  IN  ((13 * month - 1) \div 5 + GET_DAY(date) + (year % 100) + (year % 100) \div 4
         + (year \div 100) \div 4 - 2 * (year \div 100) + 77) % 7

week_of_year(date) ==
  LET year == GET_CCYEAR(date) - 1501
      d    == year * 365 + Cut(year, 4) - 29872 + 1 - Cut(year, 100) + Cut(year - 300, 400)
  IN  (julian_date(date) + ((d + 4) % 7)) \div 7

year_quarter(date) == (GET_MONTH(date) - 1) \div 3 + 1

default_century(date) ==
  IF GET_CENTURY(date) # 0 THEN date
  ELSE [date EXCEPT ![1] = @ + (IF GET_YEAR(date) > 50 THEN 1900 ELSE 2000)]

(* Mutant: counts years from January on.                                    *)
DaysFromJanuary(date) ==
  LET month   == (GET_MONTH(date) + 9) % 12
      year    == GET_YEAR(date)
      century == GET_CENTURY(date)
  IN  (146097 * century) \div 4 + (1461 * year) \div 4 + (153 * month + 2) \div 5
        + GET_DAY(date) + 1721119

(* Years begin in March here.                                               *)
date_to_days(date) ==
  LET early   == GET_MONTH(date) =< 2
      month   == GET_MONTH(date) + (IF early THEN 9 ELSE -3)
      year    == CASE ~early              -> GET_YEAR(date)
                   [] early /\ GET_YEAR(date) > 0 -> GET_YEAR(date) - 1
                   [] early /\ GET_YEAR(date) = 0 -> 99
      century == GET_CENTURY(date) - (IF early /\ GET_YEAR(date) = 0 THEN 1 ELSE 0)
  IN  (146097 * century) \div 4 + (1461 * year) \div 4 + (153 * month + 2) \div 5
        + GET_DAY(date) + 1721119

days_to_date(n) ==
  LET a       == 4 * (n - 1721119) - 1
      century == a \div 146097
      b       == (a % 146097) \div 4
      year    == (4 * b + 3) \div 1461
      c       == (((4 * b + 3) % 1461) + 4) \div 4
      month   == (5 * c - 3) \div 153
      d       == (((5 * c - 3) % 153) + 5) \div 5
  IN  CASE month < 10 -> MAKE_DATE(century, year, month + 3, d)
        [] month >= 10 /\ year < 99 -> MAKE_DATE(century, year + 1, month - 9, d)
        [] month >= 10 /\ year = 99 -> MAKE_DATE(century + 1, 0, month - 9, d)

next_weekday(date) ==
  days_to_date(date_to_days(date)
    + (CASE day_of_week(date) = 5 -> 3 [] day_of_week(date) = 6 -> 2 [] OTHER -> 1))

prev_weekday(date) ==
  days_to_date(date_to_days(date)
    - (CASE day_of_week(date) = 1 -> 3 [] day_of_week(date) = 0 -> 2 [] OTHER -> 1))

(* Seven bits of year, four of month, five of day; five of hour, six of     *)
(* minute, five of every other second.                                      *)
pack_date(date) ==
  (((GET_CCYEAR(date) - 1980) * 512) + GET_MONTH(date) * 32 + GET_DAY(date)) % 65536

unpack_date(w) ==
  LET year == w \div 512 + 80
  IN  MAKE_DATE(IF year > 80 THEN 19 ELSE 20, year, (w % 512) \div 32, w % 32)

pack_time(time) == (time[1] * 2048 + time[2] * 32 + time[3] \div 2) % 65536

unpack_time(w) == <<w \div 2048, (w % 2048) \div 32, (w % 32) * 2, 0>>

INTERVAL_DAY == 8640000

time_to_csecs(time) == time[1] * 360000 + time[2] * 6000 + time[3] * 100 + time[4]

csecs_to_time(n) == <<n \div 360000, (n % 360000) \div 6000, (n % 6000) \div 100, n % 100>>

valid_time(time) == time[1] < 24 /\ time[2] < 60 /\ time[3] < 60

(* The days and times they come to, for a date and time that are given.     *)
future_date(date, time, days, csecs) ==
  LET n == time_to_csecs(time) + csecs
  IN  <<days_to_date(date_to_days(date) + days + n \div INTERVAL_DAY),
        csecs_to_time(n % INTERVAL_DAY)>>

(* Mutant: a day is borrowed, and the time stays before midnight.           *)
PastUnborrowed(date, time, days, csecs) ==
  LET n == time_to_csecs(time) - csecs
  IN  <<days_to_date(date_to_days(date) - days + Cut(n, INTERVAL_DAY)),
        csecs_to_time(n % INTERVAL_DAY)>>

past_date(date, time, days, csecs) ==
  LET n == time_to_csecs(time) - csecs
  IN  <<days_to_date(date_to_days(date) - days + n \div INTERVAL_DAY),
        csecs_to_time(n % INTERVAL_DAY)>>

date_diff(date1, time1, date2, time2) ==
  LET days  == date_to_days(date1) - date_to_days(date2)
      csecs == time_to_csecs(time1) - time_to_csecs(time2)
  IN  CASE days > 0 /\ csecs < 0 -> <<days - 1, csecs + INTERVAL_DAY>>
        [] days < 0 /\ csecs > 0 -> <<days + 1, csecs - INTERVAL_DAY>>
        [] OTHER -> <<days, csecs>>

-----------------------------------------------------------------------------
(* The calendar, as a walk from one day to the next.                        *)

MonthDays(year, month) ==
  IF month = 2 THEN IF leap_year(year) THEN 29 ELSE 28
  ELSE IF month \in {4, 6, 9, 11} THEN 30 ELSE 31

Calendar ==
  {d \in (Nat \ {0}) \X (1 .. 12) \X (1 .. 31) : d[3] =< MonthDays(d[1], d[2])}

(* Dates and times of a run: the days counted end in the century they begin *)
(* in, and are of the years in which julian_date and valid_date, which do   *)
(* not look at the century, know the leap years: not of 1900 or 2000, where *)
(* the assertion of leap_year fails, nor of 2100.                           *)
GoodDates ==
  /\ Days \in Nat /\ Intervals \subseteq Nat
  /\ Times \subseteq (0 .. 23) \X (0 .. 59) \X (0 .. 59) \X (0 .. 99)
  /\ Starts \subseteq Calendar
  /\ \A d \in Starts : \E last \in {1999, 2099} :
       d[1] > last - 99 /\ date_to_days(d) + Days =< date_to_days(<<last, 12, 31>>)

Tomorrow(date) ==
  CASE date[3] < MonthDays(date[1], date[2]) -> <<date[1], date[2], date[3] + 1>>
    [] date[3] = MonthDays(date[1], date[2]) /\ date[2] < 12 -> <<date[1], date[2] + 1, 1>>
    [] OTHER -> <<date[1] + 1, 1, 1>>

DateInit == \E d \in Starts : day = [date |-> d, number |-> 0]

NextDay == /\ day.number < Days
           /\ day' = [date |-> Tomorrow(day.date), number |-> day.number + 1]

DateSpec == DateInit /\ [][NextDay]_day

(* What is computed from a date agrees with the calendar: it moves on by    *)
(* one with each day, over the ends of months, years and leap years, up to  *)
(* the first day of the year 2000, and no assertion fails.                  *)
DatesAgree ==
  LET d == day.date
      t == Tomorrow(d)
  IN  /\ valid_date(d)
      /\ days_to_date(date_to_days(d)) = d
      /\ date_to_days(t) = date_to_days(d) + 1
      /\ day_of_week(t) = (day_of_week(d) + 1) % 7
      /\ julian_date(t) = IF t[1] # d[1] THEN 1 ELSE julian_date(d) + 1
      /\ LET w == next_weekday(d)
         IN  /\ date_to_days(w) > date_to_days(d)
             /\ \A n \in date_to_days(d) + 1 .. date_to_days(w) :
                  day_of_week(days_to_date(n)) \in 1 .. 5 <=> n = date_to_days(w)
      /\ day_of_week(d) \in 1 .. 5 => prev_weekday(next_weekday(d)) = d
      /\ d[1] \in 1981 .. 2107 => unpack_date(pack_date(d)) = d
      /\ d[1] \in 1980 .. 2106 => pack_date(d) < pack_date(t)
      /\ default_century(<<d[1] % 100, d[2], d[3]>>) = d \/ d[1] \notin 1951 .. 2050

(* The days on which valid_date, and so every function that asserts it,     *)
(* runs into the assertion of leap_year.                                    *)
Stops(date) == GET_YEAR(date) = 0 /\ GET_MONTH(date) = 2 /\ GET_DAY(date) = 29

(* Adding an interval to a date and time and taking it off again comes back *)
(* to them, and their difference is the interval, carries and signs and all *)
(* (unless the interval leads to a day on which the code stops).            *)
IntervalsAgree ==
  \A t \in Times, i \in Intervals, n \in {0, 1} :
    LET f    == future_date(day.date, t, n, i)
        diff == date_diff(f[1], f[2], day.date, t)
        back == date_diff(day.date, t, f[1], f[2])
    IN  ~Stops(f[1]) =>
        /\ valid_date(f[1]) /\ valid_time(f[2])
        /\ past_date(f[1], f[2], n, i) = <<day.date, t>>
        /\ diff[1] * INTERVAL_DAY + diff[2] = n * INTERVAL_DAY + i
        /\ back = <<-diff[1], -diff[2]>>
        /\ diff[1] >= 0 /\ diff[2] >= 0
=============================================================================
