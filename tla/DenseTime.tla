-------------------------------- MODULE DenseTime ------------------------------
(***************************************************************************)
(* tm_toDenseTime and tm_fromDenseTime of base.c, which pack a DateTime    *)
(* into one number and back, and the DateTimes that the program makes of   *)
(* the system's time: os__posixDateTimeFromSystemTime, tm_nowGm and        *)
(* tm_nowLocal.                                                            *)
(*                                                                         *)
(* How many values a field has is a parameter; the code has 1000           *)
(* milliseconds, 61 seconds, 60 minutes, 24 hours, 31 days, 12 months and  *)
(* 2^16 years from -2^15 on, and the number stays below 2^64.              *)
(***************************************************************************)
EXTENDS Integers

CONSTANTS Millis, Seconds, Minutes, Hours, Days, Months,
  Years, YearBias,
  Nanos  \* nanoseconds in a millisecond

ASSUME RadixAssumption ==
  /\ Millis \in Nat \ {0} /\ Seconds \in Nat \ {0} /\ Minutes \in Nat \ {0}
  /\ Hours \in Nat \ {0} /\ Days \in Nat \ {0} /\ Months \in Nat \ {0}
  /\ Years \in Nat /\ YearBias \in Nat /\ Nanos \in Nat \ {0}

VARIABLES
  date,   \* a DateTime
  dense,  \* the DenseTime it is packed into
  back,   \* the DateTime that is unpacked from it
  origin, \* where the date comes from: "caller", "system" or "clock"
  at      \* "date", "dense" or "back"

vars == <<date, dense, back, origin, at>>

DateTime(year, month, day, hour, minute, second, milli) ==
  [year |-> year, month |-> month, day |-> day, hour |-> hour,
   minute |-> minute, second |-> second, milli |-> milli]

(* The fields in the ranges the declaration of DateTime gives.               *)
Documented ==
  [year : -YearBias .. Years - YearBias - 1, month : 0 .. Months - 1, day : 0 .. Days - 1,
   hour : 0 .. Hours - 1, minute : 0 .. Minutes - 1, second : 0 .. Seconds - 1,
   milli : 0 .. Millis - 1]

(* A struct tm, whose tm_mday counts from 1.                                 *)
System ==
  [year : -YearBias .. Years - YearBias - 1, month : 0 .. Months - 1, day : 1 .. Days,
   hour : 0 .. Hours - 1, minute : 0 .. Minutes - 1, second : 0 .. Seconds - 1]

--------------------------------------------------------------------------------
(* result *= base, result += digit; and back.                                *)
Add(n, base, digit) == n * base + digit
Digit(n, base)      == n % base
Rest(n, base)       == n \div base

(* The number after each field.                                             *)
ByMonth(d)  == Add(d.year + YearBias, Months, d.month)
ByDay(d)    == Add(ByMonth(d), Days, d.day)
ByHour(d)   == Add(ByDay(d), Hours, d.hour)
ByMinute(d) == Add(ByHour(d), Minutes, d.minute)
BySecond(d) == Add(ByMinute(d), Seconds, d.second)

(* Mutant: months and days the other way round.                              *)
ToDense_Swapped(d) ==
  LET n == Add(Add(d.year + YearBias, Days, d.day), Months, d.month) IN
  Add(Add(Add(Add(n, Hours, d.hour), Minutes, d.minute), Seconds, d.second), Millis, d.milli)

(* tm_toDenseTime.                                                          *)
ToDense(d) == Add(BySecond(d), Millis, d.milli)

(* Mutant: the leap second is forgotten.                                     *)
FromDense_NoLeap(n) ==
  LET s == Rest(n, Millis)
      m == Rest(s, Seconds - 1)
      h == Rest(m, Minutes)
      d == Rest(h, Hours)
      o == Rest(d, Days)
  IN  DateTime(Rest(o, Months) - YearBias, Digit(o, Months), Digit(d, Days), Digit(h, Hours),
               Digit(m, Minutes), Digit(s, Seconds - 1), Digit(n, Millis))

(* tm_fromDenseTime.                                                        *)
FromDense(n) ==
  LET s == Rest(n, Millis)
      m == Rest(s, Seconds)
      h == Rest(m, Minutes)
      d == Rest(h, Hours)
      o == Rest(d, Days)
  IN  DateTime(Rest(o, Months) - YearBias, Digit(o, Months), Digit(d, Days), Digit(h, Hours),
               Digit(m, Minutes), Digit(s, Seconds), Digit(n, Millis))

(* os__posixDateTimeFromSystemTime.                                         *)
FromSystem(tm, milli) ==
  DateTime(tm.year, tm.month, tm.day, tm.hour, tm.minute, tm.second, milli)

(* roundVal: rounds up from a remainder of 5.                                *)
RoundVal(a, b) == (a \div b) + (IF a % b >= 5 THEN 1 ELSE 0)

(* tm_nowGm and tm_nowLocal: the minute is not set.                          *)
Now(tm, nanos) ==
  DateTime(tm.year, tm.month, tm.day, tm.hour, 0, tm.second, RoundVal(nanos, Nanos))

--------------------------------------------------------------------------------
(* The dates come from a caller or from the system, see os_timeUniversalNow, *)
(* or from the clock.                                                       *)
Init ==
  /\ \/ origin = "caller" /\ date \in Documented
     \/ /\ origin = "system"
        /\ \E tm \in System, ms \in 0 .. Millis - 1 : date = FromSystem(tm, ms)
     \/ /\ origin = "clock"
        /\ \E tm \in System, ns \in 0 .. Millis * Nanos - 1 : date = Now(tm, ns)
  /\ dense = 0 /\ back = date
  /\ at = "date"

Pack ==
  /\ at = "date"
  /\ dense' = ToDense(date)
  /\ at' = "dense"
  /\ UNCHANGED <<date, back, origin>>

Unpack ==
  /\ at = "dense"
  /\ back' = FromDense(dense)
  /\ at' = "back"
  /\ UNCHANGED <<date, dense, origin>>

Next == Pack \/ Unpack

Spec == Init /\ [][Next]_vars

--------------------------------------------------------------------------------
(* Earlier in time, by the first field that differs.                         *)
Earlier(d, e) ==
  \/ d.year < e.year
  \/ d.year = e.year /\ d.month < e.month
  \/ d.year = e.year /\ d.month = e.month /\ d.day < e.day
  \/ d.year = e.year /\ d.month = e.month /\ d.day = e.day /\ d.hour < e.hour
  \/ d.year = e.year /\ d.month = e.month /\ d.day = e.day /\ d.hour = e.hour
       /\ d.minute < e.minute
  \/ d.year = e.year /\ d.month = e.month /\ d.day = e.day /\ d.hour = e.hour
       /\ d.minute = e.minute /\ d.second < e.second
  \/ d.year = e.year /\ d.month = e.month /\ d.day = e.day /\ d.hour = e.hour
       /\ d.minute = e.minute /\ d.second = e.second /\ d.milli < e.milli

(* What is unpacked is what was packed, for a date in the documented ranges. *)
RoundTrip == at = "back" /\ origin = "caller" => back = date

(* Times compare as their numbers, for dates in the documented ranges and    *)
(* also for those of the system, whose days run up to one more.  Those of    *)
(* the clock, whose milliseconds may be rounded up to a whole second, are    *)
(* never in the wrong order, though different ones may be the same number.   *)
Ordered ==
  at = "date" =>
    /\ origin = "caller" =>
         \A e \in Documented : Earlier(date, e) => ToDense(date) < ToDense(e)
    /\ origin = "system" =>
         \A tm \in System, ms \in 0 .. Millis - 1 :
           Earlier(date, FromSystem(tm, ms)) => ToDense(date) < ToDense(FromSystem(tm, ms))
    /\ origin = "clock" =>
         \A tm \in System, ns \in 0 .. Millis * Nanos - 1 :
           Earlier(date, Now(tm, ns)) => ToDense(date) <= ToDense(Now(tm, ns))
================================================================================
