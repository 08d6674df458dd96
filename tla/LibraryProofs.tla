------------------------------ MODULE LibraryProofs -----------------------------
(***************************************************************************)
(* The sequential parts, for every vocabulary: packed dates, the URL       *)
(* parser, the argument parser, the fixing of paths, the header parser and *)
(* the page builder.                                                       *)
(***************************************************************************)
EXTENDS Library, DataInduction, SequenceTheorems, FiniteSetTheorems

--------------------------------------------------------------------------------
(* Dates: packing and unpacking are inverse to each other and keep the order  *)
(* of times, whatever the number of values of each field.                     *)

(* A larger number of whole bases outweighs the digits.                      *)
LEMMA Carry ==
  ASSUME NEW n \in Nat, NEW m \in Nat, NEW base \in Nat \ {0},
         NEW d \in Int, NEW e \in Int, d - e < base, n < m
  PROVE  Add(n, base, d) < Add(m, base, e)
<1>1. PICK k \in Nat : m = n + 1 + k
  <2> WITNESS m - n - 1 \in Nat
  <2> QED BY SMT
<1>2. k * base \in Nat /\ n * base \in Nat
  BY SMT
<1>3. m * base = n * base + base + k * base
  BY <1>1, SMT
<1>4. QED BY <1>2, <1>3, SMT DEF Add

(* A digit that is one too large reaches the next base at most.              *)
LEMMA Overflow ==
  ASSUME NEW n \in Nat, NEW m \in Nat, NEW base \in Nat \ {0},
         NEW d \in Int, NEW e \in Int, d - e <= base, n < m
  PROVE  Add(n, base, d) <= Add(m, base, e)
<1>1. PICK k \in Nat : m = n + 1 + k
  <2>1. m - n - 1 \in Nat /\ m = n + 1 + (m - n - 1)
    BY SMT
  <2>2. QED BY <2>1
<1>2. k * base \in Nat /\ n * base \in Nat
  BY SMT
<1>3. m * base = n * base + base + k * base
  BY <1>1, SMT
<1>4. QED BY <1>2, <1>3, SMT DEF Add

(* With as many whole bases the digits decide.                               *)
LEMMA SameBase ==
  ASSUME NEW n \in Nat, NEW base \in Nat \ {0}, NEW d \in Int, NEW e \in Int, d < e
  PROVE  Add(n, base, d) < Add(n, base, e)
<1>1. n * base \in Nat
  BY SMT
<1>2. QED BY <1>1, SMT DEF Add

(* The order of two numbers and, if these are equal, of two digits is that   *)
(* of the numbers put together.                                             *)
LEMMA Step ==
  ASSUME NEW n \in Nat, NEW m \in Nat, NEW base \in Nat \ {0},
         NEW d \in Int, NEW e \in Int, d - e < base,
         n < m \/ (n = m /\ d < e)
  PROVE  Add(n, base, d) < Add(m, base, e)
<1>1. CASE n < m
  BY <1>1, Carry
<1>2. CASE n = m /\ d < e
  BY <1>2, SameBase
<1>3. QED BY <1>1, <1>2

(* Numbers stay natural.                                                    *)
LEMMA AddNat ==
  ASSUME NEW n \in Nat, NEW base \in Nat, NEW d \in Nat
  PROVE  Add(n, base, d) \in Nat
<1>1. n * base \in Nat
  BY SMT
<1>2. QED BY <1>1, SMT DEF Add

(* The last digit and the rest of a number that was put together.            *)
LEMMA Apart ==
  ASSUME NEW n \in Nat, NEW base \in Nat \ {0}, NEW d \in 0 .. base - 1
  PROVE  Rest(Add(n, base, d), base) = n /\ Digit(Add(n, base, d), base) = d
<1> DEFINE a == Add(n, base, d)
           q == a \div base
           r == a % base
<1>1. a \in Nat
  BY AddNat, SMT
<1>2. q \in Int /\ r \in 0 .. base - 1 /\ a = base * q + r
  <2> HIDE DEF a
  <2> QED BY <1>1, SMT
<1>3. a = n * base + d
  BY DEF Add
<1> HIDE DEF a, q, r
<1>4. q = n
  <2>1. CASE q < n
    <3>1. PICK k \in Nat : n = q + 1 + k
      <4>1. n - q - 1 \in Nat /\ n = q + 1 + (n - q - 1)
        BY <1>2, <2>1, SMT
      <4>2. QED BY <4>1
    <3>2. n * base = base * q + base + k * base /\ k * base \in Nat
      BY <1>2, <3>1, SMT
    <3>3. base * q \in Int
      BY <1>2, SMT
    <3>4. QED BY <1>2, <1>3, <3>2, <3>3, SMT
  <2>2. CASE n < q
    <3>1. PICK k \in Nat : q = n + 1 + k
      <4>1. q - n - 1 \in Nat /\ q = n + 1 + (q - n - 1)
        BY <1>2, <2>2, SMT
      <4>2. QED BY <4>1
    <3>2. base * q = n * base + base + k * base /\ k * base \in Nat
      BY <1>2, <3>1, SMT
    <3>3. n * base \in Nat
      BY SMT
    <3>4. QED BY <1>2, <1>3, <3>2, <3>3, SMT
  <2>3. QED BY <1>2, <2>1, <2>2, SMT
<1>5. base * q = n * base
  BY <1>4, SMT
<1>6. n * base \in Nat
  BY SMT
<1>7. r = d
  BY <1>2, <1>3, <1>5, <1>6, SMT
<1>8. QED BY <1>4, <1>7 DEF a, q, r, Rest, Digit

--------------------------------------------------------------------------------
(* Fields of a date, each in as many values as the code gives it; lo is the  *)
(* first day and top the last millisecond.                                   *)
Dates(lo, top) ==
  [year : -YearBias .. Years - YearBias - 1, month : 0 .. Months - 1,
   day : lo .. lo + Days - 1, hour : 0 .. Hours - 1, minute : 0 .. Minutes - 1,
   second : 0 .. Seconds - 1, milli : 0 .. top]

(* The number is natural after every field.                                  *)
LEMMA Naturals ==
  ASSUME NEW lo \in {0, 1}, NEW top, NEW d \in Dates(lo, top)
  PROVE  /\ ByMonth(d) \in Nat /\ ByDay(d) \in Nat /\ ByHour(d) \in Nat
         /\ ByMinute(d) \in Nat /\ BySecond(d) \in Nat /\ d.year + YearBias \in Nat
<1> USE RadixAssumption
<1>1. /\ d.year + YearBias \in Nat /\ d.month \in Nat /\ d.day \in Nat
      /\ d.hour \in Nat /\ d.minute \in Nat /\ d.second \in Nat
  BY SMT DEF Dates
<1>2. ByMonth(d) \in Nat
  BY <1>1, AddNat DEF ByMonth
<1>3. ByDay(d) \in Nat
  BY <1>1, <1>2, AddNat DEF ByDay
<1>4. ByHour(d) \in Nat
  BY <1>1, <1>3, AddNat DEF ByHour
<1>5. ByMinute(d) \in Nat
  BY <1>1, <1>4, AddNat DEF ByMinute
<1>6. BySecond(d) \in Nat
  BY <1>1, <1>5, AddNat DEF BySecond
<1>7. QED BY <1>1, <1>2, <1>3, <1>4, <1>5, <1>6

(* An earlier date has fewer seconds, or as many and fewer milliseconds.      *)
LEMMA SecondsOrder ==
  ASSUME NEW lo \in {0, 1}, NEW top, NEW d \in Dates(lo, top), NEW e \in Dates(lo, top),
         Earlier(d, e)
  PROVE  BySecond(d) < BySecond(e) \/ (BySecond(d) = BySecond(e) /\ d.milli < e.milli)
<1> USE RadixAssumption
<1>1. /\ d.year \in Int /\ d.month \in 0 .. Months - 1 /\ d.day \in lo .. lo + Days - 1
      /\ d.hour \in 0 .. Hours - 1 /\ d.minute \in 0 .. Minutes - 1
      /\ d.second \in 0 .. Seconds - 1
  BY SMT DEF Dates
<1>2. /\ e.year \in Int /\ e.month \in 0 .. Months - 1 /\ e.day \in lo .. lo + Days - 1
      /\ e.hour \in 0 .. Hours - 1 /\ e.minute \in 0 .. Minutes - 1
      /\ e.second \in 0 .. Seconds - 1
  BY SMT DEF Dates
<1>3. /\ ByMonth(d) \in Nat /\ ByDay(d) \in Nat /\ ByHour(d) \in Nat
      /\ ByMinute(d) \in Nat /\ BySecond(d) \in Nat /\ d.year + YearBias \in Nat
  BY Naturals
<1>4. /\ ByMonth(e) \in Nat /\ ByDay(e) \in Nat /\ ByHour(e) \in Nat
      /\ ByMinute(e) \in Nat /\ BySecond(e) \in Nat /\ e.year + YearBias \in Nat
  BY Naturals
<1> DEFINE SameYear   == d.year = e.year
           SameMonth  == SameYear /\ d.month = e.month
           SameDay    == SameMonth /\ d.day = e.day
           SameHour   == SameDay /\ d.hour = e.hour
           SameMinute == SameHour /\ d.minute = e.minute
           SameSecond == SameMinute /\ d.second = e.second
           YearLess   == d.year < e.year
           MonthLess  == YearLess \/ (SameYear /\ d.month < e.month)
           DayLess    == MonthLess \/ (SameMonth /\ d.day < e.day)
           HourLess   == DayLess \/ (SameDay /\ d.hour < e.hour)
           MinuteLess == HourLess \/ (SameHour /\ d.minute < e.minute)
           SecondLess == MinuteLess \/ (SameMinute /\ d.second < e.second)
<1>5. MonthLess => ByMonth(d) < ByMonth(e)
  <2>1. d.month - e.month < Months
    BY <1>1, <1>2, SMT
  <2>2. MonthLess => d.year + YearBias < e.year + YearBias
                      \/ (d.year + YearBias = e.year + YearBias /\ d.month < e.month)
    BY <1>1, <1>2, SMT
  <2>3. d.month \in Int /\ e.month \in Int
    BY <1>1, <1>2, SMT
  <2>4. QED BY <1>3, <1>4, <2>1, <2>2, <2>3, Step DEF ByMonth
<1>6. SameMonth => ByMonth(d) = ByMonth(e)
  BY DEF ByMonth
<1>7. DayLess => ByDay(d) < ByDay(e)
  <2>1. d.day - e.day < Days /\ d.day \in Int /\ e.day \in Int
    BY <1>1, <1>2, SMT
  <2>2. DayLess => ByMonth(d) < ByMonth(e) \/ (ByMonth(d) = ByMonth(e) /\ d.day < e.day)
    BY <1>5, <1>6
  <2>3. QED BY <1>3, <1>4, <2>1, <2>2, Step DEF ByDay
<1>8. SameDay => ByDay(d) = ByDay(e)
  BY <1>6 DEF ByDay
<1>9. HourLess => ByHour(d) < ByHour(e)
  <2>1. d.hour - e.hour < Hours /\ d.hour \in Int /\ e.hour \in Int
    BY <1>1, <1>2, SMT
  <2>2. HourLess => ByDay(d) < ByDay(e) \/ (ByDay(d) = ByDay(e) /\ d.hour < e.hour)
    BY <1>7, <1>8
  <2>3. QED BY <1>3, <1>4, <2>1, <2>2, Step DEF ByHour
<1>10. SameHour => ByHour(d) = ByHour(e)
  BY <1>8 DEF ByHour
<1>11. MinuteLess => ByMinute(d) < ByMinute(e)
  <2>1. d.minute - e.minute < Minutes /\ d.minute \in Int /\ e.minute \in Int
    BY <1>1, <1>2, SMT
  <2>2. MinuteLess => ByHour(d) < ByHour(e) \/ (ByHour(d) = ByHour(e) /\ d.minute < e.minute)
    BY <1>9, <1>10
  <2>3. QED BY <1>3, <1>4, <2>1, <2>2, Step DEF ByMinute
<1>12. SameMinute => ByMinute(d) = ByMinute(e)
  BY <1>10 DEF ByMinute
<1>13. SecondLess => BySecond(d) < BySecond(e)
  <2>1. d.second - e.second < Seconds /\ d.second \in Int /\ e.second \in Int
    BY <1>1, <1>2, SMT
  <2>2. SecondLess => ByMinute(d) < ByMinute(e)
                       \/ (ByMinute(d) = ByMinute(e) /\ d.second < e.second)
    BY <1>11, <1>12
  <2>3. QED BY <1>3, <1>4, <2>1, <2>2, Step DEF BySecond
<1>14. SameSecond => BySecond(d) = BySecond(e)
  BY <1>12 DEF BySecond
<1>15. SecondLess \/ (SameSecond /\ d.milli < e.milli)
  BY Zenon DEF Earlier
<1>16. QED BY <1>13, <1>14, <1>15

(* An earlier date has the smaller number.                                   *)
LEMMA Order ==
  ASSUME NEW lo \in {0, 1}, NEW d \in Dates(lo, Millis - 1), NEW e \in Dates(lo, Millis - 1),
         Earlier(d, e)
  PROVE  ToDense(d) < ToDense(e)
<1> USE RadixAssumption
<1>1. BySecond(d) \in Nat /\ BySecond(e) \in Nat
  BY Naturals
<1>2. d.milli - e.milli < Millis /\ d.milli \in Int /\ e.milli \in Int
  BY SMT DEF Dates
<1>3. QED BY <1>1, <1>2, SecondsOrder, Step DEF ToDense

(* Nor is its number larger if the milliseconds may be a whole second.       *)
LEMMA ClockOrder ==
  ASSUME NEW d \in Dates(1, Millis), NEW e \in Dates(1, Millis), Earlier(d, e)
  PROVE  ToDense(d) <= ToDense(e)
<1> USE RadixAssumption
<1>1. BySecond(d) \in Nat /\ BySecond(e) \in Nat
  BY Naturals
<1>2. d.milli - e.milli <= Millis /\ d.milli \in Int /\ e.milli \in Int
  BY SMT DEF Dates
<1>3. CASE BySecond(d) < BySecond(e)
  BY <1>1, <1>2, <1>3, Overflow DEF ToDense
<1>4. CASE BySecond(d) = BySecond(e) /\ d.milli < e.milli
  <2>1. Add(BySecond(d), Millis, d.milli) < Add(BySecond(e), Millis, e.milli)
    BY <1>1, <1>2, <1>4, SameBase
  <2>2. BySecond(d) * Millis \in Nat /\ BySecond(e) * Millis \in Nat
    BY <1>1, SMT
  <2>3. QED BY <1>2, <2>1, <2>2, SMT DEF ToDense, Add
<1>5. QED BY <1>3, <1>4, SecondsOrder

(* A date in the documented ranges is one whose days count from 0.           *)
LEMMA DocumentedDates ==
  ASSUME NEW d \in Documented
  PROVE  d \in Dates(0, Millis - 1)
BY RadixAssumption, SMT DEF Documented, Dates

(* A date in the documented ranges is unpacked as it was packed.             *)
LEMMA UnpackedAsPacked ==
  ASSUME NEW d \in Documented
  PROVE  FromDense(ToDense(d)) = d
<1> USE RadixAssumption
<1>1. /\ d.year \in Int /\ d.month \in 0 .. Months - 1 /\ d.day \in 0 .. Days - 1
      /\ d.hour \in 0 .. Hours - 1 /\ d.minute \in 0 .. Minutes - 1
      /\ d.second \in 0 .. Seconds - 1 /\ d.milli \in 0 .. Millis - 1
  BY SMT DEF Documented
<1>2. d \in Dates(0, Millis - 1)
  BY DocumentedDates
<1>3. /\ ByMonth(d) \in Nat /\ ByDay(d) \in Nat /\ ByHour(d) \in Nat
      /\ ByMinute(d) \in Nat /\ BySecond(d) \in Nat /\ d.year + YearBias \in Nat
  BY <1>2, Naturals
<1>4. Rest(ToDense(d), Millis) = BySecond(d) /\ Digit(ToDense(d), Millis) = d.milli
  BY <1>1, <1>3, Apart DEF ToDense
<1>5. Rest(BySecond(d), Seconds) = ByMinute(d) /\ Digit(BySecond(d), Seconds) = d.second
  BY <1>1, <1>3, Apart DEF BySecond
<1>6. Rest(ByMinute(d), Minutes) = ByHour(d) /\ Digit(ByMinute(d), Minutes) = d.minute
  BY <1>1, <1>3, Apart DEF ByMinute
<1>7. Rest(ByHour(d), Hours) = ByDay(d) /\ Digit(ByHour(d), Hours) = d.hour
  BY <1>1, <1>3, Apart DEF ByHour
<1>8. Rest(ByDay(d), Days) = ByMonth(d) /\ Digit(ByDay(d), Days) = d.day
  BY <1>1, <1>3, Apart DEF ByDay
<1>9. Rest(ByMonth(d), Months) = d.year + YearBias /\ Digit(ByMonth(d), Months) = d.month
  BY <1>1, <1>3, Apart DEF ByMonth
<1>10. d.year + YearBias - YearBias = d.year
  BY <1>1, SMT
<1>11. FromDense(ToDense(d)) =
         DateTime(d.year, d.month, d.day, d.hour, d.minute, d.second, d.milli)
  <2> DEFINE s == Rest(ToDense(d), Millis)
             m == Rest(s, Seconds)
             h == Rest(m, Minutes)
             y == Rest(h, Hours)
             o == Rest(y, Days)
  <2>1. FromDense(ToDense(d)) =
          DateTime(Rest(o, Months) - YearBias, Digit(o, Months), Digit(y, Days), Digit(h, Hours),
                   Digit(m, Minutes), Digit(s, Seconds), Digit(ToDense(d), Millis))
    BY Zenon DEF FromDense
  <2>2. s = BySecond(d) /\ m = ByMinute(d) /\ h = ByHour(d) /\ y = ByDay(d) /\ o = ByMonth(d)
    BY <1>4, <1>5, <1>6, <1>7, <1>8
  <2> HIDE DEF s, m, h, y, o
  <2>3. /\ Rest(o, Months) - YearBias = d.year /\ Digit(o, Months) = d.month
        /\ Digit(y, Days) = d.day /\ Digit(h, Hours) = d.hour /\ Digit(m, Minutes) = d.minute
        /\ Digit(s, Seconds) = d.second
    <3>1. Rest(o, Months) = d.year + YearBias /\ Digit(o, Months) = d.month
      BY <2>2, <1>9
    <3>2. Digit(y, Days) = d.day /\ Digit(h, Hours) = d.hour
      BY <2>2, <1>7, <1>8
    <3>3. Digit(m, Minutes) = d.minute /\ Digit(s, Seconds) = d.second
      BY <2>2, <1>5, <1>6
    <3>4. Rest(o, Months) - YearBias = d.year
      BY <3>1, <1>1, SMT
    <3>5. QED BY <3>1, <3>2, <3>3, <3>4, Zenon
  <2>4. QED BY <2>1, <2>3, <1>4
<1>12. QED BY <1>11 DEF DateTime, Documented

--------------------------------------------------------------------------------
(* What is known of the three variables.                                     *)
PInv ==
  /\ origin = "caller" => date \in Documented
  /\ origin = "system" => \E tm \in System, ms \in 0 .. Millis - 1 : date = FromSystem(tm, ms)
  /\ origin = "clock" => \E tm \in System, ns \in 0 .. Millis * Nanos - 1 : date = Now(tm, ns)
  /\ at = "dense" => dense = ToDense(date)
  /\ at = "back" => back = FromDense(ToDense(date))

(* PInv is an invariant of packing and unpacking.                            *)
THEOREM PackingInvariant == Spec => []PInv
<1>1. Init => PInv
  BY DEF Init, PInv
<1>2. PInv /\ [Next]_vars => PInv'
  <2> SUFFICES ASSUME PInv, [Next]_vars PROVE PInv'
    OBVIOUS
  <2>1. CASE Pack
    BY <2>1 DEF Pack, PInv
  <2>2. CASE Unpack
    BY <2>2 DEF Unpack, PInv
  <2>3. CASE UNCHANGED vars
    BY <2>3 DEF vars, PInv
  <2>4. QED BY <2>1, <2>2, <2>3 DEF Next
<1>3. QED BY <1>1, <1>2, PTL DEF Spec

(* tm_fromDenseTime gives back what tm_toDenseTime was given.                *)
THEOREM RoundTripSound == Spec => []RoundTrip
<1>1. PInv => RoundTrip
  BY UnpackedAsPacked DEF PInv, RoundTrip
<1>2. QED BY <1>1, PackingInvariant, PTL

(* A date of the system is one whose days count from 1.                      *)
LEMMA SystemDates ==
  ASSUME NEW tm \in System, NEW ms \in 0 .. Millis - 1
  PROVE  FromSystem(tm, ms) \in Dates(1, Millis - 1)
<1> USE RadixAssumption
<1>1. 1 + Days - 1 = Days
  BY SMT
<1>2. QED BY <1>1 DEF System, FromSystem, DateTime, Dates

(* Fewer nanoseconds than a second are rounded to a second at most.          *)
LEMMA Rounded ==
  ASSUME NEW ns \in 0 .. Millis * Nanos - 1
  PROVE  RoundVal(ns, Nanos) \in 0 .. Millis
<1> USE RadixAssumption
<1> DEFINE q == ns \div Nanos
           r == ns % Nanos
<1>1. Millis * Nanos \in Nat
  BY SMT
<1>2. q \in Nat /\ r \in 0 .. Nanos - 1 /\ ns = Nanos * q + r
  BY <1>1, SMT
<1> HIDE DEF q, r
<1>3. q < Millis
  <2>1. CASE q >= Millis
    <3>1. Nanos * q >= Millis * Nanos
      BY <1>2, <2>1, Z3
    <3>2. Nanos * q \in Nat
      BY <1>2, SMT
    <3>3. QED BY <1>1, <1>2, <3>1, <3>2, SMT
  <2>2. QED BY <1>2, <2>1, SMT
<1>4. RoundVal(ns, Nanos) \in {q, q + 1}
  BY <1>2 DEF RoundVal, q, r
<1>5. QED BY <1>2, <1>3, <1>4, SMT

(* A date of the clock is one of the system without minutes.                 *)
LEMMA ClockDates ==
  ASSUME NEW tm \in System, NEW ns \in 0 .. Millis * Nanos - 1
  PROVE  Now(tm, ns) \in Dates(1, Millis)
<1> USE RadixAssumption
<1>1. RoundVal(ns, Nanos) \in 0 .. Millis
  BY Rounded
<1>2. 1 + Days - 1 = Days /\ 0 \in 0 .. Minutes - 1
  BY SMT
<1>3. QED BY <1>1, <1>2 DEF System, Now, DateTime, Dates

(* Times compare as the numbers they are packed into.                        *)
THEOREM OrderSound == Spec => []Ordered
<1>1. PInv => Ordered
  <2> SUFFICES ASSUME PInv, at = "date" PROVE
        /\ origin = "caller" =>
             \A e \in Documented : Earlier(date, e) => ToDense(date) < ToDense(e)
        /\ origin = "system" =>
             \A tm \in System, ms \in 0 .. Millis - 1 :
               Earlier(date, FromSystem(tm, ms)) => ToDense(date) < ToDense(FromSystem(tm, ms))
        /\ origin = "clock" =>
             \A tm \in System, ns \in 0 .. Millis * Nanos - 1 :
               Earlier(date, Now(tm, ns)) => ToDense(date) <= ToDense(Now(tm, ns))
    BY DEF Ordered
  <2>1. ASSUME origin = "caller", NEW e \in Documented, Earlier(date, e)
        PROVE  ToDense(date) < ToDense(e)
    <3>1. date \in Documented
      BY <2>1 DEF PInv
    <3>2. date \in Dates(0, Millis - 1) /\ e \in Dates(0, Millis - 1)
      BY <2>1, <3>1, DocumentedDates
    <3>3. QED BY <2>1, <3>2, Order
  <2>2. ASSUME origin = "system", NEW tm \in System, NEW ms \in 0 .. Millis - 1,
               Earlier(date, FromSystem(tm, ms))
        PROVE  ToDense(date) < ToDense(FromSystem(tm, ms))
    <3>1. date \in Dates(1, Millis - 1)
      BY <2>2, SystemDates DEF PInv
    <3>2. FromSystem(tm, ms) \in Dates(1, Millis - 1)
      BY SystemDates
    <3>3. QED BY <2>2, <3>1, <3>2, Order
  <2>3. ASSUME origin = "clock", NEW tm \in System, NEW ns \in 0 .. Millis * Nanos - 1,
               Earlier(date, Now(tm, ns))
        PROVE  ToDense(date) <= ToDense(Now(tm, ns))
    <3>1. date \in Dates(1, Millis)
      BY <2>3, ClockDates DEF PInv
    <3>2. Now(tm, ns) \in Dates(1, Millis)
      BY ClockDates
    <3>3. QED BY <2>3, <3>1, <3>2, ClockOrder
  <2>4. QED BY <2>1, <2>2, <2>3
<1>2. QED BY <1>1, PackingInvariant, PTL

--------------------------------------------------------------------------------
(* URLs: whatever the five functions of url_fromStr search for and cut off,   *)
(* each part is a piece of the URL; and where every separator is found in a   *)
(* URL with a scheme, a host, a port and a path.                             *)

(* A start and a size within a text of n characters.                          *)
Within(n) == {s \in [start : Nat, size : Nat] : s.start + s.size <= n}

(* A search returns a position, or -1.                                        *)
LEMMA FindCharRange ==
  ASSUME NEW s \in [start : Nat, size : Nat], NEW c
  PROVE  /\ Urls!FindChar(s, c) \in -1 .. s.size - 1
         /\ \A i \in 0 .. s.size - 1 :
              /\ Urls!url[s.start + i + 1] = c
              /\ \A j \in 0 .. i - 1 : Urls!url[s.start + j + 1] # c
              => Urls!FindChar(s, c) = i
         /\ (\A i \in 0 .. s.size - 1 : Urls!url[s.start + i + 1] # c)
              => Urls!FindChar(s, c) = -1
<1> DEFINE A == {i \in 0 .. s.size - 1 : Urls!url[s.start + i + 1] = c}
           m == CHOOSE i \in A : \A j \in A : i <= j
<1>1. Urls!FindChar(s, c) = IF A = {} THEN -1 ELSE m
  BY DEF Urls!FindChar
<1>2. A \subseteq Nat
  OBVIOUS
<1>3. A # {} => m \in A /\ \A j \in A : m <= j
  <2> SUFFICES ASSUME A # {} PROVE \E i \in A : \A j \in A : i <= j
    OBVIOUS
  <2> HIDE DEF A
  <2> QED BY <1>2, LeastElement
<1>4. \A i \in A : i \in 0 .. s.size - 1
  OBVIOUS
<1>5. ASSUME NEW i \in 0 .. s.size - 1, Urls!url[s.start + i + 1] = c,
             \A j \in 0 .. i - 1 : Urls!url[s.start + j + 1] # c
      PROVE  Urls!FindChar(s, c) = i
  <2>1. i \in A
    BY <1>5
  <2>2. m \in 0 .. s.size - 1 /\ m <= i /\ Urls!url[s.start + m + 1] = c
    BY <1>3, <2>1
  <2>3. ~(m < i)
    BY <1>5, <2>2
  <2> HIDE DEF m, A
  <2> QED BY <1>1, <2>1, <2>2, <2>3
<1>6. (\A i \in 0 .. s.size - 1 : Urls!url[s.start + i + 1] # c) => A = {}
  OBVIOUS
<1> HIDE DEF A, m
<1> QED BY <1>1, <1>3, <1>4, <1>5, <1>6

(* A part of a string starts at a position in it, or is empty if it starts at *)
(* -1; a negative size is larger than any string.                             *)
LEMMA SubStrWithin ==
  ASSUME NEW n \in Nat, Width \in Nat, n < Width, NEW s \in Within(n),
         NEW start \in Int, start >= -1, NEW size \in Int, size >= -n - 1
  PROVE  /\ Urls!SubStr(s, start, size) \in Within(n)
         /\ start \in 0 .. s.size - 1 /\ size >= 0 =>
              Urls!SubStr(s, start, size) =
                [start |-> s.start + start,
                 size |-> IF s.size - start < size THEN s.size - start ELSE size]
<1> DEFINE u == Urls!Unsigned(size)
           m == Urls!Least(s.size - start, u)
<1>1. /\ s.start \in Nat /\ s.size \in Nat /\ s.start + s.size <= n
      /\ s.size <= n
  BY DEF Within
<1>2. u \in Nat /\ (size >= 0 => u = size)
  BY DEF Urls!Unsigned
<1>3. CASE s.size <= Urls!Unsigned(start)
  <2>1. Urls!Null \in Within(n)
    BY DEF Within, Urls!Null
  <2>2. ~(start \in 0 .. s.size - 1)
    BY <1>1, <1>3 DEF Urls!Unsigned
  <2> QED BY <1>3, <2>1, <2>2 DEF Urls!SubStr
<1>4. CASE ~(s.size <= Urls!Unsigned(start))
  <2>1. start >= 0 /\ start < s.size
    BY <1>1, <1>4 DEF Urls!Unsigned
  <2>2. m \in Nat /\ m <= s.size - start /\ m = IF s.size - start < u THEN s.size - start ELSE u
    BY <1>1, <1>2, <2>1 DEF Urls!Least
  <2>3. Urls!SubStr(s, start, size) = [start |-> s.start + start, size |-> m]
    BY <1>1, <1>4, <2>1 DEF Urls!SubStr
  <2> HIDE DEF m, u
  <2>4. [start |-> s.start + start, size |-> m] \in Within(n)
    BY <1>1, <2>1, <2>2 DEF Within
  <2> QED BY <1>2, <2>2, <2>3, <2>4
<1> QED BY <1>3, <1>4

(* The rest of a string is within it.                                         *)
LEMMA FromWithin ==
  ASSUME NEW n \in Nat, NEW s \in Within(n), NEW start \in Nat
  PROVE  /\ Urls!From(s, start) \in Within(n)
         /\ start < s.size =>
              Urls!From(s, start) = [start |-> s.start + start, size |-> s.size - start]
         /\ start >= s.size => Urls!From(s, start) = Urls!Null
BY DEF Urls!From, Urls!Null, Within

(* What is cut out of a text is what stands there.                            *)
LEMMA CutOut ==
  ASSUME NEW S, NEW u \in Seq(S), NEW w \in Seq(S), NEW a \in Nat, a + Len(w) <= Len(u),
         \A j \in 1 .. Len(w) : u[a + j] = w[j]
  PROVE  SubSeq(u, a + 1, a + Len(w)) = w
<1> DEFINE c == SubSeq(u, a + 1, a + Len(w))
<1>1. c = [j \in 1 .. Len(w) |-> u[a + j]]
  <2>1. c = [j \in 1 .. (a + Len(w)) - (a + 1) + 1 |-> u[(a + 1) + j - 1]]
    OBVIOUS
  <2>2. (a + Len(w)) - (a + 1) + 1 = Len(w) /\ \A j \in 1 .. Len(w) : (a + 1) + j - 1 = a + j
    OBVIOUS
  <2> HIDE DEF c
  <2> QED BY <2>1, <2>2
<1>2. w = [j \in 1 .. Len(w) |-> w[j]]
  OBVIOUS
<1> HIDE DEF c
<1> QED BY <1>1, <1>2

--------------------------------------------------------------------------------
OutKeys == Urls!Parts \cup {"error", "port"}

(* What url_fromStr fills: each part is a piece of the text.                  *)
OutShape(o, n) ==
  /\ o = [k \in OutKeys |-> o[k]]
  /\ \A p \in Urls!Parts : o[p] \in Within(n)

(* Setting one part, or the error or the port, leaves the others.             *)
LEMMA SetPart ==
  ASSUME NEW n, NEW o, OutShape(o, n), NEW p \in Urls!Parts, NEW w \in Within(n)
  PROVE  /\ OutShape([o EXCEPT ![p] = w], n)
         /\ [o EXCEPT ![p] = w][p] = w
         /\ \A k \in OutKeys : k # p => [o EXCEPT ![p] = w][k] = o[k]
<1>1. p \in OutKeys
  BY DEF OutKeys
<1>2. DOMAIN o = OutKeys
  BY DEF OutShape
<1> DEFINE r == [o EXCEPT ![p] = w]
<1>3. r = [k \in OutKeys |-> IF k = p THEN w ELSE o[k]]
  BY <1>1, <1>2
<1>4. Urls!Parts \subseteq OutKeys
  BY DEF OutKeys
<1> HIDE DEF r
<1>5. OutShape(r, n)
  BY <1>3, <1>4, SMT DEF OutShape
<1>6. r[p] = w /\ \A k \in OutKeys : k # p => r[k] = o[k]
  BY <1>1, <1>3
<1> QED BY <1>5, <1>6 DEF r

LEMMA SetOther ==
  ASSUME NEW n, NEW o, OutShape(o, n), NEW p \in {"error", "port"}, NEW w
  PROVE  /\ OutShape([o EXCEPT ![p] = w], n)
         /\ [o EXCEPT ![p] = w][p] = w
         /\ \A k \in OutKeys : k # p => [o EXCEPT ![p] = w][k] = o[k]
<1>1. p \in OutKeys /\ p \notin Urls!Parts
  BY DEF OutKeys, Urls!Parts
<1>2. DOMAIN o = OutKeys
  BY DEF OutShape
<1> DEFINE r == [o EXCEPT ![p] = w]
<1>3. r = [k \in OutKeys |-> IF k = p THEN w ELSE o[k]]
  BY <1>1, <1>2
<1>4. Urls!Parts \subseteq OutKeys
  BY DEF OutKeys
<1> HIDE DEF r
<1>5. OutShape(r, n)
  BY <1>1, <1>3, <1>4, SMT DEF OutShape
<1>6. r[p] = w /\ \A k \in OutKeys : k # p => r[k] = o[k]
  BY <1>1, <1>3
<1> QED BY <1>5, <1>6 DEF r

--------------------------------------------------------------------------------
UrlBounds ==
  /\ given \in Given
  /\ OutShape(out, Len(Urls!url))
  /\ rest \in Within(Len(Urls!url))

(* What the texts consist of.                                                 *)
UrlChars == STRING \cup {":", "/", "@", "?", "#"}

(* URLs are texts, shorter than the numbers are wide.                         *)
LEMMA UrlLength ==
  ASSUME given \in Given
  PROVE  /\ Urls!url \in Seq(UrlChars)
         /\ Len(Urls!url) \in Nat /\ Width \in Nat /\ Len(Urls!url) < Width
<1> DEFINE g == given
<1>1. /\ g.scheme \in Seq(UrlChars) /\ g.user \in Seq(UrlChars) /\ g.pass \in Seq(UrlChars)
      /\ g.host \in Seq(UrlChars) /\ g.port \in Seq(UrlChars) /\ g.path \in Seq(UrlChars)
      /\ g.query \in Seq(UrlChars) /\ g.fragment \in Seq(UrlChars)
  <2> HIDE DEF g
  <2>1. \A p \in {"scheme", "user", "pass", "host", "port", "path", "query", "fragment"} :
          g[p] \in Seq(UrlChars)
    <3>1. ASSUME NEW s \in Seq(STRING) PROVE s \in Seq(UrlChars)
      BY DEF UrlChars
    <3> QED BY <3>1, UrlAssumption DEF g
  <2> QED BY <2>1
<1>2. ASSUME NEW a \in Seq(UrlChars), NEW b \in Seq(UrlChars)
      PROVE  Urls!Pre(a, b) \in Seq(UrlChars) /\ Urls!Post(a, b) \in Seq(UrlChars)
  <2>1. a \o b \in Seq(UrlChars) /\ b \o a \in Seq(UrlChars) /\ << >> \in Seq(UrlChars)
    OBVIOUS
  <2> QED BY <2>1, Zenon DEF Urls!Pre, Urls!Post
<1>3. ASSUME NEW a \in Seq(UrlChars), NEW b \in Seq(UrlChars) PROVE a \o b \in Seq(UrlChars)
  OBVIOUS
<1>4. /\ <<":", "/", "/">> \in Seq(UrlChars) /\ <<":">> \in Seq(UrlChars) /\ <<"@">> \in Seq(UrlChars)
      /\ <<"?">> \in Seq(UrlChars) /\ <<"#">> \in Seq(UrlChars)
  BY DEF UrlChars
<1> DEFINE a == Urls!Post(g.scheme, <<":", "/", "/">>)
           b == Urls!Post(g.user \o Urls!Pre(<<":">>, g.pass), <<"@">>)
           c == Urls!Pre(<<":">>, g.port)
           d == Urls!Pre(<<"?">>, g.query)
           e == Urls!Pre(<<"#">>, g.fragment)
<1>5. /\ a \in Seq(UrlChars) /\ b \in Seq(UrlChars) /\ c \in Seq(UrlChars)
      /\ d \in Seq(UrlChars) /\ e \in Seq(UrlChars)
  <2> HIDE DEF g
  <2> QED BY <1>1, <1>2, <1>3, <1>4, Zenon
<1>6. Urls!url = a \o b \o g.host \o c \o g.path \o d \o e
  BY DEF Urls!url, Urls!Format
<1>7. Urls!url \in Seq(UrlChars)
  <2> HIDE DEF a, b, c, d, e, g
  <2> QED BY <1>1, <1>3, <1>5, <1>6, Zenon
<1>8. Len(Urls!url) < Width /\ Width \in Nat
  BY UrlAssumption DEF Urls!url
<1>9. Len(Urls!url) \in Nat
  BY <1>7
<1> QED BY <1>7, <1>8, <1>9

(* What a function ends with keeps the parts within the URL.                  *)
LEMMA GiveBounds ==
  ASSUME UrlBounds, NEW o, OutShape(o, Len(Urls!url)), NEW r \in Within(Len(Urls!url)),
         NEW next, Urls!Give(o, r, next)
  PROVE  UrlBounds'
<1>1. given' = given /\ out' = o /\ rest' = r
  BY DEF Urls!Give
<1>2. Urls!url' = Urls!url
  BY <1>1 DEF Urls!url
<1>3. OutShape(out, Len(Urls!url))' <=> OutShape(out', Len(Urls!url'))
  BY DEF OutShape
<1> QED BY <1>1, <1>2, <1>3, SMT DEF UrlBounds

(* url__parseScheme.                                                          *)
LEMMA SchemeBounds ==
  ASSUME UrlBounds, Urls!ParseScheme
  PROVE  UrlBounds'
<1> DEFINE n == Len(Urls!url)
           start == Urls!FindChar(rest, ":")
           sep   == Urls!From(rest, start + 1)
           o     == [out EXCEPT !.scheme = Urls!SubStr(rest, 0, start)]
<1>1. n \in Nat /\ Width \in Nat /\ n < Width /\ OutShape(out, n) /\ rest \in Within(n)
  BY UrlLength DEF UrlBounds
<1>2. rest \in [start : Nat, size : Nat] /\ rest.size <= n
  BY <1>1 DEF Within
<1>3. start \in -1 .. rest.size - 1
  BY <1>2, FindCharRange
<1>4. /\ Urls!Null \in Within(n)
      /\ OutShape([out EXCEPT !.error = "scheme"], n)
  <2>1. Urls!Null \in Within(n)
    BY <1>1 DEF Within, Urls!Null
  <2> HIDE DEF n
  <2> QED BY <1>1, <2>1, SetOther
<1>5. OutShape(o, n)
  <2>1. Urls!SubStr(rest, 0, start) \in Within(n)
    <3> HIDE DEF n, start
    <3> QED BY <1>1, <1>2, <1>3, SubStrWithin
  <2> QED BY <1>1, <2>1, SetPart DEF Urls!Parts
<1>6. start >= 0 => sep \in Within(n) /\ Urls!From(sep, 2) \in Within(n)
  <2> SUFFICES ASSUME start >= 0 PROVE sep \in Within(n) /\ Urls!From(sep, 2) \in Within(n)
    OBVIOUS
  <2>1. start + 1 \in Nat
    BY <1>3
  <2>2. sep \in Within(n)
    <3> HIDE DEF n, start
    <3> QED BY <1>1, <2>1, FromWithin
  <2> HIDE DEF n, sep
  <2> QED BY <1>1, <2>2, FromWithin
<1>7. \/ Urls!Give(out, rest, "user")
      \/ Urls!Give([out EXCEPT !.error = "scheme"], Urls!Null, "user")
      \/ start >= 0 /\ Urls!Give(o, Urls!From(sep, 2), "user")
  BY <1>3 DEF Urls!ParseScheme
<1> HIDE DEF n, start, sep, o
<1> QED BY <1>1, <1>4, <1>5, <1>6, <1>7, GiveBounds, Zenon DEF n

(* url__parseUserPass.                                                        *)
LEMMA UserPassBounds ==
  ASSUME UrlBounds, Urls!ParseUserPass
  PROVE  UrlBounds'
<1> DEFINE n == Len(Urls!url)
           start   == Urls!FindChar(rest, "@")
           atpos   == Urls!FindChar(Urls!SubStr(rest, start, 0), "@")
           passsep == Urls!FindChar(Urls!SubStr(rest, 0, atpos), ":")
           user(k) == Urls!SubStr(rest, 0, k)
           pass == Urls!SubStr(rest, passsep + 1, atpos - passsep - 1)
           o == IF passsep < 0 THEN [out EXCEPT !.user = user(atpos)]
                ELSE [out EXCEPT !.user = user(passsep), !.pass = pass]
           e == [o EXCEPT !.error = "userOrPass"]
           r == Urls!SubStr(rest, atpos + 1, 0)
<1>1. n \in Nat /\ Width \in Nat /\ n < Width /\ OutShape(out, n) /\ rest \in Within(n)
  BY UrlLength DEF UrlBounds
<1>2. \A s \in Within(n) : s \in [start : Nat, size : Nat] /\ s.size <= n
  BY DEF Within
<1>3. ASSUME NEW s \in Within(n), NEW c
      PROVE  Urls!FindChar(s, c) \in -1 .. n - 1
  <2>1. s \in [start : Nat, size : Nat] /\ s.size <= n
    BY <1>2
  <2>2. Urls!FindChar(s, c) \in -1 .. s.size - 1
    BY <2>1, FindCharRange
  <2> HIDE DEF n
  <2> QED BY <1>1, <2>1, <2>2
<1>4. ASSUME NEW a \in Int, a >= -1, NEW b \in Int, b >= -n - 1
      PROVE  Urls!SubStr(rest, a, b) \in Within(n)
  BY <1>1, <1>4, SubStrWithin
<1>5. start \in -1 .. n - 1
  BY <1>1, <1>3
<1> HIDE DEF n, start
<1>6. atpos \in -1 .. n - 1
  <2>1. Urls!SubStr(rest, start, 0) \in Within(n)
    BY <1>1, <1>4, <1>5
  <2> QED BY <1>3, <2>1
<1> HIDE DEF atpos
<1>7. passsep \in -1 .. n - 1
  <2>1. Urls!SubStr(rest, 0, atpos) \in Within(n)
    BY <1>1, <1>4, <1>6
  <2> QED BY <1>3, <2>1
<1> HIDE DEF passsep
<1>8. user(atpos) \in Within(n) /\ user(passsep) \in Within(n) /\ r \in Within(n) /\ pass \in Within(n)
  <2>1. /\ atpos \in Int /\ atpos >= -n - 1 /\ passsep \in Int /\ passsep >= -n - 1
        /\ atpos + 1 \in Int /\ atpos + 1 >= -1 /\ passsep + 1 \in Int /\ passsep + 1 >= -1
        /\ atpos - passsep - 1 \in Int /\ atpos - passsep - 1 >= -n - 1
        /\ 0 \in Int /\ 0 >= -1 /\ 0 >= -n - 1
    BY <1>1, <1>6, <1>7
  <2> QED BY <1>4, <2>1
<1> HIDE DEF user, pass, r
<1>9. OutShape(o, n)
  <2>1. ASSUME NEW k \in {atpos, passsep} PROVE OutShape([out EXCEPT !.user = user(k)], n)
    BY <1>1, <1>8, SetPart DEF Urls!Parts
  <2> DEFINE w == [out EXCEPT !.user = user(passsep)]
  <2>2. OutShape(w, n)
    BY <2>1
  <2> HIDE DEF w
  <2>3. OutShape([w EXCEPT !.pass = pass], n)
    BY <1>8, <2>2, SetPart DEF Urls!Parts
  <2>4. o = IF passsep < 0 THEN [out EXCEPT !.user = user(atpos)] ELSE [w EXCEPT !.pass = pass]
    BY DEF w, o
  <2> QED BY <2>1, <2>3, <2>4
<1> HIDE DEF o
<1>10. OutShape(e, n)
  BY <1>9, SetOther
<1> HIDE DEF e
<1>11. \/ Urls!Give(out, rest, "host")
       \/ Urls!Give(e, Urls!Null, "host")
       \/ Urls!Give(o, r, "host")
  BY Zenon DEF Urls!ParseUserPass, start, atpos, passsep, o, e, r, user, pass
<1>12. Urls!Null \in Within(n)
  BY <1>1 DEF Within, Urls!Null
<1> QED BY <1>1, <1>8, <1>9, <1>10, <1>11, <1>12, GiveBounds, Zenon DEF n

(* url__parseHostPort, whatever the host length wraps around to.              *)
LEMMA HostPortBounds ==
  ASSUME UrlBounds, Urls!ParseHostPort
  PROVE  UrlBounds'
<1> DEFINE n == Len(Urls!url)
           portsep == Urls!FindChar(rest, ":")
           pathsep == Urls!FindChar(rest, "/")
           hostlen == Urls!HostLen(portsep, pathsep)
           port == Urls!Port(portsep, pathsep)
           host == Urls!SubStr(rest, 0, hostlen)
           o == [out EXCEPT !.port = port, !.host = IF hostlen > 0 THEN host ELSE @]
           p == [o EXCEPT !.path = Urls!SubStr(rest, pathsep, rest.size)]
           r == Urls!From(rest, rest.size)
<1>1. n \in Nat /\ Width \in Nat /\ n < Width /\ OutShape(out, n) /\ rest \in Within(n)
  BY UrlLength DEF UrlBounds
<1>2. rest \in [start : Nat, size : Nat] /\ rest.size \in Nat /\ rest.size <= n
  BY <1>1 DEF Within
<1>3. portsep \in -1 .. rest.size - 1 /\ pathsep \in -1 .. rest.size - 1
  BY <1>2, FindCharRange
<1> HIDE DEF n, portsep, pathsep
<1>4. hostlen \in Int /\ hostlen >= 0
  BY <1>1, <1>2, <1>3 DEF Urls!HostLen, Urls!Unsigned
<1> HIDE DEF hostlen, port
<1>5. host \in Within(n) /\ Urls!SubStr(rest, pathsep, rest.size) \in Within(n)
  <2>1. 0 \in Int /\ 0 >= -1 /\ hostlen >= -n - 1 /\ pathsep \in Int /\ pathsep >= -1
        /\ rest.size \in Int /\ rest.size >= -n - 1
    BY <1>1, <1>2, <1>3, <1>4
  <2> QED BY <1>1, <1>4, <2>1, SubStrWithin
<1>6. r \in Within(n) /\ Urls!Null \in Within(n)
  BY <1>1, <1>2, FromWithin DEF Within, Urls!Null
<1> HIDE DEF host, r
<1>7. OutShape(o, n)
  <2> DEFINE q == [out EXCEPT !.port = port]
  <2>1. OutShape(q, n) /\ q.host = out.host
    BY <1>1, SetOther DEF OutKeys, Urls!Parts
  <2>2. out.host \in Within(n)
    BY <1>1 DEF OutShape, Urls!Parts
  <2> HIDE DEF q
  <2>3. OutShape([q EXCEPT !.host = IF hostlen > 0 THEN host ELSE out.host], n)
    BY <1>5, <2>1, <2>2, SetPart DEF Urls!Parts
  <2>4. o = [q EXCEPT !.host = IF hostlen > 0 THEN host ELSE out.host]
    BY <2>1 DEF q
  <2> QED BY <2>3, <2>4
<1> HIDE DEF o
<1>8. OutShape(p, n)
  BY <1>5, <1>7, SetPart DEF Urls!Parts
<1> HIDE DEF p
<1>9. Urls!Give(o, Urls!Null, "query") \/ Urls!Give(p, r, "query")
  BY Zenon DEF Urls!ParseHostPort, portsep, pathsep, hostlen, port, host, o, p, r
<1> QED BY <1>6, <1>7, <1>8, <1>9, GiveBounds, Zenon DEF n

(* url__parseQuery and url__parseFragment.                                    *)
LEMMA QueryBounds ==
  ASSUME UrlBounds, Urls!ParseQuery \/ Urls!ParseFragment
  PROVE  UrlBounds'
<1> DEFINE n == Len(Urls!url)
<1>1. n \in Nat /\ OutShape(out, n) /\ rest \in Within(n)
  BY UrlLength DEF UrlBounds
<1>2. Urls!Null \in Within(n)
  BY <1>1 DEF Within, Urls!Null
<1> HIDE DEF n
<1>3. OutShape([out EXCEPT !.error = "query"], n) /\ OutShape([out EXCEPT !.error = "fragment"], n)
  BY <1>1, SetOther
<1>4. \/ Urls!Give([out EXCEPT !.error = "query"], Urls!Null, "fragment")
      \/ Urls!Give(out, rest, "fragment")
      \/ Urls!Give([out EXCEPT !.error = "fragment"], rest, "done")
      \/ Urls!Give(out, rest, "done")
  BY DEF Urls!ParseQuery, Urls!ParseFragment
<1> QED BY <1>1, <1>2, <1>3, <1>4, GiveBounds, Zenon DEF n

--------------------------------------------------------------------------------
(* Where the parts of a URL begin that has a scheme, a host, a port, a path.  *)
HostAt(g) == Len(g.scheme) + 3
PortAt(g) == HostAt(g) + Len(g.host) + 1
PathAt(g) == PortAt(g) + Len(g.port)

LaidOut(u, g) ==
  /\ Len(u) = PathAt(g) + Len(g.path)
  /\ \A i \in 1 .. Len(g.scheme) : u[i] = g.scheme[i]
  /\ u[Len(g.scheme) + 1] = ":" /\ u[Len(g.scheme) + 2] = "/" /\ u[Len(g.scheme) + 3] = "/"
  /\ \A i \in 1 .. Len(g.host) : u[HostAt(g) + i] = g.host[i]
  /\ u[PortAt(g)] = ":"
  /\ \A i \in 1 .. Len(g.port) : u[PortAt(g) + i] = g.port[i]
  /\ \A i \in 1 .. Len(g.path) : u[PathAt(g) + i] = g.path[i]

(* The text of such a URL is laid out like that.                              *)
LEMMA Layout ==
  ASSUME NEW S, NEW g, ":" \in S, "/" \in S, g.scheme \in Seq(S), g.host \in Seq(S),
         g.port \in Seq(S), g.path \in Seq(S)
  PROVE  LaidOut(g.scheme \o <<":", "/", "/">> \o g.host \o <<":">> \o g.port \o g.path, g)
<1> DEFINE x == ":"
           y == "/"
           a == g.scheme
           b == g.host
           c == g.port
           d == g.path
           s == <<x, y, y>>
           z == <<x>>
           v == a \o s
           w == v \o b
           p == w \o z
           q == p \o c
           u == q \o d
<1>0. x \in S /\ y \in S /\ a \in Seq(S) /\ b \in Seq(S) /\ c \in Seq(S) /\ d \in Seq(S)
  OBVIOUS
<1>9. Len(a) \in Nat /\ Len(b) \in Nat /\ Len(c) \in Nat
  OBVIOUS
<1>3. g.scheme \o <<":", "/", "/">> \o g.host \o <<":">> \o g.port \o g.path = u
  OBVIOUS
<1> HIDE DEF x, y, a, b, c, d
<1>1. s \in Seq(S) /\ z \in Seq(S)
  BY <1>0
<1>2. Len(s) = 3 /\ s[1] = x /\ s[2] = y /\ s[3] = y /\ Len(z) = 1 /\ z[1] = x
  OBVIOUS
<1> HIDE DEF s, z
<1>a. v \in Seq(S) /\ v = a \o s
  BY <1>0, <1>1
<1> HIDE DEF v
<1>b. w \in Seq(S) /\ w = v \o b
  BY <1>0, <1>a
<1> HIDE DEF w
<1>c. p \in Seq(S) /\ p = w \o z
  BY <1>1, <1>b
<1> HIDE DEF p
<1>d. q \in Seq(S) /\ q = p \o c
  BY <1>0, <1>c
<1> HIDE DEF q
<1>e. u \in Seq(S) /\ u = q \o d
  BY <1>0, <1>d
<1> HIDE DEF u
<1>4. /\ Len(v) = Len(a) + 3
      /\ \A i \in 1 .. Len(a) : v[i] = a[i]
      /\ v[Len(a) + 1] = x /\ v[Len(a) + 2] = y /\ v[Len(a) + 3] = y
  <2>1. /\ Len(v) = Len(a) + Len(s)
        /\ \A i \in 1 .. Len(a) : v[i] = a[i]
        /\ \A i \in 1 .. Len(s) : v[Len(a) + i] = s[i]
    BY <1>0, <1>1, <1>a
  <2>2. 1 \in 1 .. 3 /\ 2 \in 1 .. 3 /\ 3 \in 1 .. 3
    OBVIOUS
  <2> QED BY <1>2, <2>1, <2>2
<1>5. /\ Len(w) = Len(a) + 3 + Len(b)
      /\ \A i \in 1 .. Len(a) + 3 : w[i] = v[i]
      /\ \A i \in 1 .. Len(b) : w[Len(a) + 3 + i] = b[i]
  <2>1. /\ Len(w) = Len(v) + Len(b)
        /\ \A i \in 1 .. Len(v) : w[i] = v[i]
        /\ \A i \in 1 .. Len(b) : w[Len(v) + i] = b[i]
    BY <1>0, <1>a, <1>b
  <2>2. Len(v) = Len(a) + 3
    BY <1>4
  <2> QED BY <2>1, <2>2
<1>6. /\ Len(p) = Len(a) + 4 + Len(b)
      /\ \A i \in 1 .. Len(a) + 3 + Len(b) : p[i] = w[i]
      /\ p[Len(a) + 4 + Len(b)] = x
  <2>1. /\ Len(p) = Len(w) + Len(z)
        /\ \A i \in 1 .. Len(w) : p[i] = w[i]
        /\ \A i \in 1 .. Len(z) : p[Len(w) + i] = z[i]
    BY <1>1, <1>b, <1>c
  <2>2. p[Len(w) + 1] = x /\ Len(p) = Len(w) + 1
    BY <1>2, <2>1
  <2>3. Len(w) + 1 = Len(a) + 4 + Len(b) /\ Len(w) = Len(a) + 3 + Len(b)
    BY <1>5
  <2> QED BY <2>1, <2>2, <2>3, Zenon
<1>7. /\ Len(q) = Len(a) + 4 + Len(b) + Len(c)
      /\ \A i \in 1 .. Len(a) + 4 + Len(b) : q[i] = p[i]
      /\ \A i \in 1 .. Len(c) : q[Len(a) + 4 + Len(b) + i] = c[i]
  <2>1. /\ Len(q) = Len(p) + Len(c)
        /\ \A i \in 1 .. Len(p) : q[i] = p[i]
        /\ \A i \in 1 .. Len(c) : q[Len(p) + i] = c[i]
    BY <1>0, <1>c, <1>d
  <2>2. Len(p) = Len(a) + 4 + Len(b)
    BY <1>6
  <2> QED BY <2>1, <2>2, Zenon
<1>8. /\ u \in Seq(S) /\ Len(u) = Len(a) + 4 + Len(b) + Len(c) + Len(d)
      /\ \A i \in 1 .. Len(a) + 4 + Len(b) + Len(c) : u[i] = q[i]
      /\ \A i \in 1 .. Len(d) : u[Len(a) + 4 + Len(b) + Len(c) + i] = d[i]
  <2>1. /\ Len(u) = Len(q) + Len(d)
        /\ \A i \in 1 .. Len(q) : u[i] = q[i]
        /\ \A i \in 1 .. Len(d) : u[Len(q) + i] = d[i]
    BY <1>0, <1>d, <1>e
  <2>2. Len(q) = Len(a) + 4 + Len(b) + Len(c)
    BY <1>7
  <2> QED BY <1>e, <2>1, <2>2, Zenon
<1> DEFINE A == Len(a)
           B == Len(b)
           C == Len(c)
<1>19. A \in Nat /\ B \in Nat /\ C \in Nat
  BY <1>9
<1>10. \A i \in 1 .. A + 3 : u[i] = v[i]
  <2>1. \A i \in 1 .. A + 3 : /\ i \in 1 .. A + 3 + B /\ i \in 1 .. A + 4 + B
                              /\ i \in 1 .. A + 4 + B + C
    BY <1>19
  <2> QED BY <1>5, <1>6, <1>7, <1>8, <2>1
<1>11. \A i \in 1 .. A : i \in 1 .. A + 3
  BY <1>19
<1>12. A + 1 \in 1 .. A + 3 /\ A + 2 \in 1 .. A + 3 /\ A + 3 \in 1 .. A + 3
  BY <1>19
<1>13. \A i \in 1 .. B : A + 3 + i \in 1 .. A + 3 + B /\ A + 3 + i \in 1 .. A + 4 + B
                         /\ A + 3 + i \in 1 .. A + 4 + B + C
  BY <1>19
<1>14. A + 4 + B \in 1 .. A + 4 + B /\ A + 4 + B \in 1 .. A + 4 + B + C
  BY <1>19
<1>15. \A i \in 1 .. C : A + 4 + B + i \in 1 .. A + 4 + B + C
  BY <1>19
<1>16. \A i \in 1 .. B : u[A + 3 + i] = b[i]
  BY <1>5, <1>6, <1>7, <1>8, <1>13
<1>17. u[A + 4 + B] = x
  BY <1>6, <1>7, <1>8, <1>14
<1>18. \A i \in 1 .. C : u[A + 4 + B + i] = c[i]
  BY <1>7, <1>8, <1>15
<1>20. /\ u \in Seq(S) /\ Len(u) = A + 4 + B + C + Len(d)
       /\ \A i \in 1 .. A : u[i] = a[i]
       /\ u[A + 1] = x /\ u[A + 2] = y /\ u[A + 3] = y
       /\ \A i \in 1 .. B : u[A + 3 + i] = b[i]
       /\ u[A + 4 + B] = x
       /\ \A i \in 1 .. C : u[A + 4 + B + i] = c[i]
       /\ \A i \in 1 .. Len(d) : u[A + 4 + B + C + i] = d[i]
  BY <1>4, <1>8, <1>10, <1>11, <1>12, <1>16, <1>17, <1>18
<1>21. /\ HostAt(g) = A + 3 /\ PortAt(g) = A + 4 + B /\ PathAt(g) = A + 4 + B + C
  <2>1. \A k, h, m \in Nat : k + 4 + h = k + 3 + h + 1 /\ k + 4 + h + m = k + 3 + h + 1 + m
    OBVIOUS
  <2> QED BY <1>19, <2>1, Zenon DEF HostAt, PortAt, PathAt, a, b, c
<1> HIDE DEF A, B, C
<1>22. LaidOut(u, g)
  BY <1>20, <1>21, Zenon DEF LaidOut, x, y, a, b, c, d, A, B, C
<1> QED BY <1>3, <1>22, Zenon

(* The URLs HostPortFound is about, and what they consist of.                 *)
UrlRegular ==
  Urls!Only({"scheme", "host", "port", "path"}) /\ Urls!Separable(given)

LEMMA Regular ==
  ASSUME given \in Given, UrlRegular
  PROVE  /\ given.scheme \in Seq(UrlChars) /\ given.host \in Seq(UrlChars)
         /\ given.port \in Seq(UrlChars) /\ given.path \in Seq(UrlChars)
         /\ given.scheme # << >> /\ given.host # << >> /\ given.port # << >>
         /\ given.path # << >> /\ given.path[1] = "/"
         /\ LaidOut(Urls!url, given)
<1> DEFINE g == given
<1>1. \A p \in {"scheme", "user", "pass", "host", "port", "path", "query", "fragment"} :
        g[p] \in Seq(UrlChars)
  <2>1. ASSUME NEW s \in Seq(STRING) PROVE s \in Seq(UrlChars)
    BY DEF UrlChars
  <2> QED BY <2>1, UrlAssumption
<1>2. \A p \in Urls!Parts \cup {"port"} :
        g[p] # << >> <=> p \in {"scheme", "host", "port", "path"}
  BY Zenon DEF UrlRegular, Urls!Only
<1>3. /\ g.user = << >> /\ g.pass = << >> /\ g.query = << >> /\ g.fragment = << >>
      /\ g.scheme # << >> /\ g.host # << >> /\ g.port # << >> /\ g.path # << >>
  <2> HIDE DEF g
  <2> QED BY <1>2, SMT DEF Urls!Parts
<1>4. /\ g.scheme \in Seq(UrlChars) /\ g.host \in Seq(UrlChars)
      /\ g.port \in Seq(UrlChars) /\ g.path \in Seq(UrlChars)
  <2> HIDE DEF g
  <2> QED BY <1>1
<1>5. Urls!url = g.scheme \o <<":", "/", "/">> \o g.host \o <<":">> \o g.port \o g.path
  <2>1. << >> \o << >> = << >> /\ Urls!Pre(<<":">>, << >>) = << >>
    BY DEF Urls!Pre
  <2>2. Urls!Post(g.user \o Urls!Pre(<<":">>, g.pass), <<"@">>) = << >>
    BY <1>3, <2>1, Zenon DEF Urls!Post
  <2>3. /\ Urls!Post(g.scheme, <<":", "/", "/">>) = g.scheme \o <<":", "/", "/">>
        /\ Urls!Pre(<<":">>, g.port) = <<":">> \o g.port
        /\ Urls!Pre(<<"?">>, g.query) = << >> /\ Urls!Pre(<<"#">>, g.fragment) = << >>
    BY <1>3, Zenon DEF Urls!Post, Urls!Pre
  <2>4. Urls!url = g.scheme \o <<":", "/", "/">> \o << >> \o g.host \o (<<":">> \o g.port) \o g.path
                     \o << >> \o << >>
    BY <2>2, <2>3, Zenon DEF Urls!url, Urls!Format
  <2> DEFINE a == g.scheme
             b == g.host
             c == g.port
             d == g.path
             s == <<":", "/", "/">>
             x == <<":">>
  <2>5. /\ a \in Seq(UrlChars) /\ b \in Seq(UrlChars) /\ c \in Seq(UrlChars)
        /\ d \in Seq(UrlChars) /\ s \in Seq(UrlChars) /\ x \in Seq(UrlChars)
    BY <1>4 DEF UrlChars
  <2>6. Urls!url = a \o s \o << >> \o b \o (x \o c) \o d \o << >> \o << >>
    BY <2>4, Zenon
  <2> HIDE DEF a, b, c, d, s, x
  <2>7. ASSUME NEW v \in Seq(UrlChars) PROVE v \o << >> = v
    OBVIOUS
  <2>8. a \o s \in Seq(UrlChars) /\ a \o s \o b \in Seq(UrlChars)
    BY <2>5
  <2>9. (a \o s \o b) \o (x \o c) = a \o s \o b \o x \o c
    <3>1. ASSUME NEW m \in Seq(UrlChars) PROVE m \o (x \o c) = m \o x \o c
      BY <2>5
    <3> QED BY <2>8, <3>1
  <2>10. a \o s \o b \o x \o c \o d \in Seq(UrlChars)
    BY <2>5
  <2>11. (a \o s) \o << >> = a \o s
    BY <2>7, <2>8
  <2>12. Urls!url = a \o s \o b \o x \o c \o d \o << >> \o << >>
    BY <2>6, <2>9, <2>11, Zenon
  <2>13. Urls!url = a \o s \o b \o x \o c \o d
    BY <2>7, <2>10, <2>12, Zenon
  <2> QED BY <2>13 DEF a, b, c, d, s, x
<1>6. ":" \in UrlChars /\ "/" \in UrlChars
  BY DEF UrlChars
<1>7. LaidOut(Urls!url, g)
  <2> HIDE DEF g
  <2>1. LaidOut(g.scheme \o <<":", "/", "/">> \o g.host \o <<":">> \o g.port \o g.path, g)
    BY <1>4, <1>6, Layout, Zenon
  <2> QED BY <1>5, <2>1, Zenon
<1>8. g.path[1] = "/"
  BY <1>3, Zenon DEF UrlRegular, Urls!Separable
<1> QED BY <1>3, <1>4, <1>7, <1>8, Zenon

Piece(start, size) == [start |-> start, size |-> size]

(* How far url_fromStr is with such a URL.                                    *)
UrlProgress ==
  UrlRegular =>
    /\ out.error = "ok"
    /\ urlAt = "scheme" => rest = Urls!All
    /\ urlAt # "scheme" => out.scheme = Piece(0, Len(given.scheme))
    /\ urlAt \in {"user", "host"} =>
         rest = Piece(HostAt(given), Len(Urls!url) - HostAt(given))
    /\ urlAt \notin {"scheme", "user", "host"} =>
         /\ rest = Urls!Null
         /\ out.host = Piece(HostAt(given), Len(given.host))
         /\ out.port = given.port
         /\ out.path = Piece(PathAt(given), Len(given.path))

(* The lengths involved.                                                      *)
LEMMA RegularSizes ==
  ASSUME given \in Given, UrlRegular
  PROVE  \E k, h, q, t \in Nat \ {0} :
           /\ k = Len(given.scheme) /\ h = Len(given.host) /\ q = Len(given.port)
           /\ t = Len(given.path)
           /\ HostAt(given) = k + 3 /\ PortAt(given) = k + 4 + h /\ PathAt(given) = k + 4 + h + q
           /\ Len(Urls!url) = k + 4 + h + q + t
<1> DEFINE k == Len(given.scheme)
           h == Len(given.host)
           q == Len(given.port)
           t == Len(given.path)
<1>1. k \in Nat \ {0} /\ h \in Nat \ {0} /\ q \in Nat \ {0} /\ t \in Nat \ {0}
  <2>1. ASSUME NEW s \in Seq(UrlChars), s # << >> PROVE Len(s) \in Nat \ {0}
    BY <2>1
  <2> QED BY <2>1, Regular
<1>2. Len(Urls!url) = PathAt(given) + t
  BY Regular DEF LaidOut
<1>3. /\ HostAt(given) = k + 3 /\ PortAt(given) = k + 3 + h + 1
      /\ PathAt(given) = k + 3 + h + 1 + q
  BY DEF HostAt, PortAt, PathAt
<1> HIDE DEF k, h, q, t
<1>4. /\ k + 3 + h + 1 = k + 4 + h /\ k + 3 + h + 1 + q = k + 4 + h + q
  BY <1>1
<1> QED BY <1>1, <1>2, <1>3, <1>4, Zenon DEF k, h, q, t

(* Which characters are where.                                                *)
LEMMA RegularCharacters ==
  ASSUME given \in Given, UrlRegular
  PROVE  /\ \A i \in 1 .. Len(given.scheme) : Urls!url[i] # ":"
         /\ \A i \in HostAt(given) + 1 .. PathAt(given) :
              /\ i # PortAt(given) => Urls!url[i] # ":"
              /\ Urls!url[i] # "/"
         /\ \A i \in HostAt(given) + 1 .. Len(Urls!url) : Urls!url[i] # "@"
<1> DEFINE L == Len(Urls!url)
           u(i) == Urls!url[i]
           hostFrom == HostAt(given)
           portFrom == PortAt(given)
           pathFrom == PathAt(given)
<1>1. PICK k, h, q, t \in Nat \ {0} :
           /\ k = Len(given.scheme) /\ h = Len(given.host) /\ q = Len(given.port)
           /\ t = Len(given.path)
           /\ hostFrom = k + 3 /\ portFrom = k + 4 + h /\ pathFrom = k + 4 + h + q
           /\ L = k + 4 + h + q + t
  BY RegularSizes
<1>2. /\ \A i \in 1 .. k : u(i) = given.scheme[i]
      /\ \A i \in 1 .. h : u(hostFrom + i) = given.host[i]
      /\ u(portFrom) = ":"
      /\ \A i \in 1 .. q : u(portFrom + i) = given.port[i]
      /\ \A i \in 1 .. t : u(pathFrom + i) = given.path[i]
  BY <1>1, Regular, Zenon DEF LaidOut
<1>3. \A p \in {"scheme", "host", "port"} : \A c \in {":", "/", "@"} : Urls!Without(given[p], c)
  BY Zenon DEF UrlRegular, Urls!Separable
<1>4. Urls!Without(given.path, "@")
  BY Zenon DEF UrlRegular, Urls!Separable
<1>5. /\ DOMAIN given.scheme = 1 .. k /\ DOMAIN given.host = 1 .. h
      /\ DOMAIN given.port = 1 .. q /\ DOMAIN given.path = 1 .. t
  <2>1. \A s \in Seq(UrlChars) : DOMAIN s = 1 .. Len(s)
    OBVIOUS
  <2> QED BY <1>1, <2>1, Regular, Zenon
<1>6. /\ \A i \in 1 .. k : given.scheme[i] \notin {":", "/", "@"}
      /\ \A i \in 1 .. h : given.host[i] \notin {":", "/", "@"}
      /\ \A i \in 1 .. q : given.port[i] \notin {":", "/", "@"}
      /\ \A i \in 1 .. t : given.path[i] # "@"
  BY <1>3, <1>4, <1>5 DEF Urls!Without
<1> HIDE DEF u, hostFrom, portFrom, pathFrom, L
<1>12. /\ k \in Nat \ {0} /\ h \in Nat \ {0} /\ q \in Nat \ {0} /\ t \in Nat \ {0}
       /\ hostFrom = k + 3 /\ portFrom = k + 4 + h /\ pathFrom = k + 4 + h + q
       /\ L = k + 4 + h + q + t
  BY <1>1
<1>7. ASSUME NEW i \in hostFrom + 1 .. L
      PROVE  \/ i - hostFrom \in 1 .. h
             \/ i = portFrom
             \/ i - portFrom \in 1 .. q
             \/ i - pathFrom \in 1 .. t
  BY <1>12
<1>8. ASSUME NEW i \in Int
      PROVE  hostFrom + (i - hostFrom) = i /\ portFrom + (i - portFrom) = i /\ pathFrom + (i - pathFrom) = i
  BY <1>12
<1>9. ASSUME NEW i \in hostFrom + 1 .. L PROVE u(i) # "@"
  <2>1. i \in Int
    BY <1>12
  <2>2. CASE i - hostFrom \in 1 .. h
    BY <1>2, <1>6, <1>8, <2>1, <2>2
  <2>3. CASE i = portFrom
    BY <1>2, <2>3
  <2>4. CASE i - portFrom \in 1 .. q
    BY <1>2, <1>6, <1>8, <2>1, <2>4
  <2>5. CASE i - pathFrom \in 1 .. t
    BY <1>2, <1>6, <1>8, <2>1, <2>5
  <2> QED BY <1>7, <2>2, <2>3, <2>4, <2>5
<1>10. ASSUME NEW i \in hostFrom + 1 .. pathFrom PROVE (i # portFrom => u(i) # ":") /\ u(i) # "/"
  <2>1. i \in Int /\ i \in hostFrom + 1 .. L /\ i - pathFrom \notin 1 .. t
    BY <1>12
  <2>2. CASE i - hostFrom \in 1 .. h
    BY <1>2, <1>6, <1>8, <2>1, <2>2
  <2>3. CASE i = portFrom
    BY <1>2, <2>3
  <2>4. CASE i - portFrom \in 1 .. q
    BY <1>2, <1>6, <1>8, <2>1, <2>4
  <2> QED BY <1>7, <2>1, <2>2, <2>3, <2>4
<1>11. \A i \in 1 .. k : u(i) # ":"
  BY <1>2, <1>6
<1> QED BY <1>1, <1>9, <1>10, <1>11, Zenon DEF u, hostFrom, portFrom, pathFrom, L

--------------------------------------------------------------------------------
(* What a piece of a URL says, if each of its characters is known.            *)
LEMMA TextIs ==
  ASSUME given \in Given, NEW w \in Seq(UrlChars), NEW a \in Nat, a + Len(w) <= Len(Urls!url),
         \A j \in 1 .. Len(w) : Urls!url[a + j] = w[j]
  PROVE  Urls!Text(Piece(a, Len(w))) = w
<1>1. Urls!url \in Seq(UrlChars)
  BY UrlLength
<1>2. SubSeq(Urls!url, a + 1, a + Len(w)) = w
  <2> DEFINE u == Urls!url
  <2> HIDE DEF u
  <2> QED BY <1>1, CutOut DEF u
<1> QED BY <1>2 DEF Urls!Text, Piece

(* When a text begins with "//".                                              *)
LEMMA Prefixed ==
  ASSUME NEW s \in Seq(UrlChars)
  PROVE  Len(s) >= 2 /\ s[1] = "/" /\ s[2] = "/" => SubSeq(s, 1, Len(<<"/", "/">>)) = <<"/", "/">>
<1> DEFINE w == <<"/", "/">>
<1>1. w \in Seq(UrlChars) /\ Len(w) = 2 /\ w[1] = "/" /\ w[2] = "/"
  BY DEF UrlChars
<1> HIDE DEF w
<1>2. ASSUME Len(s) >= 2, s[1] = "/", s[2] = "/" PROVE SubSeq(s, 1, Len(w)) = w
  <2>1. \A j \in 1 .. 2 : s[0 + j] = w[j]
    <3>1. \A j \in 1 .. 2 : j = 1 \/ j = 2
      OBVIOUS
    <3> QED BY <1>1, <1>2, <3>1
  <2>2. SubSeq(s, 0 + 1, 0 + Len(w)) = w
    BY <1>1, <1>2, <2>1, CutOut
  <2> QED BY <1>1, <2>2
<1> QED BY <1>2 DEF w

(* The scheme ends at the first ":", and the host begins after the "//".      *)
LEMMA SchemeProgress ==
  ASSUME UrlBounds, UrlProgress, UrlRegular, Urls!ParseScheme
  PROVE  /\ out' = [out EXCEPT !.scheme = Piece(0, Len(given.scheme))]
         /\ rest' = Piece(HostAt(given), Len(Urls!url) - HostAt(given))
         /\ urlAt' = "user" /\ given' = given
<1> DEFINE L == Len(Urls!url)
           start == Urls!FindChar(rest, ":")
           sep   == Urls!From(rest, start + 1)
           o     == [out EXCEPT !.scheme = Urls!SubStr(rest, 0, start)]
           r     == Urls!From(sep, 2)
<1>1. given \in Given /\ urlAt = "scheme" /\ out.error = "ok" /\ rest = Piece(0, L)
  BY DEF UrlBounds, UrlProgress, Urls!ParseScheme, Urls!All, Piece
<1>2. L \in Nat /\ Width \in Nat /\ L < Width /\ rest \in Within(L) /\ Urls!url \in Seq(UrlChars)
  BY UrlLength DEF UrlBounds
<1>3. PICK k, h, q, t \in Nat \ {0} :
           /\ k = Len(given.scheme) /\ h = Len(given.host) /\ q = Len(given.port)
           /\ t = Len(given.path)
           /\ HostAt(given) = k + 3 /\ PortAt(given) = k + 4 + h /\ PathAt(given) = k + 4 + h + q
           /\ L = k + 4 + h + q + t
  BY <1>1, RegularSizes
<1>14. k \in Nat \ {0} /\ h \in Nat \ {0} /\ q \in Nat \ {0} /\ t \in Nat \ {0}
       /\ L = k + 4 + h + q + t
  BY <1>3
<1>4. k \in Nat \ {0} /\ L \in Nat /\ L > k + 4 /\ k \in 0 .. L - 1 /\ k + 1 \in Nat /\ k + 1 < L
      /\ 0 < L
  BY <1>14
<1>5. Urls!url[k + 1] = ":" /\ Urls!url[k + 2] = "/" /\ Urls!url[k + 3] = "/"
  BY <1>1, <1>3, Regular, Zenon DEF LaidOut
<1>6. start = k
  <2>1. \A i \in 0 .. k - 1 : Urls!url[rest.start + i + 1] # ":"
    <3>1. \A i \in 1 .. k : Urls!url[i] # ":"
      BY <1>1, <1>3, RegularCharacters, Zenon
    <3>2. rest.start = 0
      BY <1>1 DEF Piece
    <3>3. \A i \in 0 .. k - 1 : 0 + i + 1 \in 1 .. k
      BY <1>4
    <3> QED BY <3>1, <3>2, <3>3
  <2>2. Urls!url[rest.start + k + 1] = ":"
    <3>1. rest.start + k + 1 = k + 1
      BY <1>1, <1>4 DEF Piece
    <3> QED BY <1>5, <3>1
  <2>3. rest \in [start : Nat, size : Nat] /\ k \in 0 .. rest.size - 1
    BY <1>1, <1>2, <1>4 DEF Piece
  <2> QED BY <2>1, <2>2, <2>3, FindCharRange
<1> HIDE DEF L, start
<1>7. sep = Piece(k + 1, L - (k + 1))
  <2>1. rest.start = 0 /\ rest.size = L
    BY <1>1 DEF Piece
  <2>2. k + 1 < rest.size
    BY <1>4, <2>1
  <2>3. sep = [start |-> rest.start + (k + 1), size |-> rest.size - (k + 1)]
    BY <1>2, <1>4, <1>6, <2>2, FromWithin, Zenon
  <2> QED BY <1>4, <2>1, <2>3 DEF Piece
<1>8. Urls!SubStr(rest, 0, start) = Piece(0, k)
  <2>1. rest.start = 0 /\ rest.size = L
    BY <1>1 DEF Piece
  <2>2. /\ 0 \in Int /\ 0 >= -1 /\ k \in Int /\ k >= -L - 1 /\ 0 \in 0 .. rest.size - 1 /\ k >= 0
        /\ L - 0 >= k
    BY <1>2, <1>4, <2>1
  <2>3. Urls!SubStr(rest, 0, k) =
          [start |-> rest.start + 0, size |-> IF rest.size - 0 < k THEN rest.size - 0 ELSE k]
    BY <1>2, <2>2, SubStrWithin
  <2> QED BY <1>2, <1>4, <1>6, <2>1, <2>2, <2>3 DEF Piece
<1>9. r = Piece(k + 3, L - (k + 3))
  <2>1. sep \in Within(L) /\ sep.start = k + 1 /\ sep.size = L - (k + 1) /\ 2 \in Nat
    BY <1>2, <1>4, <1>7 DEF Within, Piece
  <2>2. CASE 2 < sep.size
    <3>1. r = [start |-> sep.start + 2, size |-> sep.size - 2]
      BY <1>2, <2>1, <2>2, FromWithin
    <3> QED BY <1>2, <1>4, <2>1, <3>1 DEF Piece
  <2>3. 2 < sep.size
    <3> HIDE DEF sep
    <3> QED BY <1>4, <2>1
  <2> QED BY <2>2, <2>3
<1>10. Urls!HasPrefix(sep, <<"/", "/">>)
  <2> DEFINE s == Urls!Text(sep)
  <2>1. s = SubSeq(Urls!url, (k + 1) + 1, (k + 1) + (L - (k + 1)))
    <3>1. sep.start = k + 1 /\ sep.size = L - (k + 1)
      BY <1>7 DEF Piece
    <3> QED BY <3>1, Zenon DEF Urls!Text
  <2>2. (k + 1) + 1 = k + 2 /\ (k + 1) + (L - (k + 1)) = L
    BY <1>2, <1>4
  <2>3. s = SubSeq(Urls!url, k + 2, L)
    BY <2>1, <2>2
  <2>4. s \in Seq(UrlChars) /\ Len(s) >= 2 /\ s[1] = "/" /\ s[2] = "/"
    <3> DEFINE u == Urls!url
    <3>1. u \in Seq(UrlChars) /\ Len(u) = L /\ u[k + 2] = "/" /\ u[k + 3] = "/"
      BY <1>2, <1>5 DEF L
    <3>2. s = SubSeq(u, k + 2, L)
      BY <2>3
    <3> HIDE DEF u, s
    <3>3. s \in Seq(UrlChars) /\ Len(s) = L - k - 1
      BY <1>2, <1>4, <3>1, <3>2
    <3>4. ASSUME NEW j \in {1, 2} PROVE s[j] = u[k + 1 + j]
      <4>1. j \in 1 .. L - (k + 2) + 1 /\ k + 2 + j - 1 = k + 1 + j
        <5>1. j = 1 \/ j = 2
          OBVIOUS
        <5>2. \A n, m \in Nat : n > m + 4 => /\ 1 \in 1 .. n - (m + 2) + 1 /\ m + 2 + 1 - 1 = m + 1 + 1
                                              /\ 2 \in 1 .. n - (m + 2) + 1 /\ m + 2 + 2 - 1 = m + 1 + 2
          OBVIOUS
        <5> QED BY <1>4, <5>1, <5>2
      <4>2. s[j] = u[k + 2 + j - 1]
        BY <1>2, <1>4, <3>1, <3>2, <4>1
      <4> QED BY <4>1, <4>2
    <3>5. k + 1 + 1 = k + 2 /\ k + 1 + 2 = k + 3 /\ L - k - 1 >= 2
      BY <1>2, <1>4
    <3> QED BY <3>1, <3>3, <3>4, <3>5
  <2> HIDE DEF s
  <2>5. SubSeq(s, 1, Len(<<"/", "/">>)) = <<"/", "/">>
    BY <2>4, Prefixed
  <2>6. sep.size >= Len(<<"/", "/">>)
    <3>1. sep.size = L - (k + 1)
      BY <1>7 DEF Piece
    <3> HIDE DEF sep
    <3> QED BY <1>2, <1>4, <3>1
  <2> QED BY <2>5, <2>6, Zenon DEF Urls!HasPrefix, s
<1>11. o.scheme = Piece(0, k) /\ o.error = "ok" /\ o = [out EXCEPT !.scheme = Piece(0, k)]
  <2>1. OutShape(out, L)
    BY DEF UrlBounds, L
  <2>2. DOMAIN out = OutKeys /\ "scheme" \in OutKeys
    BY <2>1 DEF OutShape, OutKeys, Urls!Parts
  <2> QED BY <1>1, <1>8, <2>2
<1>12. ~(start < 0) /\ o.scheme.size # 0
  BY <1>4, <1>6, <1>11 DEF Piece
<1>13. Urls!Give(o, r, "user")
  <2> HIDE DEF o, r, sep
  <2> QED BY <1>10, <1>12, Zenon DEF Urls!ParseScheme, start, o, sep, r
<1> QED BY <1>3, <1>9, <1>11, <1>13, Zenon DEF Urls!Give, L

(* There is no "@": there are no user and password.                           *)
LEMMA UserPassProgress ==
  ASSUME UrlBounds, UrlProgress, UrlRegular, Urls!ParseUserPass
  PROVE  UNCHANGED <<given, rest, out>> /\ urlAt' = "host"
<1> DEFINE L == Len(Urls!url)
           start == Urls!FindChar(rest, "@")
<1>1. /\ given \in Given /\ out.error = "ok"
      /\ rest = Piece(HostAt(given), L - HostAt(given))
  BY DEF UrlBounds, UrlProgress, Urls!ParseUserPass
<1>2. L \in Nat /\ rest \in Within(L)
  BY UrlLength DEF UrlBounds
<1>3. \A i \in HostAt(given) + 1 .. L : Urls!url[i] # "@"
  BY <1>1, RegularCharacters
<1>4. HostAt(given) \in Nat /\ rest.start = HostAt(given) /\ rest.size = L - HostAt(given)
      /\ rest \in [start : Nat, size : Nat]
  BY <1>1, <1>2 DEF Piece, Within
<1>5. start = -1
  <2>1. \A i \in 0 .. rest.size - 1 : Urls!url[rest.start + i + 1] # "@"
    <3>1. ASSUME NEW i \in 0 .. rest.size - 1 PROVE rest.start + i + 1 \in HostAt(given) + 1 .. L
      <4> HIDE DEF L
      <4> QED BY <1>2, <1>4
    <3> QED BY <1>3, <3>1
  <2> QED BY <1>4, <2>1, FindCharRange
<1>6. Urls!Give(out, rest, "host")
  BY <1>5 DEF Urls!ParseUserPass
<1> QED BY <1>1, <1>6, Zenon DEF Urls!Give

(* The first ":" ends the host, the first "/" ends the port.                  *)
LEMMA HostPortProgress ==
  ASSUME UrlBounds, UrlProgress, UrlRegular, Urls!ParseHostPort
  PROVE  /\ out' = [out EXCEPT !.port = given.port, !.host = Piece(HostAt(given), Len(given.host)),
                               !.path = Piece(PathAt(given), Len(given.path))]
         /\ rest' = Urls!Null /\ urlAt' = "query" /\ given' = given
<1> DEFINE L == Len(Urls!url)
           portsep == Urls!FindChar(rest, ":")
           pathsep == Urls!FindChar(rest, "/")
           hostlen == Urls!HostLen(portsep, pathsep)
           port == Urls!Port(portsep, pathsep)
           host == Urls!SubStr(rest, 0, hostlen)
           path_ == Urls!SubStr(rest, pathsep, rest.size)
           o == [out EXCEPT !.port = port, !.host = IF hostlen > 0 THEN host ELSE @]
           p == [o EXCEPT !.path = path_]
           r == Urls!From(rest, rest.size)
<1>1. /\ given \in Given /\ out.error = "ok"
      /\ rest = Piece(HostAt(given), L - HostAt(given))
  BY DEF UrlBounds, UrlProgress, Urls!ParseHostPort
<1>2. L \in Nat /\ Width \in Nat /\ L < Width /\ rest \in Within(L) /\ OutShape(out, L)
  BY UrlLength DEF UrlBounds
<1>3. PICK k, h, q, t \in Nat \ {0} :
           /\ k = Len(given.scheme) /\ h = Len(given.host) /\ q = Len(given.port)
           /\ t = Len(given.path)
           /\ HostAt(given) = k + 3 /\ PortAt(given) = k + 4 + h /\ PathAt(given) = k + 4 + h + q
           /\ L = k + 4 + h + q + t
  BY <1>1, RegularSizes
<1>4. k \in Nat \ {0} /\ h \in Nat \ {0} /\ q \in Nat \ {0} /\ t \in Nat \ {0}
       /\ L = k + 4 + h + q + t
  BY <1>3
<1>5. /\ rest.start = k + 3 /\ rest.size = 1 + h + q + t
      /\ rest \in [start : Nat, size : Nat]
  <2>1. rest.start = HostAt(given) /\ rest.size = L - HostAt(given)
    BY <1>1 DEF Piece
  <2>2. HostAt(given) = k + 3
    BY <1>3
  <2>3. \A a, b, c, d \in Nat : (a + 4 + b + c + d) - (a + 3) = 1 + b + c + d
    OBVIOUS
  <2>4. rest \in [start : Nat, size : Nat]
    BY <1>2 DEF Within
  <2> QED BY <1>4, <2>1, <2>2, <2>3, <2>4
<1>6. /\ \A i \in k + 4 .. k + 4 + h + q : /\ i # k + 4 + h => Urls!url[i] # ":"
                                           /\ Urls!url[i] # "/"
      /\ Urls!url[k + 4 + h] = ":" /\ Urls!url[k + 4 + h + q + 1] = "/"
  <2>1. HostAt(given) + 1 = k + 4
    <3>1. HostAt(given) = k + 3
      BY <1>3
    <3> QED BY <1>4, <3>1
  <2>2. \A i \in k + 4 .. k + 4 + h + q : /\ i # k + 4 + h => Urls!url[i] # ":"
                                          /\ Urls!url[i] # "/"
    BY <1>1, <1>3, <2>1, RegularCharacters, Zenon
  <2>3. Urls!url[PortAt(given)] = ":"
    BY <1>1, Regular DEF LaidOut
  <2>4. Urls!url[PathAt(given) + 1] = given.path[1] /\ given.path[1] = "/"
    <3>1. 1 \in 1 .. t
      BY <1>4
    <3> QED BY <1>1, <1>3, <3>1, Regular, Zenon DEF LaidOut
  <2> QED BY <1>3, <2>2, <2>3, <2>4, Zenon
<1> HIDE DEF L
<1>7. portsep = h
  <2>1. \A i \in 0 .. h - 1 : Urls!url[rest.start + i + 1] # ":"
    <3>1. ASSUME NEW i \in 0 .. h - 1
          PROVE  rest.start + i + 1 \in k + 4 .. k + 4 + h + q /\ rest.start + i + 1 # k + 4 + h
      BY <1>4, <1>5
    <3> QED BY <1>6, <3>1
  <2>2. rest.start + h + 1 = k + 4 + h /\ h \in 0 .. rest.size - 1
    BY <1>4, <1>5
  <2> QED BY <1>5, <1>6, <2>1, <2>2, FindCharRange
<1>8. pathsep = h + 1 + q
  <2>1. \A i \in 0 .. (h + 1 + q) - 1 : Urls!url[rest.start + i + 1] # "/"
    <3>1. ASSUME NEW i \in 0 .. (h + 1 + q) - 1
          PROVE  rest.start + i + 1 \in k + 4 .. k + 4 + h + q
      BY <1>4, <1>5
    <3> QED BY <1>6, <3>1
  <2>2. /\ rest.start + (h + 1 + q) + 1 = k + 4 + h + q + 1 /\ h + 1 + q \in 0 .. rest.size - 1
    BY <1>4, <1>5
  <2> QED BY <1>5, <1>6, <2>1, <2>2, FindCharRange
<1> HIDE DEF portsep, pathsep
<1>9. hostlen = h
  BY <1>4, <1>7, <1>8 DEF Urls!HostLen
<1> HIDE DEF hostlen
<1>16. ASSUME NEW a \in Nat, NEW b \in Nat, a < rest.size
       PROVE  Urls!SubStr(rest, a, b) =
                [start |-> rest.start + a, size |-> IF rest.size - a < b THEN rest.size - a ELSE b]
  <2>1. a \in Int /\ a >= -1 /\ b \in Int /\ b >= -L - 1 /\ a \in 0 .. rest.size - 1 /\ b >= 0
    BY <1>2, <1>5, <1>16
  <2>2. L \in Nat /\ Width \in Nat /\ L < Width /\ rest \in Within(L)
    BY <1>2
  <2> QED BY <2>1, <2>2, SubStrWithin
<1>10. host = Piece(k + 3, h)
  <2>1. /\ 0 \in Int /\ 0 >= -1 /\ h \in Int /\ h >= -L - 1 /\ 0 \in 0 .. rest.size - 1 /\ h >= 0
    BY <1>2, <1>4, <1>5
  <2>2. host = [start |-> rest.start + 0, size |-> IF rest.size - 0 < h THEN rest.size - 0 ELSE h]
    BY <1>2, <1>9, <2>1, SubStrWithin
  <2>3. ~(rest.size - 0 < h) /\ rest.start + 0 = k + 3
    BY <1>4, <1>5
  <2> QED BY <2>2, <2>3 DEF Piece
<1>11. path_ = Piece(k + 4 + h + q, t)
  <2>1. pathsep \in Nat /\ rest.size \in Nat /\ pathsep < rest.size
    BY <1>4, <1>5, <1>8
  <2>2. path_ = [start |-> rest.start + pathsep,
                 size |-> IF rest.size - pathsep < rest.size THEN rest.size - pathsep ELSE rest.size]
    BY <1>16, <2>1, Zenon
  <2>3. rest.size - pathsep < rest.size /\ rest.size - pathsep = t
        /\ rest.start + pathsep = k + 4 + h + q
    BY <1>4, <1>5, <1>8
  <2> QED BY <2>2, <2>3 DEF Piece
<1>12. port = given.port
  <2> DEFINE s == Urls!SubStr(rest, portsep + 1, pathsep - portsep - 1)
  <2>1. /\ portsep + 1 \in Nat /\ pathsep - portsep - 1 \in Nat
        /\ portsep + 1 < rest.size /\ pathsep - portsep - 1 = q
        /\ rest.start + (portsep + 1) = k + 4 + h /\ ~(rest.size - (portsep + 1) < q)
    BY <1>2, <1>4, <1>5, <1>7, <1>8
  <2>2. s = [start |-> rest.start + (portsep + 1),
             size |-> IF rest.size - (portsep + 1) < pathsep - portsep - 1
                      THEN rest.size - (portsep + 1) ELSE pathsep - portsep - 1]
    BY <1>16, <2>1, Zenon
  <2>3. s = Piece(k + 4 + h, q)
    BY <2>1, <2>2 DEF Piece
  <2>4. port = Urls!Text(s)
    BY <1>4, <1>7, <1>8 DEF Urls!Port
  <2>5. Urls!Text(Piece(PortAt(given), Len(given.port))) = given.port
    <3>1. \A j \in 1 .. Len(given.port) : Urls!url[PortAt(given) + j] = given.port[j]
      BY <1>1, Regular, Zenon DEF LaidOut
    <3>2. PortAt(given) \in Nat /\ PortAt(given) + Len(given.port) <= Len(Urls!url)
      <4>1. k + 4 + h \in Nat /\ k + 4 + h + q <= k + 4 + h + q + t
        BY <1>4
      <4>2. /\ PortAt(given) = k + 4 + h /\ Len(given.port) = q
            /\ Len(Urls!url) = k + 4 + h + q + t
        BY <1>3 DEF L
      <4> QED BY <4>1, <4>2, Zenon
    <3>3. given.port \in Seq(UrlChars)
      BY <1>1, Regular
    <3> QED BY <1>1, <3>1, <3>2, <3>3, TextIs
  <2> QED BY <1>3, <2>3, <2>4, <2>5, Zenon
<1>13. r = Urls!Null
  BY <1>2, <1>5, FromWithin
<1> HIDE DEF host, port, path_, r
<1>14. /\ p = [out EXCEPT !.port = given.port, !.host = Piece(HostAt(given), Len(given.host)),
                        !.path = Piece(PathAt(given), Len(given.path))]
       /\ p.error = "ok" /\ o.host.size # 0
  <2>1. hostlen > 0
    BY <1>4, <1>9
  <2>2. DOMAIN out = OutKeys /\ {"port", "host", "path", "error"} \subseteq OutKeys
    BY <1>2 DEF OutShape, OutKeys, Urls!Parts
  <2>3. /\ host = Piece(HostAt(given), Len(given.host)) /\ path_ = Piece(PathAt(given), Len(given.path))
    BY <1>3, <1>10, <1>11
  <2>4. p.error = "ok"
    BY <1>1, <2>2
  <2>5. o.host = host
    BY <2>1, <2>2
  <2>6. host.size # 0
    BY <1>4, <1>10 DEF Piece
  <2> QED BY <1>12, <2>1, <2>3, <2>4, <2>5, <2>6
<1>15. Urls!Give(p, r, "query")
  <2>1. ~(pathsep < 0)
    BY <1>4, <1>8
  <2>2. ~(hostlen > 0 /\ o.host.size = 0)
    BY <1>14
  <2> HIDE DEF o, p
  <2> QED BY <2>1, <2>2, Zenon
        DEF Urls!ParseHostPort, portsep, pathsep, hostlen, port, host, path_, o, p, r
<1> QED BY <1>13, <1>14, <1>15, Zenon DEF Urls!Give

(* Nothing is left for a query and a fragment.                                *)
LEMMA QueryProgress ==
  ASSUME UrlBounds, UrlProgress, UrlRegular, Urls!ParseQuery \/ Urls!ParseFragment
  PROVE  UNCHANGED <<given, rest, out>> /\ urlAt' \in {"fragment", "done"}
<1>1. rest = Urls!Null /\ out.error = "ok"
  BY DEF UrlProgress, Urls!ParseQuery, Urls!ParseFragment
<1>2. ~(rest.size >= 1)
  BY <1>1 DEF Urls!Null
<1>3. ~Urls!HasPrefix(rest, <<"?">>) /\ ~Urls!HasPrefix(rest, <<"#">>)
  <2>1. Len(<<"?">>) = 1 /\ Len(<<"#">>) = 1
    OBVIOUS
  <2> QED BY <1>2, <2>1, Zenon DEF Urls!HasPrefix
<1>4. Urls!Give(out, rest, "fragment") \/ Urls!Give(out, rest, "done")
  BY <1>3, Zenon DEF Urls!ParseQuery, Urls!ParseFragment
<1> QED BY <1>1, <1>4 DEF Urls!Give

--------------------------------------------------------------------------------
(* What holds between any two of the five functions.                          *)
UrlInv == part = "url" => UrlBounds /\ UrlProgress

(* It holds before the first function.                                        *)
LEMMA UrlInitial ==
  ASSUME Urls!Init
  PROVE  UrlBounds /\ UrlProgress
<1> DEFINE L == Len(Urls!url)
           null == [start |-> 0, size |-> 0]
<1>1. given \in Given /\ urlAt = "scheme" /\ rest = Urls!All
      /\ out = [error |-> "ok", scheme |-> null, user |-> null, pass |-> null, host |-> null,
                port |-> << >>, path |-> null, query |-> null, fragment |-> null]
  BY DEF Urls!Init, Urls!Null
<1>2. L \in Nat
  BY <1>1, UrlLength
<1>3. rest \in Within(L) /\ null \in Within(L)
  BY <1>1, <1>2 DEF Urls!All, Within
<1>4. OutShape(out, L)
  <2> HIDE DEF null, L
  <2> QED BY <1>1, <1>3 DEF OutShape, OutKeys, Urls!Parts
<1>5. UrlBounds
  BY <1>1, <1>3, <1>4 DEF UrlBounds
<1>6. out.error = "ok"
  <2> HIDE DEF null
  <2> QED BY <1>1
<1>7. UrlProgress
  BY <1>1, <1>6 DEF UrlProgress
<1> QED BY <1>5, <1>7

(* Every function keeps it.                                                   *)
LEMMA UrlStep ==
  ASSUME UrlBounds, UrlProgress, Urls!Next
  PROVE  UrlBounds' /\ UrlProgress'
<1>1. given' = given
  BY DEF Urls!Next, Urls!ParseScheme, Urls!ParseUserPass, Urls!ParseHostPort, Urls!ParseQuery,
         Urls!ParseFragment, Urls!Give
<1>2. UrlRegular' <=> UrlRegular
  BY <1>1 DEF UrlRegular, Urls!Only
<1>3. UrlBounds'
  BY SchemeBounds, UserPassBounds, HostPortBounds, QueryBounds, Zenon DEF Urls!Next
<1>4. Urls!url' = Urls!url
  BY <1>1 DEF Urls!url
<1>5. ASSUME UrlRegular PROVE UrlProgress'
  <2> DEFINE hostAt == HostAt(given)
             scheme == Piece(0, Len(given.scheme))
             host   == Piece(hostAt, Len(given.host))
             path_  == Piece(PathAt(given), Len(given.path))
  <2>1. DOMAIN out = OutKeys /\ {"scheme", "port", "host", "path", "error"} \subseteq OutKeys
    BY DEF UrlBounds, OutShape, OutKeys, Urls!Parts
  <2>2. out.error = "ok"
    BY <1>5 DEF UrlProgress
  <2> SUFFICES
        /\ out'.error = "ok"
        /\ urlAt' # "scheme" /\ out'.scheme = scheme
        /\ urlAt' \in {"user", "host"} => rest' = Piece(hostAt, Len(Urls!url) - hostAt)
        /\ urlAt' \notin {"scheme", "user", "host"} =>
             rest' = Urls!Null /\ out'.host = host /\ out'.port = given.port /\ out'.path = path_
    BY <1>1, <1>4, Zenon DEF UrlProgress
  <2>3. CASE Urls!ParseScheme
    <3>1. /\ out' = [out EXCEPT !.scheme = scheme]
          /\ rest' = Piece(hostAt, Len(Urls!url) - hostAt) /\ urlAt' = "user"
      BY <1>5, <2>3, SchemeProgress, Zenon
    <3> HIDE DEF scheme, host, path_, hostAt
    <3>2. out'.error = "ok" /\ out'.scheme = scheme
      BY <2>1, <2>2, <3>1
    <3> QED BY <3>1, <3>2
  <2>4. CASE Urls!ParseUserPass
    <3>1. UNCHANGED <<given, rest, out>> /\ urlAt' = "host" /\ urlAt = "user"
      BY <1>5, <2>4, UserPassProgress, Zenon DEF Urls!ParseUserPass
    <3> HIDE DEF scheme, host, path_, hostAt
    <3> QED BY <1>5, <3>1 DEF UrlProgress, scheme, hostAt
  <2>5. CASE Urls!ParseHostPort
    <3>1. /\ out' = [out EXCEPT !.port = given.port, !.host = host, !.path = path_]
          /\ rest' = Urls!Null /\ urlAt' = "query" /\ urlAt = "host"
      BY <1>5, <2>5, HostPortProgress, Zenon DEF Urls!ParseHostPort
    <3>2. out.scheme = scheme
      BY <1>5, <3>1 DEF UrlProgress
    <3> HIDE DEF scheme, host, path_, hostAt
    <3>3. /\ out'.error = "ok" /\ out'.scheme = scheme /\ out'.host = host
          /\ out'.port = given.port /\ out'.path = path_
      BY <2>1, <2>2, <3>1, <3>2
    <3> QED BY <3>1, <3>3
  <2>6. CASE Urls!ParseQuery \/ Urls!ParseFragment
    <3>1. UNCHANGED <<given, rest, out>> /\ urlAt' \in {"fragment", "done"}
      BY <1>5, <2>6, QueryProgress, Zenon
    <3>2. urlAt \in {"query", "fragment"}
      BY <2>6 DEF Urls!ParseQuery, Urls!ParseFragment
    <3>3. /\ out.scheme = scheme /\ rest = Urls!Null /\ out.host = host
          /\ out.port = given.port /\ out.path = path_
      BY <1>5, <3>2 DEF UrlProgress
    <3> HIDE DEF scheme, host, path_, hostAt
    <3> QED BY <2>2, <3>1, <3>3
  <2> QED BY <2>3, <2>4, <2>5, <2>6, Zenon DEF Urls!Next
<1>6. UrlProgress'
  BY <1>2, <1>5 DEF UrlProgress
<1> QED BY <1>3, <1>6

(* So does a step of the library, which leaves the part in use as it is.      *)
libraryVars == <<part, pageVars, requestVars, argsVars, urlVars, pathVars, vars>>

LEMMA UrlInductive == UrlInv /\ [LibraryNext]_libraryVars => UrlInv'
<1> SUFFICES ASSUME UrlInv, part' = "url",
                    [LibraryNext]_libraryVars
             PROVE  UrlBounds' /\ UrlProgress'
  BY DEF UrlInv
<1>1. part = "url" /\ (Urls!Next \/ UNCHANGED urlVars)
  BY DEF LibraryNext, libraryVars
<1>2. UrlBounds /\ UrlProgress
  BY <1>1 DEF UrlInv
<1>3. CASE UNCHANGED urlVars
  <2>1. UNCHANGED <<urlAt, given, rest, out>>
    BY <1>3 DEF urlVars
  <2>2. Urls!url' = Urls!url /\ (UrlRegular' <=> UrlRegular)
    BY <2>1 DEF Urls!url, UrlRegular, Urls!Only
  <2>3. UrlBounds'
    BY <1>2, <2>1, <2>2 DEF UrlBounds, OutShape
  <2>4. UrlProgress'
    BY <1>2, <2>1, <2>2, Zenon DEF UrlProgress, Urls!All
  <2> QED BY <2>3, <2>4
<1> QED BY <1>1, <1>2, <1>3, UrlStep

(* At the end the parts say what was given.                                   *)
LEMMA UrlParts ==
  ASSUME UrlBounds, UrlProgress
  PROVE  Urls!InBounds /\ Urls!HostPortFound
<1> DEFINE L == Len(Urls!url)
<1>1. given \in Given /\ OutShape(out, L) /\ rest \in Within(L) /\ L \in Nat
  BY UrlLength DEF UrlBounds
<1>2. Urls!InBounds
  <2>1. \A s \in Within(L) : s.start \in 0 .. L /\ s.size \in 0 .. L - s.start /\ s.start + s.size <= L
    <3> HIDE DEF L
    <3> QED BY <1>1 DEF Within
  <2>2. \A p \in Urls!Parts : out[p] \in Within(L)
    BY <1>1, Zenon DEF OutShape
  <2> QED BY <1>1, <2>1, <2>2, Zenon DEF Urls!InBounds
<1>3. Urls!HostPortFound
  <2> SUFFICES ASSUME urlAt = "done", UrlRegular
               PROVE  Urls!PartsAre({"scheme", "host", "port", "path"})
    BY Zenon DEF Urls!HostPortFound, UrlRegular
  <2>1. /\ out.error = "ok" /\ out.scheme = Piece(0, Len(given.scheme))
        /\ out.host = Piece(HostAt(given), Len(given.host)) /\ out.port = given.port
        /\ out.path = Piece(PathAt(given), Len(given.path))
    BY DEF UrlProgress
  <2>2. PICK k, h, q, t \in Nat \ {0} :
          /\ k = Len(given.scheme) /\ h = Len(given.host) /\ q = Len(given.port)
          /\ t = Len(given.path)
          /\ HostAt(given) = k + 3 /\ PortAt(given) = k + 4 + h /\ PathAt(given) = k + 4 + h + q
          /\ L = k + 4 + h + q + t
    BY <1>1, RegularSizes
  <2>3. /\ 0 \in Nat /\ 0 + k <= L
        /\ k + 3 \in Nat /\ k + 3 + h <= L
        /\ k + 4 + h + q \in Nat /\ k + 4 + h + q + t <= L
    <3>1. k \in Nat /\ h \in Nat /\ q \in Nat /\ t \in Nat /\ L = k + 4 + h + q + t
      BY <2>2
    <3> HIDE DEF L
    <3> QED BY <3>1
  <2>4. /\ given.scheme \in Seq(UrlChars) /\ given.host \in Seq(UrlChars)
        /\ given.path \in Seq(UrlChars)
        /\ \A i \in 1 .. k : Urls!url[i] = given.scheme[i]
        /\ \A i \in 1 .. h : Urls!url[k + 3 + i] = given.host[i]
        /\ \A i \in 1 .. t : Urls!url[k + 4 + h + q + i] = given.path[i]
    BY <1>1, <2>2, Regular, Zenon DEF LaidOut
  <2>5. Urls!Found("scheme") = given.scheme
    <3>1. \A i \in 1 .. k : 0 + i = i
      OBVIOUS
    <3>2. \A i \in 1 .. k : Urls!url[0 + i] = given.scheme[i]
      BY <2>4, <3>1, Zenon
    <3>3. Urls!Text(Piece(0, Len(given.scheme))) = given.scheme
      BY <1>1, <2>2, <2>3, <2>4, <3>2, TextIs, Zenon
    <3> QED BY <2>1, <3>3, Zenon DEF Urls!Found
  <2>6. Urls!Found("host") = given.host
    <3>1. Urls!Text(Piece(k + 3, Len(given.host))) = given.host
      BY <1>1, <2>2, <2>3, <2>4, TextIs, Zenon
    <3> QED BY <2>1, <2>2, <3>1, Zenon DEF Urls!Found
  <2>7. Urls!Found("path") = given.path
    <3>1. Urls!Text(Piece(k + 4 + h + q, Len(given.path))) = given.path
      BY <1>1, <2>2, <2>3, <2>4, TextIs, Zenon
    <3> QED BY <2>1, <2>2, <3>1, Zenon DEF Urls!Found
  <2> QED BY <2>1, <2>5, <2>6, <2>7, SMT DEF Urls!PartsAre
<1> QED BY <1>2, <1>3

(* Whatever URL url_fromStr is given, the parts lie within it, and for one    *)
(* that has a port and a path, and no user, query or fragment, they are the   *)
(* ones it was put together from.                                            *)
THEOREM UrlSound == LibrarySpec => []UrlTakenApart
<1>1. LibraryInit => UrlInv
  BY UrlInitial, Zenon DEF LibraryInit, UrlInv
<1>2. UrlInv => UrlTakenApart
  BY UrlParts, Zenon DEF UrlInv, UrlTakenApart
<1> QED BY <1>1, <1>2, UrlInductive, PTL DEF LibrarySpec, libraryVars

--------------------------------------------------------------------------------
(* Arguments: arg_nextOpt skips, takes along values, and stops at the next    *)
(* argument that names an option; what it has reported and marked is at all   *)
(* times what the arguments it has passed say.                               *)

(* What they consist of.                                                      *)
ArgChars == STRING \cup {"-"}
Texts == Seq(ArgChars)

(* An argument that names an option begins with "-".                          *)
LEMMA NamedHasDash ==
  ASSUME NEW arg, NEW o, Arguments!Names(arg, o)
  PROVE  Arguments!IsDashed(arg)
BY Zenon DEF Arguments!Names, Arguments!IsOption

(* The options are numbered from 1, and an argument that names one has a      *)
(* first such option.                                                         *)
LEMMA FirstOption ==
  ASSUME NEW i, Arguments!IsNamed(i)
  PROVE  Arguments!OptionAt(i) \in Arguments!Numbers
<1> DEFINE S == {o \in Arguments!Numbers : Arguments!Names(args[i], o)}
<1>1. S \in SUBSET Nat /\ S # {} /\ Arguments!Numbers = 1 .. Len(Options) /\ Len(Options) \in Nat
  <2>1. Arguments!Numbers = 1 .. Len(Options) /\ Len(Options) \in Nat
    BY ArgumentAssumption DEF Arguments!Numbers
  <2>2. S # {}
    BY Zenon DEF Arguments!IsNamed
  <2> QED BY <2>1, <2>2
<1>2. PICK o \in S : \A p \in S : o <= p
  <2> HIDE DEF S
  <2> QED BY <1>1, LeastElement
<1>3. /\ o \in Arguments!Numbers /\ Arguments!Names(args[i], o)
      /\ \A p \in 1 .. o - 1 : ~Arguments!Names(args[i], p)
  <2>1. o \in Arguments!Numbers /\ Arguments!Names(args[i], o)
    BY <1>2
  <2>2. \A p \in 1 .. o - 1 : p \in Arguments!Numbers /\ ~(o <= p)
    BY <1>1, <2>1
  <2> QED BY <1>2, <2>1, <2>2
<1> QED BY <1>3, Zenon DEF Arguments!OptionAt

--------------------------------------------------------------------------------
(* A command line, and how far it is read.                                    *)
ArgsTyped == args \in Seq(Texts) /\ nextIdx \in 1 .. Len(args) + 1

(* The search has found argument i.                                           *)
Hit(s, i) ==
  /\ i \in nextIdx .. Len(args) /\ Arguments!IsNamed(i)
  /\ s.found = {Arguments!OptionAt(i)} /\ s.value = Arguments!ValueAt(i)
  /\ s.next \in i + 1 .. Len(args) + 1
  /\ \A j \in nextIdx .. s.next - 1 : j # i => ~Arguments!IsNamed(j)

(* The variables of the loop.                                                 *)
Loops == [next : Nat, found : SUBSET Arguments!Numbers, value : Texts]

(* It has found nothing in n turns.                                           *)
Missed(s, n) ==
  /\ s.found = {} /\ s.next \in nextIdx .. Len(args) + 1
  /\ s.next >= nextIdx + n \/ s.next = Len(args) + 1
  /\ \A j \in nextIdx .. s.next - 1 : ~Arguments!IsNamed(j)

(* What the loop may have come to after n turns.                              *)
Reached(n) == {s \in Loops : Missed(s, n) \/ \E i \in Nat : Hit(s, i)}

(* A turn of it.                                                             *)
LEMMA TurnReached ==
  ASSUME ArgsTyped, NEW n \in 1 .. Len(args), NEW s \in Reached(n - 1)
  PROVE  Arguments!Turn(s) \in Reached(n)
<1> DEFINE N == Len(args)
           i == s.next
           t == Arguments!Turn(s)
           taken == Arguments!IsValue(i + 1)
           value == IF taken THEN args[i + 1] ELSE << >>
           next  == IF taken THEN i + 2 ELSE i + 1
<1>1. s \in Loops /\ N \in Nat /\ nextIdx \in 1 .. N + 1
  BY DEF Reached, ArgsTyped
<1>2. i \in Nat
  BY <1>1 DEF Loops
<1>3. CASE s.found # {}
  <2>1. t = s
    BY <1>3 DEF Arguments!Turn
  <2> QED BY <1>3, <2>1 DEF Reached, Missed
<1>4. CASE s.found = {}
  <2>1. ASSUME NEW j, Hit(s, j) PROVE FALSE
    BY <1>4, <2>1 DEF Hit
  <2>2. /\ i \in nextIdx .. N + 1
        /\ i >= nextIdx + (n - 1) \/ i = N + 1
        /\ \A j \in nextIdx .. i - 1 : ~Arguments!IsNamed(j)
    BY <2>1 DEF Reached, Missed
  <2>3. CASE i > N
    <3>1. t = s
      BY <2>3 DEF Arguments!Turn
    <3>2. i = N + 1
      BY <1>1, <2>2, <2>3
    <3> QED BY <1>1, <1>4, <2>2, <3>1, <3>2 DEF Reached, Missed
  <2>4. CASE ~(i > N)
    <3>1. i \in nextIdx .. N /\ i >= nextIdx + (n - 1) /\ i \in 1 .. N
      BY <1>1, <2>2, <2>4
    <3>2. args[i] \in Texts
      BY <3>1 DEF ArgsTyped
    <3>3. taken => i + 1 <= N /\ args[i + 1] \in Texts /\ ~Arguments!IsNamed(i + 1)
      <4> SUFFICES ASSUME taken PROVE i + 1 <= N /\ args[i + 1] \in Texts /\ ~Arguments!IsNamed(i + 1)
        OBVIOUS
      <4>1. i + 1 <= N /\ ~Arguments!IsDashed(args[i + 1])
        BY DEF Arguments!IsValue
      <4>2. args[i + 1] \in Texts
        BY <3>1, <4>1 DEF ArgsTyped
      <4> QED BY <4>1, <4>2, NamedHasDash, Zenon DEF Arguments!IsNamed
    <3>4. value \in Texts /\ next \in i + 1 .. N + 1 /\ next \in Nat
      BY <1>1, <3>1, <3>3 DEF Texts
    <3>5. \A j \in nextIdx .. next - 1 : j \in nextIdx .. i - 1 \/ j = i \/ (taken /\ j = i + 1)
      BY <1>1, <3>1
    <3>6. value = Arguments!ValueAt(i)
      BY <1>1, <3>1 DEF Arguments!ValueAt, Arguments!IsValue
    <3> HIDE DEF value, next, taken
    <3>7. CASE ~Arguments!IsOption(args[i])
      <4>1. t = [s EXCEPT !.next = i + 1]
        BY <1>4, <2>4, <3>7, Zenon DEF Arguments!Turn
      <4>2. t \in Loops /\ t.next = i + 1 /\ t.found = {}
        BY <1>1, <1>2, <1>4, <4>1 DEF Loops
      <4>3. ~Arguments!IsNamed(i)
        BY <3>7, Zenon DEF Arguments!IsNamed, Arguments!Names
      <4>4. i + 1 \in nextIdx .. N + 1 /\ i + 1 >= nextIdx + n
        BY <1>1, <3>1
      <4>5. \A j \in nextIdx .. (i + 1) - 1 : j \in nextIdx .. i - 1 \/ j = i
        BY <1>1, <3>1
      <4>6. /\ t.next \in nextIdx .. Len(args) + 1 /\ t.next >= nextIdx + n
            /\ \A j \in nextIdx .. t.next - 1 : ~Arguments!IsNamed(j)
        BY <2>2, <4>2, <4>3, <4>4, <4>5
      <4> HIDE DEF t, i
      <4>8. Missed(t, n)
        BY <4>2, <4>6 DEF Missed
      <4> QED BY <4>2, <4>8, Zenon DEF Reached, t
    <3>8. CASE Arguments!IsOption(args[i]) /\ ~Arguments!IsNamed(i)
      <4>1. t = [s EXCEPT !.next = next]
        BY <1>4, <2>4, <3>8, Zenon DEF Arguments!Turn, next, taken
      <4>2. t \in Loops /\ t.next = next /\ t.found = {}
        BY <1>1, <1>4, <3>4, <4>1 DEF Loops
      <4>3. \A j \in nextIdx .. next - 1 : ~Arguments!IsNamed(j)
        BY <2>2, <3>3, <3>5, <3>8
      <4>4. next \in nextIdx .. N + 1 /\ next >= nextIdx + n
        BY <1>1, <3>1, <3>4
      <4>5. /\ t.next \in nextIdx .. Len(args) + 1 /\ t.next >= nextIdx + n
            /\ \A j \in nextIdx .. t.next - 1 : ~Arguments!IsNamed(j)
        BY <4>2, <4>3, <4>4
      <4> HIDE DEF t, i
      <4>8. Missed(t, n)
        BY <4>2, <4>5 DEF Missed
      <4> QED BY <4>2, <4>8, Zenon DEF Reached, t
    <3>9. CASE Arguments!IsOption(args[i]) /\ Arguments!IsNamed(i)
      <4>1. t = [next |-> next, found |-> {Arguments!OptionAt(i)}, value |-> value]
        BY <1>4, <2>4, <3>9, Zenon DEF Arguments!Turn, next, taken, value
      <4>2. t \in Loops
        BY <3>4, <3>9, <4>1, FirstOption DEF Loops
      <4>3. \A j \in nextIdx .. next - 1 : j # i => ~Arguments!IsNamed(j)
        BY <2>2, <3>3, <3>5
      <4>4. Hit(t, i)
        BY <3>1, <3>4, <3>6, <3>9, <4>1, <4>3 DEF Hit
      <4> QED BY <1>2, <4>2, <4>4 DEF Reached
    <3> QED BY <3>7, <3>8, <3>9
  <2> QED BY <2>3, <2>4
<1> QED BY <1>3, <1>4

(* The search of arg_nextOpt, by induction over its turns.                    *)
LEMMA SearchReached ==
  ASSUME ArgsTyped
  PROVE  Arguments!Search \in Reached(Len(args))
<1> DEFINE b == Len(args)
           x == [next |-> nextIdx, found |-> {}, value |-> << >>]
           T == [n \in 0 .. b |-> Reached(n)]
           step == [n \in 1 .. b |-> [t \in Loops |-> Arguments!Turn(t)]]
           Shape(f) == f = [n \in 0 .. b |-> IF n = 0 THEN x ELSE Arguments!Turn(f[n - 1])]
<1>1. b \in Nat
  BY DEF ArgsTyped
<1>2. ASSUME NEW n \in 1 .. b, NEW t \in Reached(n - 1)
      PROVE  t \in Loops /\ Arguments!Turn(t) \in Reached(n)
  BY TurnReached DEF Reached
<1>3. x \in Reached(0)
  <2>1. x \in Loops /\ x.next = nextIdx /\ x.found = {}
    BY <1>1 DEF Loops, ArgsTyped, Texts
  <2>2. nextIdx \in nextIdx .. Len(args) + 1 /\ nextIdx >= nextIdx + 0
        /\ \A j \in nextIdx .. nextIdx - 1 : FALSE
    BY <1>1 DEF ArgsTyped
  <2> HIDE DEF x
  <2> QED BY <2>1, <2>2 DEF Reached, Missed
<1>4. PICK h : Computed(h, x, step, T, Loops, 0, b)
  <2>1. \A n \in 0 .. b : T[n] \subseteq Loops
    BY DEF Reached
  <2>2. \A n \in 1 .. b : \A t \in T[n - 1] : step[n][t] \in T[n]
    <3> SUFFICES ASSUME NEW n \in 1 .. b, NEW t \in T[n - 1] PROVE step[n][t] \in T[n]
      OBVIOUS
    <3>1. n \in 0 .. b /\ n - 1 \in 0 .. b
      BY <1>1
    <3>2. t \in Reached(n - 1)
      BY <3>1
    <3> QED BY <1>2, <3>1, <3>2
  <2>3. x \in T[0] /\ 0 \in Int /\ b \in Int /\ 0 <= b /\ 0 + 1 = 1
    BY <1>1, <1>3
  <2> HIDE DEF b, x, T, step
  <2>4. Leads(step, T, Loops, 0, b)
    BY <2>1, <2>2, <2>3 DEF Leads
  <2> QED BY <2>3, <2>4, RecursionExists
<1>5. Shape(h)
  <2>1. ASSUME NEW n \in 0 .. b, n # 0 PROVE h[n] = Arguments!Turn(h[n - 1])
    <3>1. n \in 0 + 1 .. b /\ n - 1 \in 0 .. b /\ n \in 1 .. b
      BY <1>1, <2>1
    <3>2. h[n - 1] \in Loops
      BY <1>4, <3>1 DEF Computed
    <3>3. h[n] = step[n][h[n - 1]]
      BY <1>4, <3>1, Zenon DEF Computed
    <3> QED BY <3>1, <3>2, <3>3
  <2> HIDE DEF b, T, step, x
  <2>2. h \in [0 .. b -> Loops] /\ h[0] = x
    BY <1>4 DEF Computed
  <2> QED BY <2>1, <2>2
<1> DEFINE f == CHOOSE f : Shape(f)
<1>6. Arguments!Search = f[b]
  BY DEF Arguments!Search, Arguments!Turns
<1>7. Shape(f)
  <2> HIDE DEF Shape
  <2> QED BY <1>5
<1> HIDE DEF f
<1>8. \A n \in 0 .. b : n \in {m \in 0 .. b : f[m] \in Reached(m)}
  <2> DEFINE S == {m \in 0 .. b : f[m] \in Reached(m)}
  <2>1. 0 \in S
    BY <1>1, <1>3, <1>7
  <2>2. ASSUME NEW n \in 0 .. b - 1, n \in S PROVE n + 1 \in S
    <3>1. n + 1 \in 0 .. b /\ n + 1 # 0 /\ (n + 1) - 1 = n /\ n + 1 \in 1 .. b
      BY <1>1
    <3>2. f[n] \in Reached((n + 1) - 1)
      BY <2>2, <3>1
    <3>3. f[n + 1] = Arguments!Turn(f[n])
      <4> HIDE DEF x
      <4> QED BY <1>7, <3>1
    <3>4. f[n + 1] \in Reached(n + 1)
      BY <1>2, <3>1, <3>2, <3>3
    <3> QED BY <3>1, <3>4
  <2>3. 0 \in Int /\ b \in Int /\ \A n \in 0 .. b - 1 : n \in S => n + 1 \in S
    BY <1>1, <2>2
  <2> HIDE DEF S, b
  <2>4. \A n \in 0 .. b : n \in S
    BY <2>1, <2>3, IntervalInduction
  <2> QED BY <2>4 DEF S, b
<1> QED BY <1>1, <1>6, <1>8

--------------------------------------------------------------------------------
(* The arguments that name an option: up to each position those before it,    *)
(* and this one if it names one.                                              *)
LEMMA NamedShape ==
  ASSUME args \in Seq(Texts)
  PROVE  /\ Arguments!NamedTo[0] = << >>
         /\ \A n \in 1 .. Len(args) :
              Arguments!NamedTo[n] = IF Arguments!IsNamed(n)
                                     THEN Append(Arguments!NamedTo[n - 1], n)
                                     ELSE Arguments!NamedTo[n - 1]
         /\ \A n \in 0 .. Len(args) : Arguments!NamedTo[n] \in UpToLong(Nat, n)
<1> DEFINE b == Len(args)
           K == {n \in 1 .. b : Arguments!IsNamed(n)}
           e == [n \in 1 .. b |-> n]
           Shape(f) == f = [n \in 0 .. b |-> IF n = 0 THEN << >>
                              ELSE IF Arguments!IsNamed(n) THEN Append(f[n - 1], n) ELSE f[n - 1]]
           f == CHOOSE f : Shape(f)
<1>1. b \in Nat /\ e \in [1 .. b -> Nat]
  OBVIOUS
<1>2. \A n \in 0 .. b : n # 0 => e[n] = n /\ (n \in K <=> Arguments!IsNamed(n))
  BY <1>1
<1> HIDE DEF K, e, b
<1>3. ASSUME NEW g PROVE Gathers(g, K, e, b) <=> Shape(g)
  BY <1>2 DEF Gathers
<1>4. \E g : Shape(g)
  BY <1>1, <1>3, GatherExists, Zenon
<1>5. Arguments!NamedTo = f
  BY DEF Arguments!NamedTo, b
<1>6. Gathers(f, K, e, b)
  <2>1. Shape(f)
    <3> HIDE DEF Shape
    <3> QED BY <1>4
  <2> QED BY <1>3, <2>1, Zenon
<1> HIDE DEF f
<1>7. /\ f[0] = << >>
      /\ \A n \in 1 .. b : f[n] = IF n \in K THEN Append(f[n - 1], e[n]) ELSE f[n - 1]
      /\ \A n \in 0 .. b : f[n] \in UpToLong(Nat, n)
  BY <1>1, <1>6, GatherShape, Zenon
<1>8. \A n \in 1 .. b : n \in 0 .. b /\ n # 0
  BY <1>1
<1> QED BY <1>2, <1>5, <1>7, <1>8, Zenon DEF b

(* Arguments that name nothing add nothing.                                   *)
LEMMA NamedStays ==
  ASSUME args \in Seq(Texts), NEW n \in 0 .. Len(args), NEW m \in n .. Len(args),
         \A j \in n + 1 .. m : ~Arguments!IsNamed(j)
  PROVE  Arguments!NamedTo[m] = Arguments!NamedTo[n]
<1> DEFINE S == {i \in n .. m : Arguments!NamedTo[i] = Arguments!NamedTo[n]}
<1>1. n \in Nat /\ m \in Nat /\ Len(args) \in Nat /\ n <= m /\ m <= Len(args)
  OBVIOUS
<1>2. n \in S
  BY <1>1
<1>3. ASSUME NEW i \in n .. m - 1, i \in S PROVE i + 1 \in S
  <2>1. i + 1 \in n + 1 .. m /\ i + 1 \in n .. m /\ i + 1 \in 1 .. Len(args) /\ (i + 1) - 1 = i
    BY <1>1
  <2>2. Arguments!NamedTo[i + 1] = Arguments!NamedTo[i]
    BY <2>1, NamedShape
  <2> QED BY <1>3, <2>1, <2>2
<1>4. n \in Int /\ m \in Int /\ m \in n .. m /\ \A i \in n .. m - 1 : i \in S => i + 1 \in S
  BY <1>1, <1>3
<1>5. m \in S
  <2> HIDE DEF S
  <2> QED BY <1>2, <1>4, IntervalInduction
<1> QED BY <1>5

(* And the list only grows.                                                   *)
LEMMA NamedGrows ==
  ASSUME args \in Seq(Texts), NEW n \in 0 .. Len(args)
  PROVE  LET q == Arguments!NamedTo[n]
             r == Arguments!NamedTo[Len(args)]
         IN  Len(q) <= Len(r) /\ \A k \in 1 .. Len(q) : r[k] = q[k]
<1> DEFINE N == Len(args)
           q == Arguments!NamedTo[n]
           Begins(r) == Len(q) <= Len(r) /\ \A k \in 1 .. Len(q) : r[k] = q[k]
           S == {i \in n .. N : Begins(Arguments!NamedTo[i])}
<1>1. n \in Nat /\ N \in Nat /\ n <= N
  OBVIOUS
<1>2. \A i \in 0 .. N : Arguments!NamedTo[i] \in Seq(Nat)
  BY NamedShape DEF UpToLong
<1>3. q \in Seq(Nat)
  BY <1>2
<1> HIDE DEF q
<1>4. n \in S
  BY <1>1, <1>3 DEF q
<1>5. ASSUME NEW i \in n .. N - 1, i \in S PROVE i + 1 \in S
  <2>1. i + 1 \in n .. N /\ i + 1 \in 1 .. N /\ (i + 1) - 1 = i /\ i \in 0 .. N /\ i + 1 \in Nat
    BY <1>1
  <2>2. PICK r \in Seq(Nat) : r = Arguments!NamedTo[i] /\ Begins(r)
    BY <1>2, <1>5, <2>1
  <2>3. Arguments!NamedTo[i + 1] \in {r, Append(r, i + 1)}
    BY <2>1, <2>2, NamedShape
  <2>4. Begins(Append(r, i + 1))
    <3> DEFINE v == Append(r, i + 1)
    <3>1. r \in Seq(Nat) /\ i + 1 \in Nat
      BY <2>1, <2>2
    <3>2. Len(v) = Len(r) + 1 /\ Len(r) \in Nat /\ \A k \in 1 .. Len(r) : v[k] = r[k]
      BY <3>1
    <3>3. Len(q) \in Nat /\ Len(q) <= Len(r) /\ \A k \in 1 .. Len(q) : r[k] = q[k]
      BY <1>3, <2>2
    <3> HIDE DEF v
    <3>4. Len(q) <= Len(v) /\ \A k \in 1 .. Len(q) : k \in 1 .. Len(r)
      BY <3>2, <3>3
    <3>5. \A k \in 1 .. Len(q) : v[k] = q[k]
      BY <3>2, <3>3, <3>4, Zenon
    <3>6. Begins(v)
      BY <3>4, <3>5
    <3> QED BY <3>6 DEF v
  <2> HIDE DEF Begins
  <2> QED BY <2>1, <2>2, <2>3, <2>4
<1>6. n \in Int /\ N \in Int /\ N \in n .. N /\ \A i \in n .. N - 1 : i \in S => i + 1 \in S
  BY <1>1, <1>5
<1>7. N \in S
  <2> HIDE DEF S, N
  <2> QED BY <1>4, <1>6, IntervalInduction
<1> QED BY <1>7 DEF q

--------------------------------------------------------------------------------
(* What is reported for argument i, as far as its number is accepted.         *)
Told(i) ==
  LET o == Arguments!OptionAt(i)
      v == Arguments!ValueAt(i)
  IN  Arguments!Result(o,
        IF Arguments!Repeated(i) /\ "duplicatesAllowed" \notin Options[o].flags
        THEN "duplicate"
        ELSE IF "requiredValue" \in Options[o].flags /\ v = << >> THEN "missingValue"
        ELSE IF Arguments!Accepts(Options[o].type, v) THEN "option" ELSE "invalidValue",
        v)

(* What is reported for the first n arguments.                                *)
ReportsTo(n) ==
  [k \in 1 .. Len(Arguments!NamedTo[n]) |-> Told(Arguments!NamedTo[n][k])]

(* Argument i names option o.                                                 *)
Mentions(i, o) == Arguments!IsNamed(i) /\ Arguments!OptionAt(i) = o

(* main keeps for option o what its first mention before argument n says.     *)
KeepsFirst(kept, o, n) ==
  /\ (\A i \in 1 .. n - 1 : ~Mentions(i, o)) => kept[o] = Options[o].default
  /\ \A i \in 1 .. n - 1 :
       Mentions(i, o) /\ (\A j \in 1 .. i - 1 : ~Mentions(j, o)) =>
         kept[o] = IF Arguments!ValueAt(i) = << >> THEN Options[o].default
                   ELSE Arguments!ValueAt(i)

(* The options main keeps the first of.                                       *)
SingleTexts ==
  {o \in Arguments!Numbers :
     "duplicatesAllowed" \notin Options[o].flags /\ Options[o].type = "string"}

(* What holds between any two calls of arg_nextOpt.                           *)
ArgsInv ==
  /\ ArgsTyped
  /\ argsAt \in {"reading", "ended"}
  /\ argsAt = "ended" => nextIdx = Len(args) + 1
  /\ seen \subseteq Arguments!Numbers
  /\ \A o \in Arguments!Numbers : o \in seen <=> \E i \in 1 .. nextIdx - 1 : Mentions(i, o)
  /\ results = ReportsTo(nextIdx - 1)
  /\ DOMAIN chosen = Arguments!Numbers
  /\ \A o \in SingleTexts : KeepsFirst(chosen, o, nextIdx)

(* It holds before the first.                                                 *)
LEMMA ArgsInitial ==
  ASSUME Arguments!Init
  PROVE  ArgsInv
<1>1. args \in Seq(Texts) /\ Len(args) \in Nat /\ Len(args) >= 1
  <2>1. PICK n \in 0 .. MaxArgs : \E g \in [1 .. n -> Argument] : args = <<Program>> \o g
    BY DEF Arguments!Init
  <2>2. PICK g \in [1 .. n -> Argument] : args = <<Program>> \o g
    BY <2>1
  <2>3. Program \in Texts /\ \A t \in Argument : t \in Texts
    BY ArgumentAssumption DEF Texts, ArgChars
  <2>4. g \in Seq(Texts)
    <3>1. n \in Nat /\ g \in [1 .. n -> Texts]
      BY <2>3, ArgumentAssumption
    <3> QED BY <3>1
  <2>5. <<Program>> \in Seq(Texts) /\ Len(<<Program>>) = 1
    BY <2>3
  <2> QED BY <2>2, <2>4, <2>5
<1>2. /\ nextIdx = 1 /\ seen = {} /\ results = << >> /\ argsAt = "reading"
      /\ chosen = [o \in Arguments!Numbers |-> Options[o].default]
  BY DEF Arguments!Init
<1>3. nextIdx \in 1 .. Len(args) + 1 /\ nextIdx - 1 = 0 /\ \A i \in 1 .. nextIdx - 1 : FALSE
  BY <1>1, <1>2
<1>4. results = ReportsTo(nextIdx - 1)
  BY <1>1, <1>2, <1>3, NamedShape DEF ReportsTo
<1>5. ASSUME NEW o \in SingleTexts PROVE KeepsFirst(chosen, o, nextIdx)
  BY <1>2, <1>3 DEF KeepsFirst, SingleTexts
<1>6. \A o \in Arguments!Numbers : o \in seen <=> \E i \in 1 .. nextIdx - 1 : Mentions(i, o)
  BY <1>2, <1>3
<1> QED BY <1>1, <1>2, <1>3, <1>4, <1>5, <1>6, Zenon DEF ArgsInv, ArgsTyped

(* No option is reported missing.                                             *)
LEMMA NoneMissing == ~Arguments!MissingArg
BY Zenon DEF Arguments!MissingArg, Arguments!Mask

(* What depends on the arguments alone stays.                                 *)
LEMMA SameArgs ==
  ASSUME args' = args
  PROVE  /\ ReportsTo(nextIdx - 1)' = ReportsTo(nextIdx' - 1)
         /\ \A i, o : Mentions(i, o)' <=> Mentions(i, o)
         /\ \A o : KeepsFirst(chosen, o, nextIdx)' <=> KeepsFirst(chosen', o, nextIdx')
<1>1. ReportsTo(nextIdx - 1)' = ReportsTo(nextIdx' - 1)
  BY DEF ReportsTo, Arguments!NamedTo, Arguments!OptionAt, Told,
         Arguments!Repeated, Arguments!ValueAt, Arguments!IsNamed
<1>2. ASSUME NEW i, NEW o PROVE Mentions(i, o)' <=> Mentions(i, o)
  BY DEF Mentions, Arguments!IsNamed, Arguments!OptionAt
<1>3. ASSUME NEW o PROVE KeepsFirst(chosen, o, nextIdx)' <=> KeepsFirst(chosen', o, nextIdx')
  BY DEF KeepsFirst, Mentions, Arguments!ValueAt, Arguments!IsNamed, Arguments!OptionAt
<1> QED BY <1>1, <1>2, <1>3

(* What is reported for an argument is what arg_nextOpt finds.                *)
LEMMA OutcomeExpected ==
  ASSUME ArgsInv, NEW i \in nextIdx .. Len(args), Arguments!IsNamed(i),
         \A j \in nextIdx .. i - 1 : ~Arguments!IsNamed(j)
  PROVE  LET o == Arguments!OptionAt(i)
             v == Arguments!ValueAt(i)
         IN  Arguments!Result(o, Arguments!Outcome(o, v), v) = Told(i)
<1> DEFINE o == Arguments!OptionAt(i)
           v == Arguments!ValueAt(i)
<1>1. o \in Arguments!Numbers
  BY FirstOption
<1>2. o \in seen <=> Arguments!Repeated(i)
  <2>1. o \in seen <=> \E j \in 1 .. nextIdx - 1 : Mentions(j, o)
    BY <1>1, Zenon DEF ArgsInv
  <2>2. \A j \in 1 .. i - 1 : j \in 1 .. nextIdx - 1 \/ j \in nextIdx .. i - 1
    BY DEF ArgsInv, ArgsTyped
  <2>3. \A j \in 1 .. nextIdx - 1 : j \in 1 .. i - 1
    BY DEF ArgsInv, ArgsTyped
  <2> HIDE DEF o
  <2>4. Arguments!Repeated(i) <=> \E j \in 1 .. i - 1 : Mentions(j, o)
    BY Zenon DEF Arguments!Repeated, Mentions, o
  <2> QED BY <2>1, <2>2, <2>3, <2>4, Zenon DEF Mentions
<1> DEFINE A == Arguments!Accepts(Options[o].type, v)
           m == v = << >>
           d == "duplicatesAllowed" \notin Options[o].flags
           q == "requiredValue" \in Options[o].flags
           x == Arguments!Outcome(o, v)
           e == IF Arguments!Repeated(i) /\ d THEN "duplicate"
                ELSE IF q /\ m THEN "missingValue"
                ELSE IF A THEN "option" ELSE "invalidValue"
<1>3. Told(i) = Arguments!Result(o, e, v)
  BY Zenon DEF Told
<1>4. x = e
  <2>1. x = IF o \in seen /\ d THEN "duplicate"
            ELSE IF q /\ m THEN "missingValue" ELSE IF ~A THEN "invalidValue" ELSE "option"
    BY Zenon DEF Arguments!Outcome
  <2> DEFINE s == o \in seen
             r == Arguments!Repeated(i)
  <2>2. s <=> r
    BY <1>2
  <2>3. x = IF s /\ d THEN "duplicate"
            ELSE IF q /\ m THEN "missingValue" ELSE IF ~A THEN "invalidValue" ELSE "option"
    BY <2>1
  <2>4. e = IF r /\ d THEN "duplicate"
            ELSE IF q /\ m THEN "missingValue" ELSE IF A THEN "option" ELSE "invalidValue"
    BY Zenon
  <2> HIDE DEF A, m, d, q, x, o, v, s, r, e
  <2>5. CASE s /\ d
    BY <2>2, <2>3, <2>4, <2>5, Zenon
  <2>6. CASE ~(s /\ d) /\ q /\ m
    BY <2>2, <2>3, <2>4, <2>6, Zenon
  <2>7. CASE ~(s /\ d) /\ ~(q /\ m) /\ ~A
    BY <2>2, <2>3, <2>4, <2>7, Zenon
  <2>8. CASE ~(s /\ d) /\ ~(q /\ m) /\ A
    BY <2>2, <2>3, <2>4, <2>8, Zenon
  <2> QED BY <2>5, <2>6, <2>7, <2>8, Zenon
<1> QED BY <1>3, <1>4

(* Finding an option.                                                         *)
LEMMA FindOptionKeeps ==
  ASSUME ArgsInv, Arguments!FindOption
  PROVE  ArgsInv'
<1> DEFINE N == Len(args)
           s == Arguments!Search
<1>1. ArgsTyped /\ args \in Seq(Texts) /\ N \in Nat /\ nextIdx \in 1 .. N + 1
  BY DEF ArgsInv, ArgsTyped
<1>2. s.found # {}
  BY DEF Arguments!FindOption
<1>3. PICK i \in Nat : Hit(s, i)
  BY <1>1, <1>2, SearchReached DEF Reached, Missed
<1> DEFINE o == Arguments!OptionAt(i)
           v == Arguments!ValueAt(i)
           r == Told(i)
           next == s.next
<1>4. /\ i \in nextIdx .. N /\ Arguments!IsNamed(i) /\ s.found = {o} /\ s.value = v
      /\ next \in i + 1 .. N + 1
      /\ \A j \in nextIdx .. next - 1 : j # i => ~Arguments!IsNamed(j)
  BY <1>3, Zenon DEF Hit
<1>5. \A j \in nextIdx .. i - 1 : ~Arguments!IsNamed(j)
  BY <1>1, <1>4
<1>6. Arguments!Result(o, Arguments!Outcome(o, v), v) = r
  BY <1>4, <1>5, OutcomeExpected
<1>7. /\ results' = Append(results, r) /\ chosen' = Arguments!Keep(r) /\ seen' = seen \cup {o}
      /\ nextIdx' = next /\ args' = args /\ argsAt' = argsAt /\ argsAt = "reading"
  <2> HIDE DEF o, v, r, s
  <2>1. \E p \in s.found :
          LET t == Arguments!Result(p, Arguments!Outcome(p, s.value), s.value) IN
          /\ results' = Append(results, t) /\ chosen' = Arguments!Keep(t) /\ seen' = seen \cup {p}
          /\ nextIdx' = next
    BY Zenon DEF Arguments!FindOption, s
  <2>2. UNCHANGED <<args, argsAt>> /\ argsAt = "reading"
    BY Zenon DEF Arguments!FindOption
  <2> QED BY <1>4, <1>6, <2>1, <2>2
<1>8. o \in Arguments!Numbers
  BY <1>4, FirstOption
<1> HIDE DEF o, v, r, s, next
<1>9. \A j \in 1 .. next - 1 : j \in 1 .. nextIdx - 1 \/ j = i \/ (j \in nextIdx .. next - 1 /\ j # i)
  BY <1>1, <1>4
<1>10. i \in 1 .. next - 1 /\ \A j \in 1 .. nextIdx - 1 : j \in 1 .. next - 1 /\ j # i
  BY <1>1, <1>4
<1>11. Mentions(i, o) /\ \A j \in nextIdx .. next - 1 : j # i => \A p : ~Mentions(j, p)
  BY <1>4, Zenon DEF Mentions, o
<1>12. \A p : p # o => ~Mentions(i, p)
  BY Zenon DEF Mentions, o
<1>13. /\ ReportsTo(nextIdx - 1)' = ReportsTo(nextIdx' - 1)
       /\ \A j, p : Mentions(j, p)' <=> Mentions(j, p)
       /\ \A p : KeepsFirst(chosen, p, nextIdx)' <=> KeepsFirst(chosen', p, nextIdx')
  BY <1>7, SameArgs
<1>14. ArgsTyped'
  BY <1>1, <1>4, <1>7 DEF ArgsTyped
<1>15. \A p \in Arguments!Numbers : p \in seen' <=> \E j \in 1 .. next - 1 : Mentions(j, p)
  <2> SUFFICES ASSUME NEW p \in Arguments!Numbers
               PROVE  p \in seen' <=> \E j \in 1 .. next - 1 : Mentions(j, p)
    OBVIOUS
  <2>1. p \in seen <=> \E j \in 1 .. nextIdx - 1 : Mentions(j, p)
    BY DEF ArgsInv
  <2>2. p \in seen' <=> p \in seen \/ p = o
    BY <1>7
  <2> QED BY <1>9, <1>10, <1>11, <1>12, <2>1, <2>2, Zenon
<1>16. results' = ReportsTo(next - 1)
  <2> DEFINE q == Arguments!NamedTo[nextIdx - 1]
             m == Arguments!NamedTo[next - 1]
  <2>0. /\ nextIdx - 1 \in 0 .. N /\ i - 1 \in nextIdx - 1 .. N /\ i - 1 \in 0 .. N /\ i \in 0 .. N
        /\ i \in 1 .. N /\ next - 1 \in i .. N
        /\ \A j \in (nextIdx - 1) + 1 .. i - 1 : j \in nextIdx .. i - 1
        /\ \A j \in i + 1 .. next - 1 : j \in nextIdx .. next - 1 /\ j # i
    BY <1>1, <1>4
  <2>1. Arguments!NamedTo[i - 1] = q
    BY <1>1, <1>5, <2>0, NamedStays
  <2>2. Arguments!NamedTo[i] = Append(Arguments!NamedTo[i - 1], i)
    BY <1>1, <1>4, <2>0, NamedShape
  <2>3. m = Arguments!NamedTo[i]
    BY <1>1, <1>4, <2>0, NamedStays
  <2>4. q \in Seq(Nat)
    BY <1>1, <2>0, NamedShape DEF UpToLong
  <2>5. m = Append(q, i)
    BY <2>1, <2>2, <2>3
  <2>6. results = [k \in 1 .. Len(q) |-> Told(q[k])]
    BY DEF ArgsInv, ReportsTo
  <2>7. ReportsTo(next - 1) = [k \in 1 .. Len(m) |-> Told(m[k])]
    BY DEF ReportsTo
  <2> HIDE DEF q, m
  <2> DEFINE E == [k \in Nat |-> Told(k)]
  <2>8. \A k \in Nat : E[k] = Told(k)
    OBVIOUS
  <2>9. E[i] = r
    BY <2>8 DEF r
  <2> HIDE DEF E
  <2>10. results = [k \in 1 .. Len(q) |-> E[q[k]]]
    BY <2>4, <2>6, <2>8
  <2>11. ReportsTo(next - 1) = [k \in 1 .. Len(m) |-> E[m[k]]]
    BY <2>4, <2>5, <2>7, <2>8
  <2>12. Append(results, E[i]) = [k \in 1 .. Len(m) |-> E[m[k]]]
    BY <2>4, <2>5, <2>10
  <2> QED BY <1>7, <2>9, <2>11, <2>12
<1>17. DOMAIN chosen' = Arguments!Numbers
  <2>1. DOMAIN chosen = Arguments!Numbers
    BY DEF ArgsInv
  <2> QED BY <1>7, <2>1 DEF Arguments!Keep
<1>18. ASSUME NEW p \in SingleTexts PROVE KeepsFirst(chosen', p, next)
  <2>1. p \in Arguments!Numbers /\ KeepsFirst(chosen, p, nextIdx) /\ DOMAIN chosen = Arguments!Numbers
    BY DEF ArgsInv, SingleTexts
  <2>2. r.option = o
    BY Zenon DEF r, o, Told, Arguments!Result
  <2>3. CASE p # o
    <3>1. chosen'[p] = chosen[p]
      BY <1>7, <2>1, <2>2, <2>3 DEF Arguments!Keep
    <3>2. \A j \in 1 .. next - 1 : Mentions(j, p) => j \in 1 .. nextIdx - 1
      BY <1>9, <1>11, <1>12, <2>3
    <3> QED BY <1>10, <2>1, <3>1, <3>2 DEF KeepsFirst
  <2>4. CASE p = o /\ Arguments!Repeated(i)
    <3>1. r.outcome = "duplicate"
      BY <2>4 DEF r, o, SingleTexts, Told, Arguments!Result
    <3>2. chosen' = chosen
      BY <1>7, <3>1 DEF Arguments!Keep
    <3>3. \E j \in 1 .. i - 1 : Mentions(j, p)
      BY <2>4, Zenon DEF Arguments!Repeated, Mentions, o
    <3>4. \A j \in 1 .. next - 1 :
            Mentions(j, p) /\ (\A k \in 1 .. j - 1 : ~Mentions(k, p)) => j \in 1 .. nextIdx - 1
      BY <1>9, <1>11, <3>3
    <3>5. ~\A j \in 1 .. nextIdx - 1 : ~Mentions(j, p)
      <4>1. PICK j \in 1 .. i - 1 : Mentions(j, p)
        BY <3>3
      <4>2. j \in 1 .. nextIdx - 1 \/ j \in nextIdx .. i - 1
        BY <1>1, <1>4
      <4>3. ~(j \in nextIdx .. i - 1)
        BY <1>5, <4>1, Zenon DEF Mentions
      <4> QED BY <4>1, <4>2, <4>3
    <3> QED BY <1>10, <2>1, <3>2, <3>4, <3>5 DEF KeepsFirst
  <2>5. CASE p = o /\ ~Arguments!Repeated(i)
    <3>1. \A j \in 1 .. i - 1 : ~Mentions(j, p)
      BY <2>5, Zenon DEF Arguments!Repeated, Mentions, o
    <3>2. chosen[p] = Options[p].default
      <4>1. \A j \in 1 .. nextIdx - 1 : j \in 1 .. i - 1
        BY <1>1, <1>4
      <4> QED BY <2>1, <3>1, <4>1 DEF KeepsFirst
    <3>3. /\ r.value = IF v = << >> THEN Options[p].default ELSE v
          /\ r.outcome = "option" \/ (r.outcome = "missingValue" /\ v = << >>)
      <4>1. Arguments!Accepts(Options[p].type, v)
        BY DEF SingleTexts, Arguments!Accepts
      <4>2. r = Arguments!Result(o, IF "requiredValue" \in Options[o].flags /\ v = << >>
                                    THEN "missingValue"
                                    ELSE IF Arguments!Accepts(Options[o].type, v)
                                    THEN "option" ELSE "invalidValue", v)
        BY <2>5, Zenon DEF r, o, v, Told
      <4> QED BY <2>5, <4>1, <4>2 DEF Arguments!Result
    <3>4. chosen'[p] = IF v = << >> THEN Options[p].default ELSE v
      <4>1. CASE r.outcome = "option"
        BY <1>7, <2>1, <2>2, <2>5, <3>3, <4>1 DEF Arguments!Keep
      <4>2. CASE r.outcome # "option"
        BY <1>7, <3>2, <3>3, <4>2 DEF Arguments!Keep
      <4> QED BY <4>1, <4>2
    <3>5. \A j \in 1 .. next - 1 :
            Mentions(j, p) /\ (\A k \in 1 .. j - 1 : ~Mentions(k, p)) => j = i
      <4> SUFFICES ASSUME NEW j \in 1 .. next - 1, Mentions(j, p) PROVE j = i
        OBVIOUS
      <4>1. \A k \in 1 .. nextIdx - 1 : k \in 1 .. i - 1
        BY <1>1, <1>4
      <4> QED BY <1>9, <1>11, <3>1, <4>1
    <3>6. ~\A j \in 1 .. next - 1 : ~Mentions(j, p)
      BY <1>10, <1>11, <2>5
    <3> QED BY <3>4, <3>5, <3>6, Zenon DEF KeepsFirst, v
  <2> QED BY <2>3, <2>4, <2>5
<1>19. SingleTexts' = SingleTexts
  BY DEF SingleTexts, Arguments!Numbers
<1>20. seen' \subseteq Arguments!Numbers
  BY <1>7, <1>8 DEF ArgsInv
<1>21. /\ argsAt' \in {"reading", "ended"} /\ argsAt' # "ended"
  BY <1>7
<1>22. /\ \A p \in Arguments!Numbers : p \in seen' <=> \E j \in 1 .. nextIdx' - 1 : Mentions(j, p)'
       /\ results' = ReportsTo(nextIdx - 1)'
  BY <1>7, <1>13, <1>15, <1>16, Zenon
<1>23. \A p \in SingleTexts : KeepsFirst(chosen, p, nextIdx)'
  BY <1>7, <1>13, <1>18, Zenon
<1> QED BY <1>14, <1>17, <1>19, <1>20, <1>21, <1>22, <1>23, Zenon DEF ArgsInv, Arguments!Numbers

(* The end of the command line.                                               *)
LEMMA EndKeeps ==
  ASSUME ArgsInv, Arguments!End
  PROVE  ArgsInv'
<1> DEFINE N == Len(args)
           s == Arguments!Search
<1>1. ArgsTyped /\ args \in Seq(Texts) /\ N \in Nat /\ nextIdx \in 1 .. N + 1
  BY DEF ArgsInv, ArgsTyped
<1>2. /\ s.found = {} /\ nextIdx' = s.next /\ argsAt' = "ended"
      /\ UNCHANGED <<args, seen, chosen, results>>
  BY NoneMissing, Zenon DEF Arguments!End
<1>3. Missed(s, N)
  <2>1. ASSUME NEW i, Hit(s, i) PROVE FALSE
    BY <1>2, <2>1 DEF Hit
  <2> QED BY <1>1, <2>1, SearchReached DEF Reached
<1> HIDE DEF s
<1>4. nextIdx' = N + 1 /\ \A j \in nextIdx .. N : ~Arguments!IsNamed(j)
  BY <1>1, <1>2, <1>3 DEF Missed
<1>5. /\ ReportsTo(nextIdx - 1)' = ReportsTo(nextIdx' - 1)
      /\ \A j, p : Mentions(j, p)' <=> Mentions(j, p)
      /\ \A p : KeepsFirst(chosen, p, nextIdx)' <=> KeepsFirst(chosen', p, nextIdx')
  BY <1>2, SameArgs
<1>6. /\ \A j \in 1 .. (N + 1) - 1 : \A p : Mentions(j, p) => j \in 1 .. nextIdx - 1
      /\ \A j \in 1 .. nextIdx - 1 : j \in 1 .. (N + 1) - 1
  <2>1. \A j \in 1 .. (N + 1) - 1 : j \in 1 .. nextIdx - 1 \/ j \in nextIdx .. N
    BY <1>1
  <2>2. \A j \in 1 .. nextIdx - 1 : j \in 1 .. (N + 1) - 1
    BY <1>1
  <2> QED BY <1>4, <2>1, <2>2, Zenon DEF Mentions
<1>7. ReportsTo(N) = ReportsTo(nextIdx - 1)
  <2>1. nextIdx - 1 \in 0 .. N /\ N \in nextIdx - 1 .. N
        /\ \A j \in (nextIdx - 1) + 1 .. N : j \in nextIdx .. N
    BY <1>1
  <2>2. Arguments!NamedTo[N] = Arguments!NamedTo[nextIdx - 1]
    BY <1>1, <1>4, <2>1, NamedStays
  <2> QED BY <2>2 DEF ReportsTo
<1>8. ASSUME NEW p \in SingleTexts PROVE KeepsFirst(chosen', p, N + 1)
  BY <1>2, <1>6 DEF KeepsFirst, ArgsInv
<1>9. ArgsTyped' /\ nextIdx' = Len(args') + 1
  BY <1>1, <1>2, <1>4 DEF ArgsTyped
<1>10. \A p \in Arguments!Numbers : p \in seen' <=> \E j \in 1 .. nextIdx' - 1 : Mentions(j, p)'
  BY <1>2, <1>4, <1>5, <1>6, Zenon DEF ArgsInv
<1>11. results' = ReportsTo(nextIdx - 1)'
  <2>1. nextIdx' - 1 = N
    BY <1>1, <1>4
  <2> QED BY <1>2, <1>5, <1>7, <2>1, Zenon DEF ArgsInv
<1>12. \A p \in SingleTexts : KeepsFirst(chosen, p, nextIdx)'
  BY <1>4, <1>5, <1>8, Zenon
<1>13. SingleTexts' = SingleTexts
  BY DEF SingleTexts, Arguments!Numbers
<1>14. DOMAIN chosen' = Arguments!Numbers /\ seen' \subseteq Arguments!Numbers
  BY <1>2 DEF ArgsInv
<1> QED BY <1>2, <1>9, <1>10, <1>11, <1>12, <1>13, <1>14, Zenon DEF ArgsInv, Arguments!Numbers

(* It is what may be reported for it.                                         *)
LEMMA ToldRight ==
  ASSUME NEW i
  PROVE  Arguments!Reports(Told(i), i)
<1> DEFINE o == Arguments!OptionAt(i)
           v == Arguments!ValueAt(i)
           D == Arguments!Repeated(i) /\ "duplicatesAllowed" \notin Options[o].flags
           M == "requiredValue" \in Options[o].flags /\ v = << >>
           A == Arguments!Accepts(Options[o].type, v)
           e == IF D THEN "duplicate" ELSE IF M THEN "missingValue"
                ELSE IF A THEN "option" ELSE "invalidValue"
<1>1. Told(i) = Arguments!Result(o, e, v)
  BY Zenon DEF Told
<1>2. /\ Told(i).option = o /\ Told(i).outcome = e
      /\ Told(i).value = IF v = << >> THEN Options[o].default ELSE v
  BY <1>1 DEF Arguments!Result
<1>3. /\ D => "duplicate" \in Arguments!Errors(i)
      /\ M => "missingValue" \in Arguments!Errors(i)
      /\ Arguments!Errors(i) # {} => D \/ M
  BY DEF Arguments!Errors
<1>4. Options[o].type = "string" => A
  BY DEF Arguments!Accepts
<1> HIDE DEF D, M, A
<1>5. e \in IF Arguments!Errors(i) # {} THEN Arguments!Errors(i)
            ELSE IF Options[o].type = "string" THEN {"option"} ELSE {"option", "invalidValue"}
  <2>1. CASE D
    BY <1>3, <2>1
  <2>2. CASE ~D /\ M
    BY <1>3, <2>2
  <2>3. CASE ~D /\ ~M
    BY <1>3, <1>4, <2>3
  <2> QED BY <2>1, <2>2, <2>3
<1> QED BY <1>2, <1>5, Zenon DEF Arguments!Reports

(* What the invariant says of the reports.                                    *)
LEMMA ArgsReported ==
  ASSUME ArgsInv
  PROVE  Arguments!TypeOK /\ Arguments!ReportsAll
<1> DEFINE N == Len(args)
           n == nextIdx - 1
           q == Arguments!NamedTo[n]
           r == Arguments!NamedTo[N]
           E == [k \in Nat |-> Told(k)]
           S == {Told(k) : k \in Nat}
           expected == [k \in 1 .. Len(r) |-> E[r[k]]]
<1>1. args \in Seq(Texts) /\ N \in Nat /\ nextIdx \in 1 .. N + 1 /\ n \in 0 .. N /\ N \in 0 .. N
  BY DEF ArgsInv, ArgsTyped
<1>2. /\ q \in Seq(Nat) /\ Len(q) <= n /\ Len(q) \in Nat
      /\ r \in Seq(Nat) /\ Len(r) \in Nat
      /\ Len(q) <= Len(r) /\ \A k \in 1 .. Len(q) : r[k] = q[k]
  <2>1. q \in UpToLong(Nat, n) /\ r \in UpToLong(Nat, N)
    BY <1>1, NamedShape
  <2>2. Len(q) <= Len(r) /\ \A k \in 1 .. Len(q) : r[k] = q[k]
    BY <1>1, NamedGrows
  <2> QED BY <2>1, <2>2 DEF UpToLong
<1>3. E \in [Nat -> S] /\ \A k \in Nat : E[k] = Told(k)
  OBVIOUS
<1>4. results = [k \in 1 .. Len(q) |-> Told(q[k])]
  BY DEF ArgsInv, ReportsTo
<1>5. Arguments!Named = r
  BY DEF Arguments!Named
<1> HIDE DEF E, q, r, S
<1>6. results = [k \in 1 .. Len(q) |-> E[q[k]]]
  BY <1>2, <1>3, <1>4
<1>7. /\ results \in Seq(S) /\ Len(results) = Len(q)
      /\ expected \in Seq(S) /\ Len(expected) = Len(r)
      /\ \A k \in 1 .. Len(q) : results[k] = expected[k]
  <2>1. \A k \in 1 .. Len(q) : q[k] \in Nat
    BY <1>2
  <2>2. \A k \in 1 .. Len(r) : r[k] \in Nat
    BY <1>2
  <2>3. results \in Seq(S) /\ Len(results) = Len(q)
    BY <1>2, <1>3, <1>6, <2>1
  <2>4. expected \in Seq(S) /\ Len(expected) = Len(r)
    BY <1>2, <1>3, <2>2
  <2>5. ASSUME NEW k \in 1 .. Len(q) PROVE results[k] = expected[k]
    BY <1>2, <1>6
  <2> QED BY <2>3, <2>4, <2>5
<1> HIDE DEF expected
<1>8. ASSUME NEW k \in DOMAIN results
      PROVE  k <= Len(Arguments!Named) /\ Arguments!Reports(results[k], Arguments!Named[k])
  <2>1. k \in 1 .. Len(q) /\ k <= Len(r) /\ r[k] = q[k]
    BY <1>2, <1>7
  <2>2. results[k] = Told(r[k])
    BY <1>4, <2>1
  <2> QED BY <1>5, <2>1, <2>2, ToldRight, Zenon
<1>9. argsAt = "ended" => Len(results) >= Len(Arguments!Named)
  <2> SUFFICES ASSUME argsAt = "ended" PROVE Len(results) >= Len(r)
    BY <1>5
  <2>1. nextIdx = N + 1
    BY DEF ArgsInv
  <2>2. n = N
    BY <1>1, <2>1
  <2>3. q = r
    BY <2>2 DEF q, r
  <2> QED BY <1>2, <1>7, <2>3
<1>10. Arguments!ReportsAll
  BY <1>8, <1>9, Zenon DEF Arguments!ReportsAll
<1>11. Arguments!TypeOK
  <2>1. Len(results) <= Len(args) + Len(Options)
    <3>1. Len(Options) \in Nat
      BY ArgumentAssumption
    <3> QED BY <1>1, <1>2, <1>7, <3>1
  <2> QED BY <1>1, <2>1 DEF Arguments!TypeOK, ArgsInv
<1> QED BY <1>10, <1>11

(* And what of the values main keeps.                                         *)
LEMMA ArgsKept ==
  ASSUME ArgsInv
  PROVE  Arguments!FirstWins
<1> SUFFICES ASSUME argsAt = "ended", NEW o \in SingleTexts
             PROVE  LET M == {i \in DOMAIN args : Arguments!IsNamed(i) /\ Arguments!OptionAt(i) = o}
                        first == CHOOSE i \in M : \A j \in M : i <= j
                    IN  chosen[o] = IF M = {} \/ Arguments!ValueAt(first) = << >>
                                    THEN Options[o].default ELSE Arguments!ValueAt(first)
  BY Zenon DEF Arguments!FirstWins, SingleTexts
<1> DEFINE N == Len(args)
           M == {i \in DOMAIN args : Arguments!IsNamed(i) /\ Arguments!OptionAt(i) = o}
           first == CHOOSE i \in M : \A j \in M : i <= j
<1>1. args \in Seq(Texts) /\ N \in Nat /\ nextIdx = N + 1 /\ KeepsFirst(chosen, o, nextIdx)
  BY DEF ArgsInv, ArgsTyped
<1>2. DOMAIN args = 1 .. N /\ (N + 1) - 1 = N
  BY <1>1
<1>3. M = {i \in 1 .. N : Mentions(i, o)}
  BY <1>2 DEF Mentions
<1>4. KeepsFirst(chosen, o, N + 1)
  BY <1>1
<1> HIDE DEF M
<1>5. CASE M = {}
  <2>1. \A i \in 1 .. (N + 1) - 1 : ~Mentions(i, o)
    BY <1>2, <1>3, <1>5
  <2> QED BY <1>4, <1>5, <2>1 DEF KeepsFirst, M
<1>6. CASE M # {}
  <2>1. M \in SUBSET Nat
    BY <1>1, <1>3
  <2>2. first \in M /\ \A j \in M : first <= j
    BY <1>6, <2>1, LeastElement, Zenon
  <2> HIDE DEF first
  <2>3. first \in 1 .. (N + 1) - 1 /\ Mentions(first, o)
    BY <1>2, <1>3, <2>2
  <2>4. \A j \in 1 .. first - 1 : ~Mentions(j, o)
    <3>1. \A j \in 1 .. first - 1 : j \in 1 .. N /\ ~(first <= j)
      BY <1>1, <1>2, <2>3
    <3> QED BY <1>3, <2>2, <3>1
  <2>5. chosen[o] = IF Arguments!ValueAt(first) = << >> THEN Options[o].default
                    ELSE Arguments!ValueAt(first)
    BY <1>4, <2>3, <2>4, Zenon DEF KeepsFirst
  <2> QED BY <1>6, <2>5, Zenon DEF first, M
<1> QED BY <1>5, <1>6

(* Every step of the library keeps it.                                        *)
OptionsInv == part = "arguments" => ArgsInv

LEMMA OptionsInductive ==
  OptionsInv /\ [LibraryNext]_libraryVars => OptionsInv'
<1> SUFFICES ASSUME OptionsInv, part' = "arguments", [LibraryNext]_libraryVars
             PROVE  ArgsInv'
  BY DEF OptionsInv
<1>1. part = "arguments" /\ (Arguments!Next \/ UNCHANGED argsVars)
  BY DEF LibraryNext, libraryVars
<1>2. ArgsInv
  BY <1>1 DEF OptionsInv
<1>3. CASE UNCHANGED argsVars
  <2>1. UNCHANGED <<argsAt, args, nextIdx, seen, chosen, results>>
    BY <1>3 DEF argsVars
  <2>2. /\ ReportsTo(nextIdx - 1)' = ReportsTo(nextIdx - 1)
        /\ \A i, o : Mentions(i, o)' <=> Mentions(i, o)
        /\ \A o : KeepsFirst(chosen, o, nextIdx)' <=> KeepsFirst(chosen, o, nextIdx)
    BY <2>1, SameArgs
  <2>3. ArgsTyped' /\ SingleTexts' = SingleTexts
    BY <1>2, <2>1 DEF ArgsInv, ArgsTyped, SingleTexts, Arguments!Numbers
  <2> QED BY <1>2, <2>1, <2>2, <2>3, Zenon DEF ArgsInv, Arguments!Numbers
<1> QED BY <1>1, <1>2, <1>3, FindOptionKeeps, EndKeeps, Zenon DEF Arguments!Next

(* On every command line over any vocabulary arg_nextOpt reports the options  *)
(* that are named one by one and in order, each with its own value, and with  *)
(* the error of one named before or without its value exactly if it is; after *)
(* them nothing but options that are required and absent; and main keeps the  *)
(* first of several.                                                         *)
THEOREM OptionsSound == LibrarySpec => []OptionsReported
<1>1. LibraryInit => OptionsInv
  BY ArgsInitial, Zenon DEF LibraryInit, OptionsInv
<1>2. OptionsInv => OptionsReported
  BY ArgsReported, ArgsKept, Zenon DEF OptionsInv, OptionsReported
<1> QED BY <1>1, <1>2, OptionsInductive, PTL DEF LibrarySpec, libraryVars
--------------------------------------------------------------------------------
(* Paths: str_replaceAll computes a size in one loop and fills the block in    *)
(* another; for a simple path the two agree at each position.                 *)

PathChars == Characters \cup {"/", ".", "\\"}
Strings == Seq(PathChars)

(* A match, character by character.                                           *)
LEMMA MatchIs ==
  ASSUME NEW str \in Strings, NEW find \in Strings, NEW i \in Nat
  PROVE  Paths!IsAt(str, find, i) <=>
           i + Len(find) <= Len(str) /\ \A j \in 1 .. Len(find) : str[i + j] = find[j]
<1> DEFINE c == SubSeq(str, i + 1, i + Len(find))
<1>1. ASSUME i + Len(find) <= Len(str) PROVE \A j \in 1 .. Len(find) : c[j] = str[i + j]
  <2>1. \A j \in 1 .. Len(find) : j \in 1 .. (i + Len(find)) - (i + 1) + 1 /\ (i + 1) + j - 1 = i + j
    BY DEF Strings
  <2>2. \A j \in 1 .. (i + Len(find)) - (i + 1) + 1 : c[j] = str[(i + 1) + j - 1]
    BY DEF Strings
  <2> HIDE DEF c
  <2> QED BY <2>1, <2>2
<1>2. ASSUME i + Len(find) <= Len(str), \A j \in 1 .. Len(find) : str[i + j] = find[j]
      PROVE  c = find
  BY <1>2, CutOut DEF Strings
<1>3. Paths!IsAt(str, find, i) <=> i + Len(find) <= Len(str) /\ c = find
  BY Zenon DEF Paths!IsAt
<1> HIDE DEF c
<1> QED BY <1>1, <1>2, <1>3

(* str_findFirst finds nothing exactly if there is no match.                  *)
LEMMA NotFound ==
  ASSUME NEW str \in Strings, NEW find \in Strings, find # << >>
  PROVE  Paths!FindFirst(str, find, 0) = Len(str) <=> \A i \in Nat : ~Paths!IsAt(str, find, i)
<1> DEFINE M == {i \in 0 .. Len(str) - Len(find) : Paths!IsAt(str, find, i)}
           m == CHOOSE i \in M : \A j \in M : i <= j
<1>1. Paths!FindFirst(str, find, 0) = IF M = {} THEN Len(str) ELSE m
  BY Zenon DEF Paths!FindFirst
<1>2. Len(str) \in Nat /\ Len(find) \in Nat /\ Len(find) > 0
  BY DEF Strings
<1>3. ASSUME NEW i \in Nat, Paths!IsAt(str, find, i) PROVE i \in M
  <2>1. i + Len(find) <= Len(str)
    BY <1>3, Zenon DEF Paths!IsAt
  <2> QED BY <1>2, <1>3, <2>1
<1>4. M \in SUBSET Nat /\ \A i \in M : i < Len(str) /\ Paths!IsAt(str, find, i)
  BY <1>2
<1>5. M # {} => m \in M
  <2> HIDE DEF M
  <2> QED BY <1>4, LeastElement, Zenon
<1> HIDE DEF M, m
<1>6. M # {} => m < Len(str) /\ m \in Nat /\ Paths!IsAt(str, find, m)
  BY <1>4, <1>5
<1> QED BY <1>1, <1>2, <1>3, <1>4, <1>6

--------------------------------------------------------------------------------
Written == [pos : Nat, written : Strings]

(* The loop of str_replaceAll, for whatever its turns keep.                   *)
LEMMA ReplaceLoop ==
  ASSUME NEW str \in Strings, NEW find, NEW by, NEW G \in SUBSET Written,
         [pos |-> 0, written |-> << >>] \in G,
         \A s \in G : s.pos <= Len(str),
         \A s \in G : s.pos # Len(str) =>
           /\ Paths!ReplaceTurn(str, find, by, s) \in G
           /\ Paths!ReplaceTurn(str, find, by, s).pos > s.pos
  PROVE  \E s \in G : s.pos = Len(str) /\ s.written = Paths!Replaced(str, find, by)
<1> DEFINE b == Len(str)
           x == [pos |-> 0, written |-> << >>]
           turn(s) == Paths!ReplaceTurn(str, find, by, s)
           Late(n) == {s \in G : s.pos >= n \/ s.pos = b}
           T == [n \in 0 .. b |-> Late(n)]
           step == [n \in 1 .. b |-> [s \in G |-> turn(s)]]
           Shape(f) == f = [n \in 0 .. b |-> IF n = 0 THEN x ELSE turn(f[n - 1])]
<1>1. b \in Nat /\ \A s \in G : s.pos \in Nat /\ s.pos <= b
  BY DEF Strings, Written
<1>2. ASSUME NEW n \in 1 .. b, NEW s \in Late(n - 1) PROVE s \in G /\ turn(s) \in Late(n)
  <2>1. CASE s.pos = b
    <3>1. turn(s) = s
      BY <2>1, Zenon DEF Paths!ReplaceTurn
    <3> QED BY <2>1, <3>1
  <2>2. CASE s.pos # b
    <3>1. turn(s) \in G /\ turn(s).pos > s.pos /\ s.pos >= n - 1
      BY <2>2
    <3> HIDE DEF turn
    <3>2. turn(s).pos >= n
      BY <1>1, <3>1
    <3> QED BY <3>1, <3>2
  <2> QED BY <2>1, <2>2
<1>3. x \in Late(0)
  OBVIOUS
<1> HIDE DEF turn
<1>4. PICK h : Computed(h, x, step, T, G, 0, b)
  <2>1. \A n \in 0 .. b : T[n] \subseteq G
    OBVIOUS
  <2>2. \A n \in 1 .. b : \A s \in T[n - 1] : step[n][s] \in T[n]
    <3> SUFFICES ASSUME NEW n \in 1 .. b, NEW s \in T[n - 1] PROVE step[n][s] \in T[n]
      OBVIOUS
    <3>1. n \in 0 .. b /\ n - 1 \in 0 .. b
      BY <1>1
    <3>2. s \in Late(n - 1)
      BY <3>1
    <3> HIDE DEF Late
    <3> QED BY <1>2, <3>1, <3>2
  <2>3. x \in T[0] /\ 0 \in Int /\ b \in Int /\ 0 <= b /\ 0 + 1 = 1
    BY <1>1, <1>3
  <2> HIDE DEF b, x, T, step
  <2>4. Leads(step, T, G, 0, b)
    BY <2>1, <2>2, <2>3 DEF Leads
  <2> QED BY <2>3, <2>4, RecursionExists
<1>5. Shape(h)
  <2>1. ASSUME NEW n \in 0 .. b, n # 0 PROVE h[n] = turn(h[n - 1])
    <3>1. n \in 0 + 1 .. b /\ n - 1 \in 0 .. b /\ n \in 1 .. b
      BY <1>1, <2>1
    <3>2. h[n - 1] \in G
      BY <1>4, <3>1 DEF Computed
    <3>3. h[n] = step[n][h[n - 1]]
      BY <1>4, <3>1, Zenon DEF Computed
    <3> QED BY <3>1, <3>2, <3>3
  <2> HIDE DEF b, T, step, x
  <2>2. h \in [0 .. b -> G] /\ h[0] = x
    BY <1>4 DEF Computed
  <2> QED BY <2>1, <2>2
<1> DEFINE f == CHOOSE f : Shape(f)
<1>6. Paths!Replaced(str, find, by) = f[b].written
  BY DEF Paths!Replaced, Paths!ReplaceTurns, turn
<1>7. Shape(f)
  <2> HIDE DEF Shape
  <2> QED BY <1>5
<1> HIDE DEF f
<1>8. f[b] \in Late(b)
  <2> DEFINE S == {n \in 0 .. b : f[n] \in Late(n)}
  <2>1. 0 \in S
    BY <1>1, <1>3, <1>7
  <2>2. ASSUME NEW n \in 0 .. b - 1, n \in S PROVE n + 1 \in S
    <3>1. n + 1 \in 0 .. b /\ n + 1 # 0 /\ (n + 1) - 1 = n /\ n + 1 \in 1 .. b
      BY <1>1
    <3>2. f[n] \in Late((n + 1) - 1)
      BY <2>2, <3>1
    <3>3. f[n + 1] = turn(f[n])
      <4> HIDE DEF x
      <4> QED BY <1>7, <3>1
    <3> HIDE DEF Late
    <3>4. f[n + 1] \in Late(n + 1)
      BY <1>2, <3>1, <3>2, <3>3
    <3> QED BY <3>1, <3>4
  <2>3. 0 \in Int /\ b \in Int /\ b \in 0 .. b /\ \A n \in 0 .. b - 1 : n \in S => n + 1 \in S
    BY <1>1, <2>2
  <2> HIDE DEF S, b
  <2>4. b \in S
    BY <2>1, <2>3, IntervalInduction
  <2> QED BY <2>4 DEF S
<1> QED BY <1>1, <1>6, <1>8

--------------------------------------------------------------------------------
(* With slashes only, a path is as long as before.                            *)
LEMMA SlashedShape ==
  ASSUME path \in Strings
  PROVE  /\ Len(path) \in Nat /\ Paths!Slashed \in Strings /\ Len(Paths!Slashed) = Len(path)
         /\ Paths!Slashed \in [1 .. Len(path) -> PathChars]
         /\ \A i \in 1 .. Len(path) :
              Paths!Slashed[i] = IF path[i] = "\\" THEN "/" ELSE path[i]
<1> DEFINE b == Len(path)
           s == [i \in 1 .. b |-> IF path[i] = "\\" THEN "/" ELSE path[i]]
<1>1. b \in Nat /\ DOMAIN path = 1 .. b /\ \A i \in 1 .. b : path[i] \in PathChars
  BY DEF Strings
<1>2. Paths!Slashed = s
  BY <1>1, Zenon DEF Paths!Slashed
<1>3. \A i \in 1 .. b : s[i] \in PathChars
  BY <1>1 DEF PathChars
<1>4. s \in Seq(PathChars) /\ Len(s) = b
  <2> HIDE DEF b
  <2> QED BY <1>1, <1>3
<1> QED BY <1>1, <1>2, <1>3, <1>4 DEF Strings

(* The characters that stay, up to each position.                             *)
LEMMA KeptShape ==
  ASSUME path \in Strings
  PROVE  /\ Paths!KeptTo[0] = << >>
         /\ \A n \in 1 .. Len(path) :
              Paths!KeptTo[n] = IF Paths!IsDropped(n) THEN Paths!KeptTo[n - 1]
                                ELSE Append(Paths!KeptTo[n - 1], Paths!Slashed[n])
         /\ \A n \in 0 .. Len(path) : Paths!KeptTo[n] \in UpToLong(PathChars, n)
<1> DEFINE b == Len(path)
           K == {n \in 1 .. b : ~Paths!IsDropped(n)}
           e == Paths!Slashed
           Shape(f) == f = [n \in 0 .. b |-> IF n = 0 THEN << >>
                              ELSE IF Paths!IsDropped(n) THEN f[n - 1]
                              ELSE Append(f[n - 1], Paths!Slashed[n])]
           f == CHOOSE f : Shape(f)
<1>1. b \in Nat /\ e \in [1 .. b -> PathChars]
  BY SlashedShape
<1>2. \A n \in 0 .. b : n # 0 => e[n] = Paths!Slashed[n] /\ (n \in K <=> ~Paths!IsDropped(n))
  BY <1>1
<1>5. Paths!KeptTo = f
  BY DEF Paths!KeptTo
<1> HIDE DEF K, e, b
<1>3. ASSUME NEW g PROVE Gathers(g, K, e, b) <=> Shape(g)
  BY <1>2 DEF Gathers
<1>4. \E g : Shape(g)
  BY <1>1, <1>3, GatherExists, Zenon
<1>6. Gathers(f, K, e, b)
  <2>1. Shape(f)
    <3> HIDE DEF Shape
    <3> QED BY <1>4
  <2> QED BY <1>3, <2>1, Zenon
<1> HIDE DEF f
<1>7. /\ f[0] = << >>
      /\ \A n \in 1 .. b : f[n] = IF n \in K THEN Append(f[n - 1], e[n]) ELSE f[n - 1]
      /\ \A n \in 0 .. b : f[n] \in UpToLong(PathChars, n)
  BY <1>1, <1>6, GatherShape, Zenon
<1>8. \A n \in 1 .. b : n \in 0 .. b /\ n # 0
  BY <1>1
<1> QED BY <1>2, <1>5, <1>7, <1>8, Zenon DEF b

(* The matches of a pattern are finitely many.                                *)
LEMMA MatchesShape ==
  ASSUME NEW str \in Strings, NEW find \in Strings
  PROVE  /\ IsFiniteSet(Paths!Matches(str, find))
         /\ Paths!Count(str, find) \in Nat
         /\ Paths!Count(str, find) = Cardinality(Paths!Matches(str, find))
         /\ Paths!Count(str, find) = 0 <=> Paths!Matches(str, find) = {}
         /\ \A i : i \in Paths!Matches(str, find) <=> i \in Nat /\ Paths!IsAt(str, find, i)
<1> DEFINE c == Len(str) - Len(find)
           M == {i \in 0 .. c : Paths!IsAt(str, find, i)}
<1>1. Len(str) \in Nat /\ Len(find) \in Nat /\ c \in Int
  BY DEF Strings
<1>2. Paths!Matches(str, find) = M
  BY Zenon DEF Paths!Matches
<1>3. M \in SUBSET (0 .. c) /\ IsFiniteSet(0 .. c)
  <2>1. IsFiniteSet(0 .. c)
    <3> HIDE DEF c
    <3> QED BY <1>1, FS_Interval
  <2> QED BY <2>1
<1>4. IsFiniteSet(M)
  <2> HIDE DEF M, c
  <2> QED BY <1>3, FS_Subset, Zenon
<1>5. Cardinality(M) \in Nat /\ (Cardinality(M) = 0 <=> M = {})
  BY <1>4, FS_CardinalityType, FS_EmptySet, Zenon
<1>6. ASSUME NEW i PROVE i \in M <=> i \in Nat /\ Paths!IsAt(str, find, i)
  <2>1. i \in Nat /\ Paths!IsAt(str, find, i) => i + Len(find) <= Len(str)
    BY Zenon DEF Paths!IsAt
  <2> QED BY <1>1, <2>1
<1> HIDE DEF M
<1>7. Paths!Count(str, find) = Cardinality(M)
  <2>1. Paths!Cardinality(M) = Cardinality(M)
    BY Zenon DEF Paths!Cardinality, Cardinality
  <2> QED BY <1>2, <2>1, Zenon DEF Paths!Count
<1> QED BY <1>2, <1>4, <1>5, <1>6, <1>7

(* A block that is full holds what was written.                               *)
LEMMA FullBlock ==
  ASSUME NEW w \in Strings
  PROVE  Paths!Content(Paths!Block(Len(w), w)) = w
<1>1. SubSeq(w, 1, Len(w)) = w
  BY DEF Strings
<1> QED BY <1>1 DEF Paths!Content, Paths!Block

(* str_replaceAll with "\" and "/": the size is the same, every backslash is  *)
(* a slash.                                                                  *)
LEMMA SlashesFixed ==
  ASSUME path \in Strings
  PROVE  Paths!ReplaceAll(Paths!Block(Len(path), path), <<"\\">>, <<"/">>)
           = Paths!Block(Len(path), Paths!Slashed)
<1> DEFINE L == Len(path)
           s == Paths!Slashed
           F == <<"\\">>
           Begins(w, n) == Len(w) = n /\ \A i \in 1 .. n : w[i] = s[i]
           G == {t \in Written : t.pos <= L /\ Begins(t.written, t.pos)}
<1>1. /\ L \in Nat /\ s \in Strings /\ Len(s) = L
      /\ \A i \in 1 .. L : s[i] = (IF path[i] = "\\" THEN "/" ELSE path[i]) /\ s[i] \in PathChars
  BY SlashedShape, Zenon DEF Strings
<1>2. F \in Strings /\ Len(F) = 1 /\ F # << >> /\ F[1] = "\\"
  BY DEF Strings, PathChars
<1> HIDE DEF F, s, L
<1>3. ASSUME NEW i \in Nat PROVE Paths!IsAt(path, F, i) <=> i + 1 <= L /\ path[i + 1] = "\\"
  <2>1. Paths!IsAt(path, F, i) <=> i + 1 <= L /\ \A j \in 1 .. 1 : path[i + j] = F[j]
    <3>1. Paths!IsAt(path, F, i) <=> i + Len(F) <= L /\ \A j \in 1 .. Len(F) : path[i + j] = F[j]
      BY <1>2, MatchIs, Zenon DEF L
    <3> QED BY <1>2, <3>1, Zenon
  <2>2. 1 .. 1 = {1}
    OBVIOUS
  <2> QED BY <1>2, <2>1, <2>2, Zenon
<1>4. ASSUME NEW t \in G, t.pos # L
      PROVE  LET u == Paths!ReplaceTurn(path, F, <<"/">>, t)
             IN  u \in G /\ u.pos > t.pos
  <2> DEFINE n == t.pos
             w == t.written
             v == Append(w, s[n + 1])
             u == Paths!ReplaceTurn(path, F, <<"/">>, t)
  <2>1. n \in Nat /\ w \in Strings /\ n <= L /\ Begins(w, n)
    BY DEF Written
  <2>2. n + 1 \in 1 .. L /\ n + 1 <= L /\ n + 1 > n
    BY <1>1, <1>4, <2>1
  <2>3. u = [pos |-> n + 1, written |-> v]
    <3>1. CASE path[n + 1] = "\\"
      <4>1. s[n + 1] = "/" /\ Paths!IsAt(path, F, n)
        BY <1>1, <1>3, <2>1, <2>2, <3>1
      <4>2. w \o <<"/">> = Append(w, "/")
        BY <2>1 DEF Strings
      <4> QED BY <1>2, <1>4, <4>1, <4>2 DEF Paths!ReplaceTurn, L
    <3>2. CASE path[n + 1] # "\\"
      <4>1. s[n + 1] = path[n + 1] /\ ~Paths!IsAt(path, F, n)
        BY <1>1, <1>3, <2>1, <2>2, <3>2
      <4> QED BY <1>4, <4>1, Zenon DEF Paths!ReplaceTurn, L
    <3> QED BY <3>1, <3>2
  <2>4. v \in Strings /\ Begins(v, n + 1)
    <3>1. w \in Seq(PathChars) /\ s[n + 1] \in PathChars /\ Len(w) = n
      BY <1>1, <2>1, <2>2 DEF Strings
    <3>2. v \in Seq(PathChars) /\ Len(v) = n + 1 /\ v[n + 1] = s[n + 1]
          /\ \A i \in 1 .. n : v[i] = w[i]
      BY <3>1
    <3>3. \A i \in 1 .. n + 1 : i = n + 1 \/ i \in 1 .. n
      BY <2>1
    <3> HIDE DEF v, w
    <3>4. \A i \in 1 .. n + 1 : v[i] = s[i]
      BY <2>1, <3>2, <3>3, Zenon
    <3> QED BY <3>2, <3>4, Zenon DEF Strings
  <2> HIDE DEF v
  <2>5. [pos |-> n + 1, written |-> v] \in G
    <3>1. [pos |-> n + 1, written |-> v] \in Written
      BY <2>1, <2>4 DEF Written
    <3> QED BY <2>2, <2>4, <3>1
  <2> QED BY <2>2, <2>3, <2>5
<1>5. [pos |-> 0, written |-> << >>] \in G
  BY <1>1 DEF Written, Strings
<1>6. Paths!Replaced(path, F, <<"/">>) = s
  <2>1. \E t \in G : t.pos = L /\ t.written = Paths!Replaced(path, F, <<"/">>)
    <3>1. G \in SUBSET Written /\ \A t \in G : t.pos <= L
      OBVIOUS
    <3> HIDE DEF G
    <3> QED BY <1>4, <1>5, <3>1, ReplaceLoop DEF L
  <2>2. PICK t \in G : t.pos = L /\ t.written = Paths!Replaced(path, F, <<"/">>)
    BY <2>1
  <2>3. t.written \in Strings /\ Begins(t.written, L)
    BY <2>2 DEF Written
  <2> QED BY <1>1, <2>2, <2>3 DEF Strings
<1> DEFINE c == Paths!Count(path, F)
<1>7. c \in Nat /\ (c = 0 => s = path)
  <2>1. c \in Nat /\ (c = 0 => \A i \in Nat : ~Paths!IsAt(path, F, i))
    BY <1>2, MatchesShape, Zenon
  <2>2. ASSUME \A i \in Nat : ~Paths!IsAt(path, F, i) PROVE s = path
    <3>1. ASSUME NEW i \in 1 .. L PROVE s[i] = path[i]
      <4>1. i - 1 \in Nat /\ (i - 1) + 1 = i /\ i <= L
        BY <1>1
      <4>2. path[i] # "\\"
        BY <1>3, <2>2, <4>1
      <4> QED BY <1>1, <4>2
    <3> QED BY <1>1, <3>1 DEF Strings, L
  <2> QED BY <2>1, <2>2
<1> HIDE DEF c
<1>8. L - c * Len(F) + c * Len(<<"/">>) = L
  <2>1. Len(F) = 1 /\ Len(<<"/">>) = 1
    BY <1>2
  <2>2. L - c * 1 + c * 1 = L
    BY <1>1, <1>7
  <2> QED BY <2>1, <2>2
<1>9. Paths!Content(Paths!Block(L, path)) = path
  BY FullBlock DEF L
<1>10. Paths!ReplaceAll(Paths!Block(L, path), F, <<"/">>)
         = IF c = 0 THEN Paths!Block(L, path)
           ELSE Paths!Block(L - c * Len(F) + c * Len(<<"/">>), Paths!Replaced(path, F, <<"/">>))
  BY <1>2, <1>9, Zenon DEF Paths!ReplaceAll, c, L
<1> QED BY <1>6, <1>7, <1>8, <1>10 DEF F, s, L

--------------------------------------------------------------------------------
(* A "/./" of the path with slashes, and how many begin before a position.    *)
DotSlash == <<"/", ".", "/">>
Here(i) == Paths!IsAt(Paths!Slashed, DotSlash, i)
Before(n) == {m \in Paths!Matches(Paths!Slashed, DotSlash) : m < n}

LEMMA HereIs ==
  ASSUME path \in Strings, NEW i \in Nat
  PROVE  Here(i) <=> /\ i + 3 <= Len(path)
                     /\ Paths!Slashed[i + 1] = "/"
                     /\ Paths!Slashed[i + 2] = "."
                     /\ Paths!Slashed[i + 3] = "/"
<1> DEFINE s == Paths!Slashed
           D == DotSlash
<1>1. D \in Strings /\ Len(D) = 3 /\ D[1] = "/" /\ D[2] = "." /\ D[3] = "/"
  BY DEF DotSlash, Strings, PathChars
<1>2. s \in Strings /\ Len(s) = Len(path)
  BY SlashedShape, Zenon
<1> HIDE DEF s, D
<1>3. Paths!IsAt(s, D, i) <=> i + Len(D) <= Len(s) /\ \A j \in 1 .. Len(D) : s[i + j] = D[j]
  BY <1>1, <1>2, MatchIs, Zenon
<1>4. 1 .. 3 = {1, 2, 3}
  OBVIOUS
<1>5. Paths!IsAt(s, D, i) <=> /\ i + 3 <= Len(path)
                              /\ s[i + 1] = "/" /\ s[i + 2] = "." /\ s[i + 3] = "/"
  BY <1>1, <1>2, <1>3, <1>4, Zenon
<1> QED BY <1>5 DEF Here, s, D

(* What it means that ".." is not found,                                      *)
LEMMA NoParentsShape ==
  ASSUME path \in Strings, Paths!NoParents
  PROVE  \A i \in Nat : i + 2 <= Len(path) =>
           ~(Paths!Slashed[i + 1] = "." /\ Paths!Slashed[i + 2] = ".")
<1> DEFINE s == Paths!Slashed
           P == <<".", ".">>
<1>1. s \in Strings /\ Len(s) = Len(path) /\ Len(path) \in Nat
  BY SlashedShape, Zenon
<1>2. P \in Strings /\ P # << >> /\ Len(P) = 2 /\ P[1] = "." /\ P[2] = "."
  BY DEF Strings, PathChars
<1>3. Paths!FindFirst(s, P, 0) = Len(s)
  BY <1>1 DEF Paths!NoParents
<1> HIDE DEF s, P
<1>4. ASSUME NEW i \in Nat, i + 2 <= Len(path), s[i + 1] = ".", s[i + 2] = "." PROVE FALSE
  <2>1. ~Paths!IsAt(s, P, i)
    BY <1>1, <1>2, <1>3, NotFound, Zenon
  <2>2. 1 .. 2 = {1, 2}
    OBVIOUS
  <2>3. \A j \in 1 .. Len(P) : s[i + j] = P[j]
    BY <1>2, <1>4, <2>2, Zenon
  <2>4. Paths!IsAt(s, P, i) <=> i + Len(P) <= Len(s) /\ \A j \in 1 .. Len(P) : s[i + j] = P[j]
    BY <1>1, <1>2, MatchIs, Zenon
  <2> QED BY <1>1, <1>2, <1>4, <2>1, <2>3, <2>4, Zenon
<1> QED BY <1>4 DEF s

(* and that no two "/./" overlap.                                             *)
LEMMA ApartShape ==
  ASSUME path \in Strings, Paths!Apart
  PROVE  \A i \in Nat : Here(i) => ~Here(i + 1) /\ ~Here(i + 2)
<1> DEFINE s == Paths!Slashed
           Q == <<"/", ".", "/", ".", "/">>
<1>1. s \in Strings /\ Len(s) = Len(path) /\ Len(path) \in Nat
  BY SlashedShape, Zenon
<1>3. Q \in Strings /\ Q # << >> /\ Len(Q) = 5 /\ Q[1] = "/" /\ Q[2] = "." /\ Q[3] = "/"
      /\ Q[4] = "." /\ Q[5] = "/"
  BY DEF Strings, PathChars
<1>4. Paths!FindFirst(s, Q, 0) = Len(s)
  BY <1>1 DEF Paths!Apart
<1> HIDE DEF s, Q
<1>6. ASSUME NEW i \in Nat, Here(i), Here(i + 2) PROVE FALSE
  <2>1. ~Paths!IsAt(s, Q, i)
    BY <1>1, <1>3, <1>4, NotFound, Zenon
  <2>2. 1 .. 5 = {1, 2, 3, 4, 5}
    OBVIOUS
  <2>3. i + 2 \in Nat /\ (i + 2) + 3 = i + 5 /\ (i + 2) + 2 = i + 4 /\ (i + 2) + 1 = i + 3
    OBVIOUS
  <2>4. s[i + 1] = "/" /\ s[i + 2] = "." /\ s[i + 3] = "/"
    BY <1>6, HereIs, Zenon DEF s
  <2>5. i + 5 <= Len(path) /\ s[i + 4] = "." /\ s[i + 5] = "/"
    <3>1. /\ (i + 2) + 3 <= Len(path)
          /\ s[(i + 2) + 2] = "." /\ s[(i + 2) + 3] = "/"
      BY <1>6, <2>3, HereIs, Zenon DEF s
    <3> QED BY <2>3, <3>1, Zenon
  <2>6. \A j \in 1 .. Len(Q) : s[i + j] = Q[j]
    BY <1>3, <2>2, <2>4, <2>5, Zenon
  <2>7. Paths!IsAt(s, Q, i) <=> i + Len(Q) <= Len(s) /\ \A j \in 1 .. Len(Q) : s[i + j] = Q[j]
    BY <1>1, <1>3, MatchIs, Zenon
  <2> QED BY <1>1, <1>3, <2>1, <2>5, <2>6, <2>7, Zenon
<1>7. ASSUME NEW i \in Nat, Here(i) PROVE ~Here(i + 1)
  <2>1. i + 1 \in Nat /\ (i + 1) + 1 = i + 2
    OBVIOUS
  <2>2. Here(i + 1) => s[(i + 1) + 1] = "/"
    BY <2>1, HereIs, Zenon DEF s
  <2>3. s[i + 2] = "."
    BY <1>7, HereIs, Zenon DEF s
  <2> QED BY <2>1, <2>2, <2>3
<1> QED BY <1>6, <1>7

(* Counting the "/./": one that is passed counts once.                        *)
LEMMA BeforeShape ==
  ASSUME path \in Strings, NEW n \in Nat
  PROVE  /\ IsFiniteSet(Before(n)) /\ Cardinality(Before(n)) \in Nat
         /\ Cardinality(Before(0)) = 0
         /\ ~Here(n) => Before(n + 1) = Before(n)
         /\ Here(n) /\ ~Here(n + 1) /\ ~Here(n + 2) =>
              Cardinality(Before(n + 3)) = Cardinality(Before(n)) + 1
<1> DEFINE M == Paths!Matches(Paths!Slashed, DotSlash)
<1>1. /\ IsFiniteSet(M)
      /\ \A i : i \in M <=> i \in Nat /\ Here(i)
  <2>1. Paths!Slashed \in Strings /\ DotSlash \in Strings
    BY SlashedShape DEF DotSlash, Strings, PathChars
  <2> QED BY <2>1, MatchesShape, Zenon DEF Here
<1>2. \A k : Before(k) = {m \in M : m < k}
  BY DEF Before
<1> HIDE DEF M
<1>3. \A k : Before(k) \in SUBSET M
  BY <1>2
<1>4. \A k : IsFiniteSet(Before(k)) /\ Cardinality(Before(k)) \in Nat
  BY <1>1, <1>3, FS_Subset, FS_CardinalityType, Zenon
<1>5. Before(0) = {}
  BY <1>1, <1>2
<1>6. Cardinality(Before(0)) = 0
  BY <1>5, FS_EmptySet
<1>7. ASSUME ~Here(n) PROVE Before(n + 1) = Before(n)
  <2>1. \A m \in M : m < n + 1 <=> m < n
    BY <1>1, <1>7
  <2> QED BY <1>2, <2>1
<1>8. ASSUME Here(n), ~Here(n + 1), ~Here(n + 2)
      PROVE  Cardinality(Before(n + 3)) = Cardinality(Before(n)) + 1
  <2>1. n \in M /\ n + 1 \notin M /\ n + 2 \notin M
    BY <1>1, <1>8
  <2>2. \A m \in M : m \in Nat
    BY <1>1
  <2>3. \A m \in M : m < n + 3 <=> m < n \/ m = n
    BY <2>1, <2>2
  <2>4. Before(n + 3) = Before(n) \cup {n} /\ n \notin Before(n)
    <3>1. Before(n + 3) = {m \in M : m < n + 3} /\ Before(n) = {m \in M : m < n}
      BY <1>2, Zenon
    <3>2. ~(n < n)
      OBVIOUS
    <3> QED BY <2>1, <2>3, <3>1, <3>2, Zenon
  <2> QED BY <1>4, <2>4, FS_AddElement, Zenon
<1> QED BY <1>4, <1>6, <1>7, <1>8

--------------------------------------------------------------------------------
(* A text without "..", and that its last character is this one, if any.      *)
NoDots(w) == \A i \in 1 .. Len(w) - 1 : ~(w[i] = "." /\ w[i + 1] = ".")
EndsIn(w, s, n) == Len(w) = 0 \/ w[Len(w)] = s[n]

LEMMA Longer ==
  ASSUME NEW w \in Strings, NEW ch \in PathChars
  PROVE  /\ Append(w, ch) \in Strings /\ Len(Append(w, ch)) = Len(w) + 1
         /\ Append(w, ch)[Len(w) + 1] = ch
         /\ NoDots(w) /\ (Len(w) = 0 \/ ~(w[Len(w)] = "." /\ ch = ".")) =>
              NoDots(Append(w, ch))
<1> DEFINE v == Append(w, ch)
           n == Len(w)
<1>1. w \in Seq(PathChars) /\ n \in Nat
  BY DEF Strings
<1>2. v \in Seq(PathChars) /\ Len(v) = n + 1 /\ v[n + 1] = ch /\ \A i \in 1 .. n : v[i] = w[i]
  BY <1>1
<1> HIDE DEF v
<1>3. ASSUME NoDots(w), n = 0 \/ ~(w[n] = "." /\ ch = "."), NEW i \in 1 .. Len(v) - 1
      PROVE  ~(v[i] = "." /\ v[i + 1] = ".")
  <2>1. i \in 1 .. n
    BY <1>1, <1>2
  <2>2. CASE i = n
    <3>1. v[i] = w[n] /\ v[i + 1] = ch /\ n # 0
      BY <1>2, <2>1, <2>2
    <3> QED BY <1>3, <3>1
  <2>3. CASE i # n
    <3>1. i \in 1 .. n - 1 /\ i + 1 \in 1 .. n
      BY <1>1, <2>1, <2>3
    <3> QED BY <1>2, <1>3, <2>1, <3>1 DEF NoDots
  <2> QED BY <2>2, <2>3
<1> QED BY <1>2, <1>3 DEF Strings, NoDots, v

(* The loop of str_replaceAll for "/./" if no two overlap: what is written so *)
(* far is what stays, two characters shorter for each match, and no match     *)
(* reaches behind the position; and ".." is not made where none was.          *)
DotTurns ==
  {t \in Written :
     LET n == t.pos
         w == t.written
     IN  /\ n <= Len(path) /\ w = Paths!KeptTo[n]
         /\ Len(w) = n - 2 * Cardinality(Before(n))
         /\ (Paths!NoParents => NoDots(w)) /\ EndsIn(w, Paths!Slashed, n)
         /\ \A i \in Nat : i + 1 = n \/ i + 2 = n => ~Here(i)}

(* A turn without a match copies a character that stays.                      *)
LEMMA DotCopied ==
  ASSUME path \in Strings, Paths!Apart, NEW t \in DotTurns, t.pos # Len(path), ~Here(t.pos)
  PROVE  [pos |-> t.pos + 1, written |-> Append(t.written, Paths!Slashed[t.pos + 1])] \in DotTurns
<1> DEFINE n == t.pos
           w == t.written
           s == Paths!Slashed
           v == Append(w, s[n + 1])
           L == Len(path)
           c == Cardinality(Before(n))
<1>1. /\ n \in Nat /\ w \in Strings /\ n <= L /\ w = Paths!KeptTo[n]
      /\ Len(w) = n - 2 * c /\ (Paths!NoParents => NoDots(w)) /\ EndsIn(w, s, n)
      /\ \A i \in Nat : i + 1 = n \/ i + 2 = n => ~Here(i)
  BY DEF DotTurns, Written
<1>2. /\ L \in Nat /\ \A i \in 1 .. L : s[i] \in PathChars
  BY SlashedShape, Zenon
<1>3. n + 1 \in 1 .. L /\ n + 1 <= L /\ (n + 1) - 1 = n /\ n + 1 \in Nat
  <2> HIDE DEF n, L
  <2> QED BY <1>1, <1>2 DEF n, L
<1>4. ~Paths!IsDropped(n + 1)
  <2>1. ~Paths!IsAt(s, DotSlash, (n + 1) - 1)
    BY <1>3 DEF Here
  <2>2. n + 1 > 1 => ~Paths!IsAt(s, DotSlash, (n + 1) - 2)
    <3>1. n + 1 > 1 => (n + 1) - 2 \in Nat /\ ((n + 1) - 2) + 1 = n
      BY <1>1
    <3> QED BY <1>1, <3>1, Zenon DEF Here
  <2> QED BY <2>1, <2>2, Zenon DEF Paths!IsDropped, DotSlash
<1>5. v = Paths!KeptTo[n + 1]
  BY <1>1, <1>3, <1>4, KeptShape, Zenon
<1>6. ASSUME Paths!NoParents PROVE Len(w) = 0 \/ ~(w[Len(w)] = "." /\ s[n + 1] = ".")
  <2>1. CASE n = 0
    <3>1. w = << >>
      BY <1>1, <2>1, KeptShape, Zenon
    <3> QED BY <3>1
  <2>2. CASE n # 0
    <3>1. n - 1 \in Nat /\ (n - 1) + 2 = n + 1 /\ (n - 1) + 1 = n
      BY <1>1, <2>2
    <3>2. ~(s[n] = "." /\ s[n + 1] = ".")
      BY <1>3, <1>6, <3>1, NoParentsShape, Zenon
    <3> QED BY <1>1, <3>2, Zenon DEF EndsIn
  <2> QED BY <2>1, <2>2
<1>7. /\ v \in Strings /\ Len(v) = Len(w) + 1 /\ v[Len(v)] = s[n + 1]
      /\ Paths!NoParents => NoDots(v)
  <2>1. s[n + 1] \in PathChars
    BY <1>2, <1>3, Zenon
  <2>2. /\ v \in Strings /\ Len(v) = Len(w) + 1 /\ v[Len(w) + 1] = s[n + 1]
        /\ Paths!NoParents => NoDots(v)
    <3> HIDE DEF n, w, s
    <3> QED BY <1>1, <1>6, <2>1, Longer, Zenon DEF v
  <2> QED BY <2>2, Zenon
<1> HIDE DEF v
<1>8. Len(v) = (n + 1) - 2 * Cardinality(Before(n + 1))
  <2>1. c \in Nat /\ Cardinality(Before(n + 1)) = c
    BY <1>1, BeforeShape, Zenon
  <2> HIDE DEF c, n, w
  <2> QED BY <1>1, <1>7, <2>1
<1>9. \A i \in Nat : i + 1 = n + 1 \/ i + 2 = n + 1 => ~Here(i)
  <2>1. \A i \in Nat : (i + 1 = n + 1 => i = n) /\ (i + 2 = n + 1 => i + 1 = n)
    BY <1>1
  <2> QED BY <1>1, <2>1, Zenon
<1> DEFINE u == [pos |-> n + 1, written |-> v]
<1>10. u \in Written /\ u.pos = n + 1 /\ u.written = v
  BY <1>3, <1>7 DEF Written
<1> HIDE DEF u
<1>11. u \in DotTurns
  BY <1>3, <1>5, <1>7, <1>8, <1>9, <1>10, Zenon DEF DotTurns, EndsIn
<1> QED BY <1>11 DEF u, v

(* A turn with a match leaves the "/." out and writes the "/".                *)
LEMMA DotReplaced ==
  ASSUME path \in Strings, Paths!Apart, NEW t \in DotTurns, Here(t.pos)
  PROVE  [pos |-> t.pos + 3, written |-> Append(t.written, "/")] \in DotTurns
<1> DEFINE n == t.pos
           w == t.written
           s == Paths!Slashed
           v == Append(w, "/")
           L == Len(path)
           c == Cardinality(Before(n))
<1>1. /\ n \in Nat /\ w \in Strings /\ n <= L /\ w = Paths!KeptTo[n]
      /\ Len(w) = n - 2 * c /\ (Paths!NoParents => NoDots(w))
  BY DEF DotTurns, Written
<1>2. L \in Nat
  BY SlashedShape, Zenon
<1>3. n + 3 <= L /\ s[n + 3] = "/" /\ ~Here(n + 1) /\ ~Here(n + 2)
  BY <1>1, HereIs, ApartShape, Zenon
<1>4. /\ n + 1 \in 1 .. L /\ n + 2 \in 1 .. L /\ n + 3 \in 1 .. L /\ n + 3 \in Nat
      /\ (n + 1) - 1 = n /\ (n + 2) - 1 = n + 1 /\ (n + 3) - 1 = n + 2
      /\ (n + 2) - 2 = n /\ (n + 3) - 2 = n + 1 /\ n + 2 > 1
  <2>1. n \in Nat /\ n + 3 <= L /\ L \in Nat
    BY <1>1, <1>2, <1>3
  <2> HIDE DEF n, L
  <2> QED BY <2>1
<1>5. Paths!IsDropped(n + 1) /\ Paths!IsDropped(n + 2) /\ ~Paths!IsDropped(n + 3)
  <2>1. \A i : Paths!IsDropped(i) <=> Here(i - 1) \/ (i > 1 /\ Here(i - 2))
    BY Zenon DEF Paths!IsDropped, Here, DotSlash
  <2>2. Here((n + 1) - 1) /\ Here((n + 2) - 2) /\ ~Here((n + 3) - 1) /\ ~Here((n + 3) - 2)
    BY <1>3, <1>4, Zenon
  <2> QED BY <1>4, <2>1, <2>2, Zenon
<1>6. v = Paths!KeptTo[n + 3]
  <2>1. Paths!KeptTo[n + 1] = w
    BY <1>1, <1>4, <1>5, KeptShape, Zenon
  <2>2. Paths!KeptTo[n + 2] = w
    BY <1>4, <1>5, <2>1, KeptShape, Zenon
  <2> QED BY <1>3, <1>4, <1>5, <2>2, KeptShape, Zenon
<1>7. /\ v \in Strings /\ Len(v) = Len(w) + 1 /\ v[Len(v)] = s[n + 3]
      /\ Paths!NoParents => NoDots(v)
  <2>1. "/" \in PathChars /\ "/" # "."
    BY DEF PathChars
  <2>2. /\ v \in Strings /\ Len(v) = Len(w) + 1 /\ v[Len(w) + 1] = "/"
        /\ Paths!NoParents => NoDots(v)
    <3> HIDE DEF n, w, s
    <3> QED BY <1>1, <2>1, Longer, Zenon DEF v
  <2> QED BY <1>3, <2>2, Zenon
<1> HIDE DEF v
<1>8. Len(v) = (n + 3) - 2 * Cardinality(Before(n + 3))
  <2>1. c \in Nat /\ Cardinality(Before(n + 3)) = c + 1
    BY <1>1, <1>3, BeforeShape, Zenon
  <2> HIDE DEF c, n, w
  <2> QED BY <1>1, <1>7, <2>1
<1>9. \A i \in Nat : i + 1 = n + 3 \/ i + 2 = n + 3 => ~Here(i)
  <2>1. \A i \in Nat : (i + 1 = n + 3 => i = n + 2) /\ (i + 2 = n + 3 => i = n + 1)
    <3>1. n \in Nat
      BY <1>1
    <3> HIDE DEF n
    <3> QED BY <3>1
  <2> QED BY <1>3, <2>1, Zenon
<1> DEFINE u == [pos |-> n + 3, written |-> v]
<1>10. u \in Written /\ u.pos = n + 3 /\ u.written = v
  BY <1>4, <1>7 DEF Written
<1> HIDE DEF u
<1>11. u \in DotTurns
  BY <1>3, <1>6, <1>7, <1>8, <1>9, <1>10, Zenon DEF DotTurns, EndsIn
<1> QED BY <1>11 DEF u, v

(* If no character is dropped, all stay.                                      *)
LEMMA KeptWhole ==
  ASSUME path \in Strings, \A n \in 1 .. Len(path) : ~Paths!IsDropped(n)
  PROVE  Paths!Kept = Paths!Slashed
<1> DEFINE L == Len(path)
           s == Paths!Slashed
           w == Paths!KeptTo[L]
           S == {n \in 0 .. L : Len(Paths!KeptTo[n]) = n
                                 /\ \A i \in 1 .. n : Paths!KeptTo[n][i] = s[i]}
<1>1. L \in Nat /\ s \in Strings /\ Len(s) = L /\ s \in [1 .. L -> PathChars]
  BY SlashedShape, Zenon
<1>2. w \in Strings
  <2>1. L \in 0 .. L
    BY <1>1
  <2> QED BY <2>1, KeptShape DEF UpToLong, Strings
<1>3. 0 \in S
  BY <1>1, KeptShape
<1>4. ASSUME NEW n \in 0 .. L - 1, n \in S PROVE n + 1 \in S
  <2> DEFINE q == Paths!KeptTo[n]
  <2>1. n + 1 \in 1 .. L /\ n + 1 \in 0 .. L /\ n \in 0 .. L /\ (n + 1) - 1 = n
    BY <1>1
  <2>2. q \in Seq(PathChars) /\ s[n + 1] \in PathChars
    BY <1>1, <2>1, KeptShape DEF UpToLong
  <2>3. Paths!KeptTo[n + 1] = Append(q, s[n + 1])
    BY <2>1, KeptShape, Zenon
  <2>4. Len(q) = n /\ \A i \in 1 .. n : q[i] = s[i]
    BY <1>4
  <2> HIDE DEF q
  <2>5. Len(Append(q, s[n + 1])) = n + 1
        /\ \A i \in 1 .. n + 1 : Append(q, s[n + 1])[i] = s[i]
    BY <1>1, <2>2, <2>4
  <2> QED BY <2>1, <2>3, <2>5
<1>5. L \in S
  <2>1. 0 \in Int /\ L \in Int /\ L \in 0 .. L /\ \A n \in 0 .. L - 1 : n \in S => n + 1 \in S
    BY <1>1, <1>4
  <2> HIDE DEF S, L
  <2> QED BY <1>3, <2>1, IntervalInduction
<1>6. Len(w) = L /\ \A i \in 1 .. L : w[i] = s[i]
  BY <1>5
<1>7. w = s
  <2> HIDE DEF w, s
  <2> QED BY <1>1, <1>2, <1>6 DEF Strings
<1> QED BY <1>7 DEF Paths!Kept

(* If no two "/./" overlap, what str_replaceAll makes of the path are the     *)
(* characters that stay, and they fill the block whose size was computed      *)
(* beforehand.                                                               *)
LEMMA DotsFixed ==
  ASSUME path \in Strings, Paths!Apart
  PROVE  LET w == Paths!Kept
         IN  /\ Paths!ReplaceAll(Paths!Block(Len(path), Paths!Slashed), DotSlash, <<"/">>)
                  = Paths!Block(Len(w), w)
             /\ w \in Strings
             /\ Paths!NoParents => NoDots(w)
<1> DEFINE L == Len(path)
           s == Paths!Slashed
           w == Paths!KeptTo[L]
           M == Paths!Matches(s, DotSlash)
           c == Paths!Count(s, DotSlash)
<1>1. L \in Nat /\ s \in Strings /\ Len(s) = L /\ s \in [1 .. L -> PathChars]
  BY SlashedShape, Zenon
<1>2. DotSlash \in Strings /\ Len(DotSlash) = 3 /\ DotSlash # << >> /\ Len(<<"/">>) = 1
  BY DEF DotSlash, Strings, PathChars
<1>3. /\ c \in Nat /\ c = Cardinality(M) /\ (c = 0 => M = {})
      /\ \A i : i \in M <=> i \in Nat /\ Here(i)
  BY <1>1, <1>2, MatchesShape, Zenon DEF Here
<1> HIDE DEF c, M
<1>4. ASSUME NEW t \in DotTurns, t.pos # L
      PROVE  LET u == Paths!ReplaceTurn(s, DotSlash, <<"/">>, t)
             IN  u \in DotTurns /\ u.pos > t.pos
  <2> DEFINE u == Paths!ReplaceTurn(s, DotSlash, <<"/">>, t)
  <2>1. t.pos \in Nat /\ t.written \in Strings
    BY DEF DotTurns, Written
  <2>2. t.pos + 1 > t.pos /\ t.pos + 3 > t.pos
    BY <2>1
  <2>3. CASE Here(t.pos)
    <3>1. t.written \o <<"/">> = Append(t.written, "/")
      BY <2>1 DEF Strings
    <3>2. u = [pos |-> t.pos + 3, written |-> Append(t.written, "/")]
      BY <1>1, <1>2, <1>4, <2>3, <3>1, Zenon DEF Paths!ReplaceTurn, Here
    <3> QED BY <2>2, <2>3, <3>2, DotReplaced
  <2>4. CASE ~Here(t.pos)
    <3>1. u = [pos |-> t.pos + 1, written |-> Append(t.written, s[t.pos + 1])]
      BY <1>1, <1>4, <2>4, Zenon DEF Paths!ReplaceTurn, Here
    <3> QED BY <1>4, <2>2, <2>4, <3>1, DotCopied
  <2> QED BY <2>3, <2>4
<1>5. [pos |-> 0, written |-> << >>] \in DotTurns
  <2> DEFINE u == [pos |-> 0, written |-> << >>]
  <2>1. u \in Written /\ u.pos = 0 /\ u.written = << >> /\ Len(<< >>) = 0
    BY DEF Written, Strings
  <2>2. Paths!KeptTo[0] = << >> /\ 0 <= L /\ Cardinality(Before(0)) = 0
    BY <1>1, KeptShape, BeforeShape
  <2>3. 0 = 0 - 2 * Cardinality(Before(0))
    BY <2>2
  <2>4. NoDots(<< >>) /\ \A i \in Nat : ~(i + 1 = 0 \/ i + 2 = 0)
    BY DEF NoDots
  <2> HIDE DEF u
  <2>5. /\ u.pos <= L /\ u.written = Paths!KeptTo[u.pos]
        /\ Len(u.written) = u.pos - 2 * Cardinality(Before(u.pos))
    BY <2>1, <2>2, <2>3
  <2>6. /\ NoDots(u.written) /\ Len(u.written) = 0
        /\ \A i \in Nat : ~(i + 1 = u.pos \/ i + 2 = u.pos)
    BY <2>1, <2>4, Zenon
  <2>7. u \in DotTurns
    BY <2>1, <2>5, <2>6, Zenon DEF DotTurns, EndsIn
  <2> QED BY <2>7, Zenon DEF u
<1>6. PICK t \in DotTurns : t.pos = L /\ t.written = Paths!Replaced(s, DotSlash, <<"/">>)
  <2>1. DotTurns \in SUBSET Written /\ \A t \in DotTurns : t.pos <= L
    BY DEF DotTurns
  <2>2. \E t \in DotTurns : t.pos = Len(s) /\ t.written = Paths!Replaced(s, DotSlash, <<"/">>)
    BY <1>1, <1>4, <1>5, <2>1, ReplaceLoop
  <2> QED BY <1>1, <2>2
<1>7. Before(L) = M
  <2>1. \A i \in M : i < L
    <3>1. \A i \in M : i \in Nat /\ i + 3 <= L
      BY <1>3, HereIs, Zenon
    <3> QED BY <1>1, <3>1
  <2> QED BY <2>1 DEF Before, M
<1>8. /\ w \in Strings /\ Len(w) = L - 2 * c /\ (Paths!NoParents => NoDots(w))
      /\ w = Paths!Replaced(s, DotSlash, <<"/">>)
  BY <1>3, <1>6, <1>7, Zenon DEF DotTurns, Written
<1>9. L - c * Len(DotSlash) + c * Len(<<"/">>) = Len(w)
  <2>1. L - c * 3 + c * 1 = L - 2 * c
    BY <1>1, <1>3
  <2> QED BY <1>2, <1>8, <2>1
<1>10. ASSUME c = 0 PROVE w = s
  <2>1. \A i \in Nat : ~Here(i)
    BY <1>3, <1>10
  <2>2. ASSUME NEW n \in 1 .. L PROVE ~Paths!IsDropped(n)
    <3>1. n - 1 \in Nat /\ (n > 1 => n - 2 \in Nat)
      BY <1>1
    <3> QED BY <2>1, <3>1, Zenon DEF Paths!IsDropped, Here, DotSlash
  <2> QED BY <2>2, KeptWhole, Zenon DEF Paths!Kept
<1>11. Paths!Content(Paths!Block(L, s)) = s
  BY <1>1, FullBlock
<1>12. Paths!ReplaceAll(Paths!Block(L, s), DotSlash, <<"/">>)
         = IF c = 0 THEN Paths!Block(L, s)
           ELSE Paths!Block(L - c * Len(DotSlash) + c * Len(<<"/">>),
                            Paths!Replaced(s, DotSlash, <<"/">>))
  BY <1>1, <1>2, <1>11, Zenon DEF Paths!ReplaceAll, c
<1>13. Paths!ReplaceAll(Paths!Block(L, s), DotSlash, <<"/">>) = Paths!Block(Len(w), w)
  BY <1>1, <1>8, <1>9, <1>10, <1>12, Zenon
<1> QED BY <1>8, <1>13, Zenon DEF Paths!Kept

--------------------------------------------------------------------------------
(* Behind each step the block holds what the steps so far make of the path,   *)
(* as long as no ".." was taken out.                                         *)
PathPhases ==
  /\ pathAt = "slashes" => fixed = Paths!Block(Len(path), path)
  /\ pathAt = "dots" => fixed = Paths!Block(Len(path), Paths!Slashed)
  /\ pathAt \notin {"slashes", "dots"} /\ rounds = 0 /\ Paths!Apart
       => fixed = Paths!Block(Len(Paths!Kept), Paths!Kept)

(* None is taken out of a simple path.                                       *)
SimplePhases ==
  /\ rounds = 0
  /\ pathAt = "done" => result = Paths!Kept
  /\ pathAt = "aborted" => \E i \in 1 .. Len(path) : Paths!IsDropped(i)

PathInv ==
  /\ path \in Strings
  /\ pathAt \in {"slashes", "dots", "parents", "done", "aborted"}
  /\ rounds \in Nat
  /\ PathPhases
  /\ Paths!Simple => SimplePhases

PathsInv == part = "path" => PathInv

LEMMA PathInitial == Paths!Init => PathInv
<1> SUFFICES ASSUME Paths!Init PROVE PathInv
  OBVIOUS
<1>1. PICK n \in 2 .. MaxPath : path \in [1 .. n -> Characters]
  BY DEF Paths!Init
<1>2. n \in Nat
  BY PathAssumption
<1>3. path \in Strings
  BY <1>1, <1>2 DEF Strings, PathChars
<1> QED BY <1>3 DEF Paths!Init, PathInv, PathPhases, SimplePhases

(* A simple path has nothing left for the loop that takes out "..".           *)
LEMMA NothingAbove ==
  ASSUME PathInv, Paths!Simple, pathAt = "parents"
  PROVE  /\ Paths!DotDot = fixed.size
         /\ Paths!Content(fixed) = Paths!Kept
         /\ fixed.size = Len(Paths!Kept)
<1> DEFINE w == Paths!Kept
           P == <<".", ".">>
<1>0. path \in Strings /\ rounds = 0 /\ PathPhases /\ Paths!Apart /\ Paths!NoParents
  BY Zenon DEF PathInv, SimplePhases, Paths!Simple
<1>1. w \in Strings /\ NoDots(w)
  BY <1>0, DotsFixed, Zenon
<1> HIDE DEF w
<1>2. fixed = Paths!Block(Len(w), w)
  BY <1>0 DEF PathPhases, w
<1>3. Paths!Content(fixed) = w /\ fixed.size = Len(w)
  BY <1>1, <1>2, FullBlock DEF Paths!Block
<1>4. P \in Strings /\ P # << >> /\ Len(P) = 2 /\ P[1] = "." /\ P[2] = "."
  BY DEF Strings, PathChars
<1> HIDE DEF P
<1>5. ASSUME NEW i \in Nat, Paths!IsAt(w, P, i) PROVE FALSE
  <2>1. i + 2 <= Len(w) /\ \A j \in 1 .. 2 : w[i + j] = P[j]
    <3>1. i + Len(P) <= Len(w) /\ \A j \in 1 .. Len(P) : w[i + j] = P[j]
      BY <1>1, <1>4, <1>5, MatchIs, Zenon
    <3> QED BY <1>4, <3>1
  <2>2. w[i + 1] = "." /\ w[i + 2] = "."
    <3>1. 1 \in 1 .. 2 /\ 2 \in 1 .. 2
      OBVIOUS
    <3> QED BY <1>4, <2>1, <3>1, Zenon
  <2>3. Len(w) \in Nat
    BY <1>1 DEF Strings
  <2>4. i + 1 \in 1 .. Len(w) - 1 /\ (i + 1) + 1 = i + 2
    BY <2>1, <2>3
  <2> QED BY <1>1, <2>2, <2>4, Zenon DEF NoDots
<1>6. Paths!FindFirst(w, P, 0) = Len(w)
  BY <1>1, <1>4, <1>5, NotFound, Zenon
<1> QED BY <1>3, <1>6, Zenon DEF Paths!DotDot, P, w

(* A path from which nothing has to be taken out keeps its length.            *)
LEMMA ShorterDropped ==
  ASSUME path \in Strings, Len(Paths!Kept) < Len(path)
  PROVE  \E i \in 1 .. Len(path) : Paths!IsDropped(i)
<1> SUFFICES ASSUME \A i \in 1 .. Len(path) : ~Paths!IsDropped(i) PROVE FALSE
  OBVIOUS
<1>1. Len(Paths!Kept) = Len(path) /\ Len(path) \in Nat
  BY KeptWhole, SlashedShape, Zenon
<1> QED BY <1>1

LEMMA PathsInductive == PathsInv /\ [LibraryNext]_libraryVars => PathsInv'
<1> SUFFICES ASSUME PathsInv, part' = "path", [LibraryNext]_libraryVars
             PROVE  PathInv'
  BY DEF PathsInv
<1>1. part = "path" /\ (Paths!Next \/ UNCHANGED pathVars)
  BY DEF LibraryNext, libraryVars
<1>2. PathInv
  BY <1>1 DEF PathsInv
<1>3. path' = path
  BY <1>1 DEF pathVars, Paths!Next, Paths!FixSlashes, Paths!FixDots, Paths!FixParent, Paths!Finish
<1>4. Paths!Slashed' = Paths!Slashed
  BY <1>3 DEF Paths!Slashed
<1>5. /\ Paths!Simple' <=> Paths!Simple
      /\ Paths!Apart' <=> Paths!Apart
      /\ \A i : Paths!IsDropped(i)' <=> Paths!IsDropped(i)
  BY <1>3, <1>4, Zenon DEF Paths!Simple, Paths!NoParents, Paths!Apart, Paths!IsDropped
<1>6. Paths!Kept' = Paths!Kept
  <2>1. Paths!KeptTo' = Paths!KeptTo
    BY <1>3, <1>4 DEF Paths!KeptTo, Paths!IsDropped
  <2> QED BY <1>3, <2>1, Zenon DEF Paths!Kept
<1>7. /\ path' \in Strings /\ pathAt' \in {"slashes", "dots", "parents", "done", "aborted"}
      /\ rounds' \in Nat
  BY <1>1, <1>2, <1>3
     DEF PathInv, pathVars, Paths!Next, Paths!FixSlashes, Paths!FixDots, Paths!FixParent, Paths!Finish
<1>8. path \in Strings /\ rounds \in Nat /\ PathPhases /\ (Paths!Simple => SimplePhases)
  BY <1>2 DEF PathInv
<1>9. PathPhases'
  <2> SUFFICES /\ pathAt' = "slashes" => fixed' = Paths!Block(Len(path), path)
               /\ pathAt' = "dots" => fixed' = Paths!Block(Len(path), Paths!Slashed)
               /\ pathAt' \notin {"slashes", "dots"} /\ rounds' = 0 /\ Paths!Apart
                    => fixed' = Paths!Block(Len(Paths!Kept), Paths!Kept)
    BY <1>3, <1>4, <1>5, <1>6 DEF PathPhases, Paths!Block
  <2>1. CASE UNCHANGED pathVars
    BY <1>8, <2>1 DEF PathPhases, pathVars
  <2>2. CASE Paths!FixSlashes
    <3>1. pathAt' = "dots" /\ fixed' = Paths!ReplaceAll(fixed, <<"\\">>, <<"/">>)
          /\ fixed = Paths!Block(Len(path), path)
      BY <1>8, <2>2 DEF Paths!FixSlashes, PathPhases
    <3>2. fixed' = Paths!Block(Len(path), Paths!Slashed)
      BY <1>8, <3>1, SlashesFixed, Zenon
    <3> QED BY <3>1, <3>2
  <2>3. CASE Paths!FixDots
    <3>1. pathAt' = "parents" /\ fixed' = Paths!ReplaceAll(fixed, DotSlash, <<"/">>)
          /\ fixed = Paths!Block(Len(path), Paths!Slashed)
      BY <1>8, <2>3 DEF Paths!FixDots, PathPhases, DotSlash
    <3>2. Paths!Apart => fixed' = Paths!Block(Len(Paths!Kept), Paths!Kept)
      BY <1>8, <3>1, DotsFixed, Zenon
    <3> QED BY <3>1, <3>2
  <2>4. CASE Paths!FixParent
    BY <1>8, <2>4 DEF Paths!FixParent
  <2>5. CASE Paths!Finish
    BY <1>8, <2>5 DEF Paths!Finish, PathPhases
  <2> QED BY <1>1, <2>1, <2>2, <2>3, <2>4, <2>5, Zenon DEF Paths!Next
<1>10. ASSUME Paths!Simple PROVE SimplePhases'
  <2> SUFFICES /\ rounds' = 0
               /\ pathAt' = "done" => result' = Paths!Kept
               /\ pathAt' = "aborted" => \E i \in 1 .. Len(path) : Paths!IsDropped(i)
    BY <1>3, <1>5, <1>6, Zenon DEF SimplePhases
  <2>1. SimplePhases
    BY <1>8, <1>10
  <2>2. CASE UNCHANGED pathVars
    BY <2>1, <2>2 DEF SimplePhases, pathVars
  <2>3. CASE Paths!FixSlashes
    BY <2>1, <2>3 DEF SimplePhases, Paths!FixSlashes
  <2>4. CASE Paths!FixDots
    BY <2>1, <2>4 DEF SimplePhases, Paths!FixDots
  <2>5. CASE Paths!FixParent
    BY <1>2, <1>10, <2>5, NothingAbove, Zenon DEF Paths!FixParent
  <2>6. CASE Paths!Finish
    <3>1. pathAt = "parents" /\ rounds' = rounds
      BY <2>6 DEF Paths!Finish
    <3>2. Paths!Content(fixed) = Paths!Kept /\ fixed.size = Len(Paths!Kept)
      BY <1>2, <1>10, <3>1, NothingAbove, Zenon
    <3>3. \/ pathAt' = "done" /\ result' = Paths!Content(fixed)
          \/ pathAt' = "aborted" /\ fixed.size < Len(path)
      BY <2>6 DEF Paths!Finish
    <3>4. CASE pathAt' = "done" /\ result' = Paths!Content(fixed)
      BY <2>1, <3>1, <3>2, <3>4 DEF SimplePhases
    <3>5. CASE pathAt' = "aborted" /\ fixed.size < Len(path)
      <4>1. \E i \in 1 .. Len(path) : Paths!IsDropped(i)
        BY <1>8, <3>2, <3>5, ShorterDropped
      <4> QED BY <2>1, <3>1, <3>5, <4>1 DEF SimplePhases
    <3> QED BY <3>3, <3>4, <3>5, Zenon
  <2> QED BY <1>1, <2>2, <2>3, <2>4, <2>5, <2>6, Zenon DEF Paths!Next
<1> QED BY <1>5, <1>7, <1>9, <1>10, Zenon DEF PathInv

(* On every path, of any length and any characters, the slashes are replaced; *)
(* every "/." of a "/./" is taken out, in blocks that are as large as what is *)
(* written to them, unless two "/./" overlap; and a path without ".." is      *)
(* returned only if that was done and left it as long as it was.             *)
THEOREM PathSound == LibrarySpec => []PathFixed
<1>1. LibraryInit => PathsInv
  BY PathInitial, Zenon DEF LibraryInit, PathsInv
<1>2. PathsInv => PathFixed
  <2> SUFFICES ASSUME PathInv
               PROVE  Paths!SlashesReplaced /\ Paths!DotsTakenOut /\ Paths!SimpleFixed
    BY Zenon DEF PathsInv, PathFixed
  <2>1. PathPhases /\ path \in Strings /\ (Paths!Simple => SimplePhases)
    BY DEF PathInv
  <2>2. DOMAIN path = 1 .. Len(path)
    BY <2>1 DEF Strings
  <2>3. Paths!SlashesReplaced
    BY <2>1, Zenon DEF PathPhases, Paths!SlashesReplaced
  <2>4. Paths!DotsTakenOut
    BY <2>1, Zenon DEF PathPhases, Paths!DotsTakenOut
  <2>5. Paths!SimpleFixed
    BY <2>1, <2>2, Zenon DEF SimplePhases, Paths!SimpleFixed
  <2> QED BY <2>3, <2>4, <2>5
<1> QED BY <1>1, <1>2, PathsInductive, PTL DEF LibrarySpec, libraryVars

--------------------------------------------------------------------------------
(* Requests: what http_headerInit finds are words of the first line, and       *)
(* what http_headerNext finds are fields, wherever the text was cut off.       *)

ReqChars == STRING \cup {" ", ":", "CR", "LF"}

(* How many words of a line begin up to a position.                           *)
Begun(l, n) == Cardinality({j \in Requests!Starts(l) : j <= n})

LEMMA BegunShape ==
  ASSUME NEW l \in Seq(ReqChars), NEW n \in Nat
  PROVE  /\ Begun(l, n) \in Nat
         /\ Begun(l, 0) = 0
         /\ n + 1 \in Requests!Starts(l) <=> Requests!Solid(l, n + 1) /\ ~Requests!Solid(l, n)
         /\ n + 1 \in Requests!Starts(l) => Begun(l, n + 1) = Begun(l, n) + 1
         /\ n + 1 \notin Requests!Starts(l) => Begun(l, n + 1) = Begun(l, n)
<1> DEFINE S == Requests!Starts(l)
           B(k) == {j \in S : j <= k}
<1>1. S \in SUBSET (1 .. Len(l)) /\ Len(l) \in Nat
  BY DEF Requests!Starts
<1>2. n + 1 \in S <=> Requests!Solid(l, n + 1) /\ ~Requests!Solid(l, n)
  <2>1. (n + 1) - 1 = n
    OBVIOUS
  <2>2. n + 1 \in S <=> n + 1 \in DOMAIN l /\ Requests!Solid(l, n + 1)
                        /\ ~Requests!Solid(l, (n + 1) - 1)
    BY Zenon DEF Requests!Starts
  <2> QED BY <2>1, <2>2, Zenon DEF Requests!Solid
<1> HIDE DEF S
<1>3. ASSUME NEW k PROVE IsFiniteSet(B(k)) /\ Cardinality(B(k)) \in Nat
  <2>1. B(k) \in SUBSET (1 .. Len(l))
    BY <1>1
  <2>2. IsFiniteSet(1 .. Len(l))
    BY <1>1, FS_Interval
  <2> HIDE DEF B
  <2>3. IsFiniteSet(B(k))
    BY <2>1, <2>2, FS_Subset, Zenon
  <2> QED BY <2>3, FS_CardinalityType, Zenon
<1>10. \A j \in S : j \in Nat /\ j > 0
  BY <1>1
<1>4. B(0) = {}
  BY <1>10
<1>11. \A j \in S : j <= n + 1 <=> j <= n \/ j = n + 1
  BY <1>10
<1>12. ~(n + 1 <= n)
  OBVIOUS
<1>5. n + 1 \in S => B(n + 1) = B(n) \cup {n + 1} /\ n + 1 \notin B(n)
  BY <1>11, <1>12, Zenon
<1>6. n + 1 \notin S => B(n + 1) = B(n)
  BY <1>11, Zenon
<1> HIDE DEF B
<1>7. \A k : Begun(l, k) = Cardinality(B(k))
  BY DEF Begun, B, S
<1>8. n + 1 \in S => Cardinality(B(n + 1)) = Cardinality(B(n)) + 1
  <2>1. Cardinality(B(n) \cup {n + 1}) =
          IF n + 1 \in B(n) THEN Cardinality(B(n)) ELSE Cardinality(B(n)) + 1
    BY <1>3, FS_AddElement, Zenon
  <2> QED BY <1>5, <2>1, Zenon
<1>9. Cardinality(B(0)) = 0
  BY <1>4, FS_EmptySet
<1> QED BY <1>2, <1>3, <1>6, <1>7, <1>8, <1>9, Zenon DEF S

(* They only become more, and one more where a word begins.                   *)
LEMMA BegunGrows ==
  ASSUME NEW l \in Seq(ReqChars), NEW n \in Nat, NEW m \in Nat, n <= m
  PROVE  /\ Begun(l, n) \in Nat /\ Begun(l, m) \in Nat /\ Begun(l, n) <= Begun(l, m)
         /\ n < m /\ m \in Requests!Starts(l) => Begun(l, n) < Begun(l, m)
         /\ n >= Len(l) => Begun(l, n) = Begun(l, m)
         /\ n >= Len(l) => Begun(l, n) = Cardinality(Requests!Starts(l))
<1> DEFINE S == Requests!Starts(l)
           B(k) == {j \in S : j <= k}
<1>1. S \in SUBSET (1 .. Len(l)) /\ Len(l) \in Nat
  BY DEF Requests!Starts
<1> HIDE DEF S
<1>2. IsFiniteSet(S)
  <2>1. IsFiniteSet(1 .. Len(l))
    BY <1>1, FS_Interval
  <2> QED BY <1>1, <2>1, FS_Subset, Zenon
<1>10. \A j \in S : j \in Nat /\ j <= Len(l)
  BY <1>1
<1>11. \A j \in S : (j <= n => j <= m) /\ (n >= Len(l) => j <= n)
  BY <1>1, <1>10
<1>3. B(n) \in SUBSET B(m) /\ B(m) \in SUBSET S
  BY <1>11, Zenon
<1>4. n >= Len(l) => B(n) = S /\ B(m) = S
  BY <1>11, Zenon
<1>5. n < m /\ m \in S => m \in B(m) /\ m \notin B(n)
  BY <1>1
<1> HIDE DEF B
<1>6. IsFiniteSet(B(m)) /\ IsFiniteSet(B(n))
  BY <1>2, <1>3, FS_Subset, Zenon
<1>7. /\ Cardinality(B(n)) \in Nat /\ Cardinality(B(m)) \in Nat
      /\ Cardinality(B(n)) <= Cardinality(B(m))
      /\ Cardinality(B(m)) = Cardinality(B(n)) => B(m) = B(n)
  BY <1>3, <1>6, FS_Subset, FS_CardinalityType, Zenon
<1>8. \A k : Begun(l, k) = Cardinality(B(k))
  BY DEF Begun, B, S
<1>9. n < m /\ m \in S => Cardinality(B(n)) < Cardinality(B(m))
  BY <1>5, <1>7
<1> QED BY <1>4, <1>7, <1>8, <1>9, Zenon DEF S

(* A word of a line, by its boundaries.                                       *)
IsWord(l, i, a, z) ==
  /\ a \in Requests!Starts(l) /\ z \in a .. Len(l) /\ Begun(l, a) = i
  /\ \A k \in a .. z : Requests!Solid(l, k)
  /\ ~Requests!Solid(l, z + 1)

LEMMA WordsShape ==
  ASSUME NEW l \in Seq(ReqChars)
  PROVE  /\ Len(Requests!Words(l)) = Begun(l, Len(l)) /\ Begun(l, Len(l)) \in Nat
         /\ \A i, a, z : IsWord(l, i, a, z) =>
              i \in 1 .. Begun(l, Len(l)) /\ Requests!Words(l)[i] = SubSeq(l, a, z)
<1> DEFINE S == Requests!Starts(l)
           c == Begun(l, Len(l))
           start(n) == CHOOSE i \in S : Requests!Cardinality({j \in S : j <= i}) = n
           W == [n \in 1 .. c |-> Requests!WordFrom(l, start(n))]
<1>1. S \in SUBSET (1 .. Len(l)) /\ Len(l) \in Nat
  BY DEF Requests!Starts
<1>2. \A T : Requests!Cardinality(T) = Cardinality(T)
  BY Zenon DEF Requests!Cardinality, Cardinality
<1>3. c \in Nat /\ c = Cardinality(S)
  BY <1>1, BegunGrows
<1>4. Requests!Words(l) = W
  BY <1>2, <1>3, Zenon DEF Requests!Words
<1> HIDE DEF S
<1>5. ASSUME NEW i, NEW a, NEW z, IsWord(l, i, a, z)
      PROVE  i \in 1 .. c /\ Requests!Words(l)[i] = SubSeq(l, a, z)
  <2>1. a \in S /\ a \in Nat /\ a > 0 /\ a <= Len(l) /\ Begun(l, a) = i /\ z \in a .. Len(l)
    BY <1>1, <1>5 DEF IsWord, S
  <2>2. i \in 1 .. c
    <3>1. Begun(l, 0) < Begun(l, a) /\ Begun(l, 0) \in Nat /\ Begun(l, a) \in Nat
          /\ Begun(l, a) <= c
      BY <1>1, <2>1, BegunGrows DEF S
    <3> HIDE DEF c
    <3> QED BY <1>3, <2>1, <3>1
  <2>3. ASSUME NEW b \in S, Begun(l, b) = i PROVE b = a
    <3>1. b \in Nat
      BY <1>1
    <3>2. b < a => Begun(l, b) < Begun(l, a) /\ Begun(l, a) \in Nat
      BY <2>1, <3>1, BegunGrows DEF S
    <3>3. a < b => Begun(l, a) < Begun(l, b) /\ Begun(l, a) \in Nat
      BY <2>1, <2>3, <3>1, BegunGrows DEF S
    <3> QED BY <2>1, <2>3, <3>1, <3>2, <3>3
  <2>4. start(i) = a
    <3>1. \A b \in S : Requests!Cardinality({j \in S : j <= b}) = Begun(l, b)
      BY <1>2, Zenon DEF Begun, S
    <3>2. start(i) = CHOOSE b \in S : Begun(l, b) = i
      BY <3>1
    <3> QED BY <2>1, <2>3, <3>2
  <2> DEFINE Ends(j) == j >= a /\ ~Requests!Solid(l, j + 1)
                        /\ \A k \in a .. j : Requests!Solid(l, k)
             end == CHOOSE j \in DOMAIN l : Ends(j)
  <2>5. z \in DOMAIN l /\ Ends(z)
    BY <1>5, <2>1 DEF IsWord
  <2>6. ASSUME NEW j \in DOMAIN l, Ends(j) PROVE j = z
    <3>1. j \in Nat /\ z \in Nat
      BY <1>1, <2>1
    <3>2. j < z => j + 1 \in a .. z
      BY <2>1, <2>6, <3>1
    <3>3. z < j => z + 1 \in a .. j
      BY <2>1, <3>1
    <3>4. ~(j < z) /\ ~(z < j)
      BY <2>5, <2>6, <3>2, <3>3
    <3> QED BY <3>1, <3>4
  <2>7. end = z
    <3> HIDE DEF Ends
    <3> QED BY <2>5, <2>6
  <2>8. Requests!WordFrom(l, a) = SubSeq(l, a, z)
    BY <2>7, Zenon DEF Requests!WordFrom
  <2> HIDE DEF start
  <2>9. W[i] = Requests!WordFrom(l, start(i))
    BY <2>2
  <2> QED BY <1>4, <2>2, <2>4, <2>8, <2>9
<1>6. Len(W) = c
  <2> HIDE DEF c, start
  <2> QED BY <1>3
<1> QED BY <1>3, <1>4, <1>5, <1>6

--------------------------------------------------------------------------------
(* The scan of the first line.                                                *)
EndChars == {"CR", "LF"}
Spans == [start : Nat, size : Nat]
Scans == [next : Nat, words : Seq(Spans), from : Nat, inWord : BOOLEAN, over : BOOLEAN]
ScanState(next, words, from, inWord, over) ==
  [next |-> next, words |-> words, from |-> from, inWord |-> inWord, over |-> over]

(* What one character does, by kind.                                          *)
LEMMA ScanCases ==
  ASSUME NEW s \in Scans, NEW c, c = text[s.next + 1]
  PROVE  LET u == Requests!ScanChar(s)
             other == c # " " /\ c \notin EndChars
             longer == Append(s.words, Requests!Span(s.from, s.next))
             n == s.next + 1
         IN  /\ s.over => u = s
             /\ ~s.over /\ ~s.inWord /\ c = " " => u = ScanState(n, s.words, n, FALSE, FALSE)
             /\ ~s.over /\ ~s.inWord /\ c \in EndChars =>
                  u = ScanState(n, s.words, s.from, FALSE, TRUE)
             /\ ~s.over /\ ~s.inWord /\ other => u = ScanState(n, s.words, s.from, TRUE, FALSE)
             /\ ~s.over /\ s.inWord /\ (Len(s.words) = 3 \/ other) =>
                  u = ScanState(n, s.words, s.from, TRUE, FALSE)
             /\ ~s.over /\ s.inWord /\ Len(s.words) # 3 /\ c = " " =>
                  u = ScanState(n, longer, n, FALSE, FALSE)
             /\ ~s.over /\ s.inWord /\ Len(s.words) # 3 /\ c \in EndChars =>
                  u = ScanState(n, longer, n, FALSE, TRUE)
<1> DEFINE u == Requests!ScanChar(s)
           n == s.next + 1
           longer == Append(s.words, Requests!Span(s.from, s.next))
           end == Requests!IsEndOfLine(c)
<1> HIDE DEF n, longer, end
<1>3. u = IF s.over THEN s
          ELSE IF ~s.inWord /\ c = " " THEN ScanState(n, s.words, n, FALSE, FALSE)
          ELSE IF ~s.inWord /\ end THEN ScanState(n, s.words, s.from, FALSE, TRUE)
          ELSE IF Len(s.words) = 3 \/ ~(c = " " \/ end)
               THEN ScanState(n, s.words, s.from, TRUE, FALSE)
          ELSE ScanState(n, longer, n, FALSE, end)
  BY Zenon DEF Requests!ScanChar, Requests!Char, Requests!IsSpacing, n, longer, end, ScanState
<1>4. end <=> c \in EndChars
  BY Zenon DEF end, Requests!IsEndOfLine, EndChars
<1>5. end \in BOOLEAN /\ (c = " " => ~end) /\ (c = " " => c \notin EndChars)
  <2>1. end \in BOOLEAN
    BY SMT DEF end, Requests!IsEndOfLine
  <2>2. c = " " => c \notin EndChars
    BY DEF EndChars
  <2> QED BY <1>4, <2>1, <2>2
<1>6. (end => end = TRUE) /\ (~end => end = FALSE)
  BY <1>5
<1> HIDE DEF u
<1> QED BY <1>3, <1>4, <1>5, <1>6, Zenon DEF u, n, longer

(* Where the scan is in the line after n characters: between words, inside a  *)
(* word, past the line, or in more words than there is room for.              *)
Between(l, n, s) ==
  /\ n <= Len(l) /\ ~s.inWord /\ ~s.over /\ s.next = n /\ s.from = n
  /\ ~Requests!Solid(l, n) /\ Len(s.words) = Begun(l, n)
Inside(l, n, s) ==
  /\ n <= Len(l) /\ s.inWord /\ ~s.over /\ s.next = n /\ s.from < n
  /\ s.from + 1 \in Requests!Starts(l) /\ Begun(l, s.from + 1) = Begun(l, n)
  /\ \A k \in s.from + 1 .. n : Requests!Solid(l, k)
  /\ Len(s.words) + 1 = Begun(l, n) /\ Len(s.words) <= 2
Past(l, n, s) ==
  n > Len(l) /\ s.over /\ s.next = Len(l) + 1 /\ Len(s.words) = Begun(l, Len(l))
Crowded(l, n, s) ==
  s.inWord /\ ~s.over /\ s.next = n /\ Len(s.words) = 3 /\ Begun(l, Len(l)) >= 4

(* The words that were stored are the first ones of the line.                 *)
FirstWords(l, words, n) ==
  /\ Len(words) <= 3
  /\ \A i \in 1 .. Len(words) :
       /\ IsWord(l, i, words[i].start + 1, words[i].start + words[i].size)
       /\ words[i].start + words[i].size <= n

Scanned(l, n) ==
  {s \in Scans :
     /\ FirstWords(l, s.words, n)
     /\ Between(l, n, s) \/ Inside(l, n, s) \/ Past(l, n, s) \/ Crowded(l, n, s)}

(* The text begins with the line and an end of line, or with a part of it.    *)
ReadsLine(l) ==
  /\ l \in Seq(ReqChars) /\ text \in Seq(ReqChars)
  /\ \A i \in 1 .. Len(l) : l[i] \notin EndChars
  /\ \A i \in 1 .. Len(text) : (i <= Len(l) => text[i] = l[i])
                               /\ (i = Len(l) + 1 => text[i] \in EndChars)

LEMMA SolidIs ==
  ASSUME NEW l \in Seq(ReqChars), NEW i \in Int
  PROVE  Requests!Solid(l, i) <=> i \in 1 .. Len(l) /\ l[i] # " "
<1>1. DOMAIN l = 1 .. Len(l)
  OBVIOUS
<1> QED BY <1>1, Zenon DEF Requests!Solid, Requests!IsSpacing

(* A word that ends is stored behind the others.                              *)
LEMMA WordStored ==
  ASSUME NEW l \in Seq(ReqChars), NEW n \in Nat, NEW s \in Scans,
         FirstWords(l, s.words, n), Inside(l, n, s), ~Requests!Solid(l, n + 1)
  PROVE  LET longer == Append(s.words, Requests!Span(s.from, s.next))
         IN  /\ longer \in Seq(Spans) /\ FirstWords(l, longer, n + 1)
             /\ Len(longer) = Begun(l, n)
<1> DEFINE w == [start |-> s.from, size |-> n - s.from]
           m == Len(s.words)
           longer == Append(s.words, w)
<1>1. s.words \in Seq(Spans) /\ s.from \in Nat /\ m \in Nat
  BY DEF Scans
<1>2. /\ n <= Len(l) /\ s.next = n /\ s.from < n
      /\ s.from + 1 \in Requests!Starts(l) /\ Begun(l, s.from + 1) = Begun(l, n)
      /\ \A k \in s.from + 1 .. n : Requests!Solid(l, k)
      /\ m + 1 = Begun(l, n) /\ m <= 2
  BY DEF Inside
<1>3. w \in Spans /\ w.start = s.from /\ w.start + w.size = n /\ Requests!Span(s.from, s.next) = w
  BY <1>1, <1>2 DEF Spans, Requests!Span
<1>4. IsWord(l, m + 1, s.from + 1, n)
  <2>1. n \in s.from + 1 .. Len(l)
    BY <1>1, <1>2
  <2> QED BY <1>2, <2>1, Zenon DEF IsWord
<1> HIDE DEF w
<1>5. /\ longer \in Seq(Spans) /\ Len(longer) = m + 1 /\ longer[m + 1] = w
      /\ \A i \in 1 .. m : longer[i] = s.words[i]
  BY <1>1, <1>3
<1> HIDE DEF longer
<1>6. \A i \in 1 .. m : /\ IsWord(l, i, s.words[i].start + 1, s.words[i].start + s.words[i].size)
                        /\ s.words[i].start + s.words[i].size <= n
  BY Zenon DEF FirstWords
<1>7. ASSUME NEW i \in 1 .. m PROVE s.words[i].start + s.words[i].size <= n + 1
  <2> DEFINE x == s.words[i]
  <2>3. x \in Spans
    BY <1>1
  <2> HIDE DEF x
  <2>1. x.start \in Nat /\ x.size \in Nat
    BY <2>3 DEF Spans
  <2> USE DEF x
  <2>2. s.words[i].start + s.words[i].size <= n
    BY <1>6
  <2> QED BY <2>1, <2>2
<1>8. ASSUME NEW i \in 1 .. Len(longer)
      PROVE  /\ IsWord(l, i, longer[i].start + 1, longer[i].start + longer[i].size)
             /\ longer[i].start + longer[i].size <= n + 1
  <2>1. i \in 1 .. m \/ i = m + 1
    BY <1>1, <1>5
  <2>2. n <= n + 1
    OBVIOUS
  <2> QED BY <1>3, <1>4, <1>5, <1>6, <1>7, <2>1, <2>2, Zenon
<1>9. Len(longer) <= 3 /\ Len(longer) = Begun(l, n)
  BY <1>1, <1>2, <1>5
<1> QED BY <1>3, <1>5, <1>8, <1>9, Zenon DEF FirstWords, longer

(* Each character of the text keeps this.                                     *)
LEMMA ScanKeeps ==
  ASSUME NEW l, ReadsLine(l), NEW n \in 0 .. Len(text) - 1, NEW s \in Scanned(l, n)
  PROVE  Requests!ScanChar(s) \in Scanned(l, n + 1)
<1> DEFINE u == Requests!ScanChar(s)
           N == Len(l)
           c == text[n + 1]
           solid(i) == Requests!Solid(l, i)
<1>1. n \in Nat /\ N \in Nat /\ l \in Seq(ReqChars) /\ s \in Scans /\ FirstWords(l, s.words, n)
  BY DEF ReadsLine, Scanned
<1>2. s.words \in Seq(Spans) /\ s.next \in Nat /\ s.from \in Nat /\ Len(s.words) \in Nat
      /\ s.inWord \in BOOLEAN /\ s.over \in BOOLEAN /\ Len(s.words) <= 3
  BY <1>1 DEF Scans, FirstWords
<1>3. /\ n < N => c = l[n + 1] /\ c \notin EndChars
      /\ n = N => c \in EndChars
  <2>1. n + 1 \in 1 .. Len(text) /\ (n < N => n + 1 \in 1 .. N /\ n + 1 <= N) /\ (n = N => n + 1 = N + 1)
    BY <1>1 DEF ReadsLine
  <2> QED BY <2>1, Zenon DEF ReadsLine
<1>4. /\ n < N => (solid(n + 1) <=> c # " ")
      /\ n >= N => ~solid(n + 1)
  <2>1. n + 1 \in Int /\ (n < N => n + 1 \in 1 .. N) /\ (n >= N => n + 1 \notin 1 .. N)
    BY <1>1
  <2>2. solid(n + 1) <=> n + 1 \in 1 .. N /\ l[n + 1] # " "
    BY <1>1, <2>1, SolidIs, Zenon
  <2> QED BY <1>3, <2>1, <2>2, Zenon
<1>14. (n < N => n + 1 <= N /\ ~(n >= N)) /\ (n = N => n >= N)
  BY <1>1
<1>5. /\ Begun(l, n) \in Nat /\ Begun(l, n + 1) \in Nat
      /\ solid(n + 1) /\ ~solid(n) => n + 1 \in Requests!Starts(l) /\ Begun(l, n + 1) = Begun(l, n) + 1
      /\ ~(solid(n + 1) /\ ~solid(n)) => Begun(l, n + 1) = Begun(l, n)
      /\ n < N => Begun(l, n + 1) <= Begun(l, N) /\ Begun(l, N) \in Nat
  <2>1. n + 1 \in Nat /\ (n < N => n + 1 <= N)
    BY <1>1
  <2>2. n < N => Begun(l, n + 1) <= Begun(l, N) /\ Begun(l, N) \in Nat
    BY <1>1, <2>1, BegunGrows
  <2>3. Begun(l, n + 1) \in Nat
    BY <1>1, <2>1, BegunShape
  <2> QED BY <1>1, <2>2, <2>3, BegunShape, Zenon
<1>6. FirstWords(l, s.words, n + 1)
  <2>1. ASSUME NEW i \in 1 .. Len(s.words) PROVE s.words[i].start + s.words[i].size <= n + 1
    <3> DEFINE x == s.words[i]
    <3>3. x \in Spans
      BY <1>2
    <3> HIDE DEF x
    <3>1. x.start \in Nat /\ x.size \in Nat
      BY <3>3 DEF Spans
    <3> USE DEF x
    <3>2. s.words[i].start + s.words[i].size <= n
      BY <1>1, Zenon DEF FirstWords
    <3> QED BY <1>1, <3>1, <3>2
  <2> QED BY <1>1, <2>1, Zenon DEF FirstWords
<1>7. ASSUME NEW words \in Seq(Spans), NEW from \in Nat, NEW inWord \in BOOLEAN, NEW over \in BOOLEAN
      PROVE  LET r == ScanState(n + 1, words, from, inWord, over)
             IN  /\ r \in Scans /\ r.next = n + 1 /\ r.words = words /\ r.from = from
                 /\ r.inWord = inWord /\ r.over = over
  BY <1>1 DEF ScanState, Scans
<1>8. n + 1 \in Nat
  BY <1>1
<1>9. TRUE \in BOOLEAN /\ FALSE \in BOOLEAN
  OBVIOUS
<1> HIDE DEF u
<1>10. CASE Past(l, n, s)
  <2>1. u = s
    BY <1>1, <1>10, ScanCases, Zenon DEF Past, u
  <2>2. Past(l, n + 1, s)
    BY <1>1, <1>10 DEF Past
  <2> QED BY <1>1, <1>6, <2>1, <2>2, Zenon DEF Scanned, u
<1>11. CASE Crowded(l, n, s)
  <2>1. u = ScanState(n + 1, s.words, s.from, TRUE, FALSE)
    BY <1>1, <1>11, ScanCases, Zenon DEF Crowded, u
  <2>2. u \in Scans /\ u.words = s.words /\ u.inWord /\ ~u.over /\ u.next = n + 1
    BY <1>2, <1>7, <2>1
  <2>3. Crowded(l, n + 1, u)
    BY <1>11, <2>2, Zenon DEF Crowded
  <2> QED BY <1>6, <2>2, <2>3, Zenon DEF Scanned, u
<1>12. CASE Between(l, n, s)
  <2>1. s.next = n /\ s.from = n /\ ~s.inWord /\ ~s.over /\ ~solid(n) /\ Len(s.words) = Begun(l, n)
        /\ n <= N
    BY <1>12 DEF Between
  <2>2. CASE n = N
    <3>1. c \in EndChars
      BY <1>3, <2>2
    <3>2. u = ScanState(n + 1, s.words, s.from, FALSE, TRUE)
      BY <1>1, <2>1, <3>1, ScanCases, Zenon DEF u
    <3>3. u \in Scans /\ u.words = s.words /\ u.over /\ u.next = n + 1
      BY <1>2, <1>7, <3>2
    <3>4. Past(l, n + 1, u)
      BY <1>1, <2>1, <2>2, <3>3 DEF Past
    <3> QED BY <1>6, <3>3, <3>4, Zenon DEF Scanned, u
  <2>3. CASE n < N /\ c = " "
    <3>1. u = ScanState(n + 1, s.words, n + 1, FALSE, FALSE)
      BY <1>1, <2>1, <2>3, ScanCases, Zenon DEF u
    <3>2. u \in Scans /\ u.words = s.words /\ ~u.inWord /\ ~u.over /\ u.next = n + 1 /\ u.from = n + 1
      BY <1>2, <1>7, <1>8, <3>1
    <3>3. ~solid(n + 1) /\ Begun(l, n + 1) = Begun(l, n) /\ n + 1 <= N
      BY <1>4, <1>5, <1>14, <2>3, Zenon
    <3>4. Between(l, n + 1, u)
      BY <2>1, <3>2, <3>3, Zenon DEF Between
    <3> QED BY <1>6, <3>2, <3>4, Zenon DEF Scanned, u
  <2>4. CASE n < N /\ c # " "
    <3>1. u = ScanState(n + 1, s.words, s.from, TRUE, FALSE)
      BY <1>1, <1>3, <2>1, <2>4, ScanCases, Zenon DEF u
    <3>2. u \in Scans /\ u.words = s.words /\ u.inWord /\ ~u.over /\ u.next = n + 1 /\ u.from = n
      BY <1>2, <1>7, <2>1, <3>1
    <3>3. solid(n + 1) /\ Begun(l, n + 1) = Begun(l, n) + 1 /\ n + 1 <= N /\ n + 1 \in Requests!Starts(l)
      BY <1>4, <1>5, <1>14, <2>1, <2>4, Zenon
    <3>4. CASE Len(s.words) = 3
      <4>1. Begun(l, N) >= 4
        <5>1. Begun(l, n + 1) <= Begun(l, N) /\ Begun(l, N) \in Nat /\ Begun(l, n + 1) = 3 + 1
          BY <1>5, <2>1, <2>4, <3>3, <3>4, Zenon
        <5> QED BY <5>1
      <4>2. Crowded(l, n + 1, u)
        BY <3>2, <3>4, <4>1, Zenon DEF Crowded
      <4> QED BY <1>6, <3>2, <4>2, Zenon DEF Scanned, u
    <3>5. CASE Len(s.words) # 3
      <4>1. Len(s.words) <= 2 /\ Len(s.words) + 1 = Begun(l, n + 1) /\ n < n + 1
        BY <1>1, <1>2, <2>1, <3>3, <3>5
      <4>2. \A k \in n + 1 .. n + 1 : solid(k)
        BY <1>1, <3>3
      <4>3. Inside(l, n + 1, u)
        BY <3>2, <3>3, <4>1, <4>2, Zenon DEF Inside
      <4> QED BY <1>6, <3>2, <4>3, Zenon DEF Scanned, u
    <3> QED BY <3>4, <3>5
  <2>5. n = N \/ n < N
    BY <1>1, <2>1
  <2> QED BY <2>2, <2>3, <2>4, <2>5, Zenon
<1>13. CASE Inside(l, n, s)
  <2> DEFINE longer == Append(s.words, Requests!Span(s.from, s.next))
  <2>1. s.next = n /\ s.inWord /\ ~s.over /\ Len(s.words) + 1 = Begun(l, n) /\ Len(s.words) <= 2
        /\ n <= N /\ s.from < n /\ \A k \in s.from + 1 .. n : solid(k)
    BY <1>13 DEF Inside
  <2>2. Len(s.words) # 3 /\ solid(n)
    <3>1. n \in s.from + 1 .. n
      BY <1>1, <1>2, <2>1
    <3>2. Len(s.words) # 3
      <4>1. Len(s.words) \in Nat /\ Len(s.words) <= 2
        BY <1>2, <2>1, Zenon
      <4>2. \A m \in Nat : m <= 2 => m # 3
        OBVIOUS
      <4> QED BY <4>1, <4>2, Zenon
    <3> QED BY <2>1, <3>1, <3>2, Zenon
  <2>3. ~solid(n + 1) => /\ longer \in Seq(Spans) /\ FirstWords(l, longer, n + 1)
                         /\ Len(longer) = Begun(l, n)
    BY <1>1, <1>13, WordStored, Zenon
  <2> HIDE DEF longer
  <2>4. CASE n = N
    <3>1. c \in EndChars /\ ~solid(n + 1)
      BY <1>3, <1>4, <1>14, <2>4, Zenon
    <3>2. u = ScanState(n + 1, longer, n + 1, FALSE, TRUE)
      BY <1>1, <2>1, <2>2, <3>1, ScanCases, Zenon DEF u, longer
    <3>3. u \in Scans /\ u.words = longer /\ u.over /\ u.next = n + 1
      BY <1>7, <1>8, <2>3, <3>1, <3>2
    <3>4. Past(l, n + 1, u)
      BY <1>1, <2>3, <2>4, <3>1, <3>3 DEF Past
    <3> QED BY <2>3, <3>1, <3>3, <3>4, Zenon DEF Scanned, u
  <2>5. CASE n < N /\ c = " "
    <3>1. ~solid(n + 1) /\ Begun(l, n + 1) = Begun(l, n) /\ n + 1 <= N
      BY <1>4, <1>5, <1>14, <2>5, Zenon
    <3>2. u = ScanState(n + 1, longer, n + 1, FALSE, FALSE)
      BY <1>1, <2>1, <2>2, <2>5, ScanCases, Zenon DEF u, longer
    <3>3. u \in Scans /\ u.words = longer /\ ~u.inWord /\ ~u.over /\ u.next = n + 1 /\ u.from = n + 1
      BY <1>7, <1>8, <2>3, <3>1, <3>2
    <3>4. Between(l, n + 1, u)
      BY <2>3, <3>1, <3>3, Zenon DEF Between
    <3> QED BY <2>3, <3>1, <3>3, <3>4, Zenon DEF Scanned, u
  <2>6. CASE n < N /\ c # " "
    <3>1. solid(n + 1) /\ Begun(l, n + 1) = Begun(l, n) /\ n + 1 <= N
      BY <1>4, <1>5, <1>14, <2>2, <2>6, Zenon
    <3>2. u = ScanState(n + 1, s.words, s.from, TRUE, FALSE)
      BY <1>1, <1>3, <2>1, <2>6, ScanCases, Zenon DEF u
    <3>3. u \in Scans /\ u.words = s.words /\ u.inWord /\ ~u.over /\ u.next = n + 1 /\ u.from = s.from
      BY <1>2, <1>7, <3>2
    <3>4. s.from < n + 1 /\ \A k \in s.from + 1 .. n + 1 : solid(k)
      <4>1. \A k \in s.from + 1 .. n + 1 : k \in s.from + 1 .. n \/ k = n + 1
        BY <1>1, <1>2
      <4> QED BY <1>1, <1>2, <2>1, <3>1, <4>1
    <3>5. Inside(l, n + 1, u)
      BY <1>13, <3>1, <3>3, <3>4, Zenon DEF Inside
    <3> QED BY <1>6, <3>3, <3>5, Zenon DEF Scanned, u
  <2>7. n = N \/ n < N
    BY <1>1, <2>1
  <2> QED BY <2>4, <2>5, <2>6, <2>7, Zenon
<1> QED BY <1>10, <1>11, <1>12, <1>13, Zenon DEF Scanned, u

(* So that is how the scan ends.                                              *)
LEMMA ScanShape ==
  ASSUME NEW l, ReadsLine(l)
  PROVE  Requests!Scan[Len(text)] \in Scanned(l, Len(text))
<1> DEFINE b == Len(text)
           x == [next |-> 0, words |-> << >>, from |-> 0, inWord |-> FALSE, over |-> FALSE]
           turn(s) == Requests!ScanChar(s)
           T == [n \in 0 .. b |-> Scanned(l, n)]
           step == [n \in 1 .. b |-> [s \in Scans |-> turn(s)]]
           Shape(f) == f = [n \in 0 .. b |-> IF n = 0 THEN x ELSE turn(f[n - 1])]
<1>1. b \in Nat /\ l \in Seq(ReqChars) /\ Len(l) \in Nat
  BY DEF ReadsLine
<1>2. x \in Scanned(l, 0)
  <2>1. x \in Scans /\ x.next = 0 /\ x.words = << >> /\ x.from = 0 /\ ~x.inWord /\ ~x.over
        /\ Len(<< >>) = 0
    BY DEF Scans
  <2>2. FirstWords(l, << >>, 0)
    BY DEF FirstWords
  <2>3. ~Requests!Solid(l, 0) /\ 0 <= Len(l) /\ Begun(l, 0) = 0
    <3>1. 0 \in Nat /\ 0 \in Int /\ 0 \notin 1 .. Len(l) /\ 0 <= Len(l)
      BY <1>1
    <3> QED BY <1>1, <3>1, SolidIs, BegunShape, Zenon
  <2> HIDE DEF x
  <2> QED BY <2>1, <2>2, <2>3, Zenon DEF Scanned, Between
<1>3. ASSUME NEW n \in 1 .. b, NEW s \in Scanned(l, n - 1) PROVE s \in Scans /\ turn(s) \in Scanned(l, n)
  <2>1. n - 1 \in 0 .. b - 1 /\ (n - 1) + 1 = n
    BY <1>1
  <2>2. turn(s) \in Scanned(l, (n - 1) + 1)
    BY <2>1, ScanKeeps, Zenon
  <2> QED BY <2>1, <2>2, Zenon DEF Scanned
<1> HIDE DEF turn
<1>4. PICK h : Computed(h, x, step, T, Scans, 0, b)
  <2>1. \A n \in 0 .. b : T[n] \subseteq Scans
    BY DEF Scanned
  <2>2. \A n \in 1 .. b : \A s \in T[n - 1] : step[n][s] \in T[n]
    <3> SUFFICES ASSUME NEW n \in 1 .. b, NEW s \in T[n - 1] PROVE step[n][s] \in T[n]
      OBVIOUS
    <3>1. n \in 0 .. b /\ n - 1 \in 0 .. b
      BY <1>1
    <3>2. s \in Scanned(l, n - 1)
      BY <3>1
    <3> QED BY <1>3, <3>1, <3>2
  <2>3. x \in T[0] /\ 0 \in Int /\ b \in Int /\ 0 <= b /\ 0 + 1 = 1
    BY <1>1, <1>2
  <2> HIDE DEF b, x, T, step
  <2>4. Leads(step, T, Scans, 0, b)
    BY <2>1, <2>2, <2>3 DEF Leads
  <2> QED BY <2>3, <2>4, RecursionExists
<1>5. Shape(h)
  <2>1. ASSUME NEW n \in 0 .. b, n # 0 PROVE h[n] = turn(h[n - 1])
    <3>1. n \in 0 + 1 .. b /\ n - 1 \in 0 .. b /\ n \in 1 .. b
      BY <1>1, <2>1
    <3>2. h[n - 1] \in Scans
      BY <1>4, <3>1 DEF Computed
    <3>3. h[n] = step[n][h[n - 1]]
      BY <1>4, <3>1, Zenon DEF Computed
    <3> QED BY <3>1, <3>2, <3>3
  <2> HIDE DEF b, T, step, x
  <2>2. h \in [0 .. b -> Scans] /\ h[0] = x
    BY <1>4 DEF Computed
  <2> QED BY <2>1, <2>2
<1> DEFINE f == CHOOSE f : Shape(f)
<1>6. Requests!Scan = f
  BY DEF Requests!Scan, Requests!Size, turn
<1>7. Shape(f)
  <2> HIDE DEF Shape
  <2> QED BY <1>5
<1> HIDE DEF f
<1>8. f[b] \in Scanned(l, b)
  <2> DEFINE S == {n \in 0 .. b : f[n] \in Scanned(l, n)}
  <2>1. 0 \in S
    <3>1. f[0] = x /\ 0 \in 0 .. b
      <4> HIDE DEF x
      <4> QED BY <1>1, <1>7
    <3> HIDE DEF x
    <3> QED BY <1>2, <3>1
  <2>2. ASSUME NEW n \in 0 .. b - 1, n \in S PROVE n + 1 \in S
    <3>1. n + 1 \in 0 .. b /\ n + 1 # 0 /\ (n + 1) - 1 = n /\ n + 1 \in 1 .. b
      BY <1>1
    <3>2. f[n] \in Scanned(l, (n + 1) - 1)
      BY <2>2, <3>1
    <3>3. f[n + 1] = turn(f[n])
      <4> HIDE DEF x
      <4> QED BY <1>7, <3>1
    <3>4. f[n + 1] \in Scanned(l, n + 1)
      BY <1>3, <3>1, <3>2, <3>3
    <3> QED BY <3>1, <3>4
  <2>3. 0 \in Int /\ b \in Int /\ b \in 0 .. b /\ \A n \in 0 .. b - 1 : n \in S => n + 1 \in S
    BY <1>1, <2>2
  <2> HIDE DEF S, b
  <2>4. b \in S
    BY <2>1, <2>3, IntervalInduction
  <2> QED BY <2>4 DEF S
<1> QED BY <1>6, <1>8

(* The words in a header are the first of the line, and all there is room     *)
(* for once the line was read.                                               *)
StoredWords(l, words) ==
  /\ words \in Seq(Spans) /\ FirstWords(l, words, Len(text))
  /\ Len(text) > Len(l) => \/ Len(words) = Begun(l, Len(l))
                           \/ Len(words) = 3 /\ Begun(l, Len(l)) >= 4

LEMMA ScanResult ==
  ASSUME NEW l, ReadsLine(l)
  PROVE  LET s == Requests!Scan[Len(text)]
         IN  /\ StoredWords(l, s.words)
             /\ s.next \in Nat
             /\ Len(text) <= Len(l) => s.next = Len(text)
             /\ Len(text) > Len(l) /\ Begun(l, Len(l)) <= 3 => s.next = Len(l) + 1
<1> DEFINE s == Requests!Scan[Len(text)]
           n == Len(text)
           N == Len(l)
<1>1. n \in Nat /\ N \in Nat /\ Begun(l, N) \in Nat
  <2>1. n \in Nat /\ N \in Nat /\ l \in Seq(ReqChars)
    BY DEF ReadsLine
  <2> QED BY <2>1, BegunShape
<1>2. s \in Scanned(l, n)
  BY ScanShape, Zenon
<1> HIDE DEF s
<1>3. s.words \in Seq(Spans) /\ s.next \in Nat /\ FirstWords(l, s.words, n)
  BY <1>2 DEF Scanned, Scans
<1>4. n <= N => ~Past(l, n, s)
  BY <1>1 DEF Past
<1>5. n > N => ~Between(l, n, s) /\ ~Inside(l, n, s)
  BY <1>1 DEF Between, Inside
<1>6. Begun(l, N) <= 3 => ~Crowded(l, n, s)
  BY <1>1 DEF Crowded
<1>7. Between(l, n, s) \/ Inside(l, n, s) \/ Past(l, n, s) \/ Crowded(l, n, s)
  BY <1>2 DEF Scanned
<1>8. n <= N => s.next = n
  BY <1>4, <1>7, Zenon DEF Between, Inside, Crowded
<1>9. n > N /\ Begun(l, N) <= 3 => s.next = N + 1
  BY <1>5, <1>6, <1>7, Zenon DEF Past
<1>10. n > N => Len(s.words) = Begun(l, N) \/ (Len(s.words) = 3 /\ Begun(l, N) >= 4)
  BY <1>5, <1>7, Zenon DEF Past, Crowded
<1> QED BY <1>3, <1>8, <1>9, <1>10, Zenon DEF StoredWords, s

(* Equal texts are cut out of texts that are equal there.                     *)
LEMMA SameCut ==
  ASSUME NEW S, NEW u \in Seq(S), NEW v \in Seq(S), NEW a \in Nat, NEW z \in Nat, a > 0,
         z <= Len(u), z <= Len(v), \A k \in a .. z : u[k] = v[k]
  PROVE  SubSeq(u, a, z) = SubSeq(v, a, z)
<1>1. SubSeq(u, a, z) = [i \in 1 .. z - a + 1 |-> u[a + i - 1]]
      /\ SubSeq(v, a, z) = [i \in 1 .. z - a + 1 |-> v[a + i - 1]]
  OBVIOUS
<1>2. \A i \in 1 .. z - a + 1 : a + i - 1 \in a .. z
  OBVIOUS
<1>3. \A i \in 1 .. z - a + 1 : u[a + i - 1] = v[a + i - 1]
  BY <1>2
<1> QED BY <1>1, <1>3

(* Stored words are whole words of the line.                                  *)
LEMMA WordIs ==
  ASSUME NEW l, ReadsLine(l), StoredWords(l, header.words), NEW i \in 1 .. 3
  PROVE  /\ i <= Len(header.words) =>
              /\ i \in 1 .. Len(Requests!Words(l))
              /\ Requests!Word(i) = Requests!Words(l)[i]
         /\ i > Len(header.words) => Requests!Word(i) = << >>
<1> DEFINE w == header.words[i]
           a == w.start + 1
           z == w.start + w.size
<1>1. l \in Seq(ReqChars) /\ text \in Seq(ReqChars) /\ Len(text) \in Nat /\ Len(l) \in Nat
  BY DEF ReadsLine
<1>2. Len(header.words) \in Nat /\ header.words \in Seq(Spans)
  BY DEF StoredWords
<1>3. ASSUME i <= Len(header.words)
      PROVE  i \in 1 .. Len(Requests!Words(l)) /\ Requests!Word(i) = Requests!Words(l)[i]
  <2>1. i \in 1 .. Len(header.words)
    BY <1>2, <1>3
  <2>2. w \in Spans
    BY <1>2, <2>1
  <2>3. IsWord(l, i, a, z) /\ z <= Len(text)
    BY <2>1, Zenon DEF StoredWords, FirstWords
  <2> HIDE DEF w
  <2>4. a \in Nat /\ z \in Nat /\ a > 0
    BY <2>2 DEF Spans
  <2>5. Requests!Word(i) = SubSeq(text, a, z)
    BY <1>3, Zenon DEF Requests!Word, Requests!String, w
  <2> HIDE DEF a, z
  <2>6. z <= Len(l)
    BY <1>1, <2>3, <2>4 DEF IsWord
  <2>7. \A k \in a .. z : text[k] = l[k]
    <3>1. \A k \in a .. z : k \in 1 .. Len(text) /\ k <= Len(l)
      BY <1>1, <2>3, <2>4, <2>6
    <3> QED BY <3>1, Zenon DEF ReadsLine
  <2>8. SubSeq(text, a, z) = SubSeq(l, a, z)
    <3>1. text \in Seq(ReqChars) /\ l \in Seq(ReqChars)
      BY <1>1, Zenon
    <3>2. z <= Len(text)
      BY <2>3, Zenon
    <3> QED BY <2>4, <2>6, <2>7, <3>1, <3>2, SameCut, Zenon
  <2>9. /\ i \in 1 .. Begun(l, Len(l)) /\ Requests!Words(l)[i] = SubSeq(l, a, z)
        /\ Len(Requests!Words(l)) = Begun(l, Len(l))
    BY <1>1, <2>3, WordsShape, Zenon
  <2> QED BY <2>5, <2>8, <2>9, Zenon
<1>4. i > Len(header.words) => ~(i <= Len(header.words))
  BY <1>2
<1> QED BY <1>3, <1>4, Zenon DEF Requests!Word

LEMMA WordsAreWhole ==
  ASSUME ReadsLine(request.line), requestAt # "received" =>
           StoredWords(request.line, header.words)
  PROVE  Requests!WordsWhole
<1> DEFINE l == request.line
           full == Requests!Words(l)
           m == Len(header.words)
<1> SUFFICES ASSUME requestAt # "received"
             PROVE  /\ \A i \in 1 .. 3 : Requests!Word(i) # << >> =>
                          i <= Len(full) /\ Requests!Word(i) = full[i]
                    /\ Len(text) > Len(l) =>
                          \A i \in 1 .. 3 : i <= Len(full) => Requests!Word(i) = full[i]
                    /\ Requests!Route = "about" => Len(full) >= 2 /\ full[2] = About
  BY Zenon DEF Requests!WordsWhole, Requests!Parsed
<1>1. StoredWords(l, header.words) /\ ReadsLine(l)
  BY Zenon
<1>2. m \in Nat /\ Len(full) \in Nat /\ Len(full) = Begun(l, Len(l))
  <2>1. l \in Seq(ReqChars)
    BY <1>1 DEF ReadsLine
  <2> QED BY <1>1, <2>1, WordsShape DEF StoredWords
<1> HIDE DEF l, full
<1>3. \A i \in 1 .. 3 : /\ i <= m => i \in 1 .. Len(full) /\ Requests!Word(i) = full[i]
                        /\ i > m => Requests!Word(i) = << >>
  BY <1>1, WordIs, Zenon DEF full
<1>4. ASSUME NEW i \in 1 .. 3, Requests!Word(i) # << >>
      PROVE  i <= Len(full) /\ Requests!Word(i) = full[i]
  <2>1. i <= m
    BY <1>2, <1>3, <1>4
  <2> QED BY <1>2, <1>3, <2>1
<1>5. ASSUME Len(text) > Len(l), NEW i \in 1 .. 3, i <= Len(full) PROVE Requests!Word(i) = full[i]
  <2>1. m = Len(full) \/ m = 3
    BY <1>1, <1>2, <1>5, Zenon DEF StoredWords
  <2>2. i <= m
    <3>1. i \in 1 .. 3 => i <= 3
      OBVIOUS
    <3> QED BY <1>5, <2>1, <3>1, Zenon
  <2> QED BY <1>3, <2>2, Zenon
<1>6. ASSUME Requests!Route = "about" PROVE Len(full) >= 2 /\ full[2] = About
  <2>1. Requests!Word(2) = About
    BY <1>6 DEF Requests!Route
  <2>2. Requests!Word(2) # << >> /\ 2 \in 1 .. 3
    <3>1. About # << >>
      BY RequestAssumption, Zenon
    <3>2. 2 \in 1 .. 3
      OBVIOUS
    <3> QED BY <2>1, <3>1, <3>2, Zenon
  <2>3. 2 <= Len(full) /\ Requests!Word(2) = full[2]
    BY <1>4, <2>2, Zenon
  <2> QED BY <1>2, <2>1, <2>3
<1> QED BY <1>4, <1>5, <1>6

--------------------------------------------------------------------------------
(* What a request consists of.                                                *)
IsRequest(r) == r.line \in Lines /\ r.eol \in Eols /\ r.fields \in Fields

IsField(f) ==
  /\ f.key \in Seq(ReqChars) /\ f.gap \in Seq(ReqChars) /\ f.value \in Seq(ReqChars)
  /\ \A i \in 1 .. Len(f.key) : f.key[i] \notin {" ", ":", "CR", "LF"}
  /\ \A i \in 1 .. Len(f.gap) : f.gap[i] = " "
  /\ \A i \in 1 .. Len(f.value) : f.value[i] \notin EndChars
  /\ Len(f.value) = 0 \/ f.value[1] # " "

LEMMA RequestParts ==
  ASSUME NEW r, IsRequest(r)
  PROVE  /\ r.line \in Seq(ReqChars) /\ \A i \in 1 .. Len(r.line) : r.line[i] \notin EndChars
         /\ r.eol \in Seq(ReqChars) /\ \A i \in 1 .. Len(r.eol) : r.eol[i] \in EndChars
         /\ Len(r.eol) \in Nat \ {0} /\ (r.eol = <<"CR", "LF">> => Len(r.eol) = 2)
         /\ Len(r.fields) \in Nat /\ \A n \in 1 .. Len(r.fields) : IsField(r.fields[n])
<1> DEFINE Words_ == Seq(STRING)
           Record == [key : Words_, gap : Seq({" "}), value : Words_]
<1>11. ASSUME NEW S, S \subseteq ReqChars, NEW s \in Seq(S) PROVE s \in Seq(ReqChars)
  <2>1. Len(s) \in Nat /\ s \in [1 .. Len(s) -> S]
    OBVIOUS
  <2>2. s \in [1 .. Len(s) -> ReqChars]
    BY <1>11, <2>1
  <2> QED BY <2>1, <2>2
<1>1. \A s \in Words_ : s \in Seq(ReqChars)
  <2>1. STRING \subseteq ReqChars
    BY DEF ReqChars
  <2> QED BY <1>11, <2>1, Zenon
<1>2. \A s \in Seq({" "}) : s \in Seq(ReqChars) /\ \A i \in 1 .. Len(s) : s[i] = " "
  <2>1. {" "} \subseteq ReqChars
    BY DEF ReqChars
  <2>2. ASSUME NEW S, NEW s \in Seq(S), NEW i \in 1 .. Len(s) PROVE s[i] \in S
    OBVIOUS
  <2>3. \A s \in Seq({" "}) : \A i \in 1 .. Len(s) : s[i] \in {" "}
    BY <2>2, Zenon
  <2> QED BY <1>11, <2>1, <2>3, Zenon
<1>3. r.line \in {l \in Words_ : \A i \in DOMAIN l : l[i] \notin EndChars}
  BY RequestAssumption, Zenon DEF IsRequest, EndChars
<1>4. r.eol \in {<<"CR", "LF">>, <<"LF">>}
  BY RequestAssumption, Zenon DEF IsRequest
<1>5. r.fields \in Seq(Record)
  BY RequestAssumption, Zenon DEF IsRequest
<1>6. \A n \in DOMAIN r.fields :
        LET f == r.fields[n]
        IN  /\ \A i \in DOMAIN f.key : f.key[i] \notin {" ", ":", "CR", "LF"}
            /\ \A i \in DOMAIN f.value : f.value[i] \notin {"CR", "LF"}
            /\ f.value = << >> \/ f.value[1] # " "
  BY RequestAssumption, Zenon DEF IsRequest
<1>7. r.line \in Seq(ReqChars) /\ \A i \in 1 .. Len(r.line) : r.line[i] \notin EndChars
  BY <1>1, <1>3
<1>8. /\ r.eol \in Seq(ReqChars) /\ \A i \in 1 .. Len(r.eol) : r.eol[i] \in EndChars
      /\ Len(r.eol) \in Nat \ {0} /\ (r.eol = <<"CR", "LF">> => Len(r.eol) = 2)
  <2>1. CASE r.eol = <<"CR", "LF">>
    BY <2>1 DEF ReqChars, EndChars
  <2>2. CASE r.eol = <<"LF">>
    BY <2>2 DEF ReqChars, EndChars
  <2> QED BY <1>4, <2>1, <2>2
<1>9. ASSUME NEW n \in 1 .. Len(r.fields) PROVE IsField(r.fields[n])
  <2> DEFINE f == r.fields[n]
  <2>1. n \in DOMAIN r.fields /\ f \in Record
    <3> HIDE DEF Record
    <3> QED BY <1>5
  <2>2. /\ \A i \in DOMAIN f.key : f.key[i] \notin {" ", ":", "CR", "LF"}
        /\ \A i \in DOMAIN f.value : f.value[i] \notin EndChars
        /\ f.value = << >> \/ f.value[1] # " "
    BY <1>6, <2>1, Zenon DEF EndChars
  <2> HIDE DEF f
  <2>3. f.key \in Words_ /\ f.gap \in Seq({" "}) /\ f.value \in Words_
    BY <2>1
  <2>4. DOMAIN f.key = 1 .. Len(f.key) /\ DOMAIN f.value = 1 .. Len(f.value)
        /\ (f.value = << >> => Len(f.value) = 0)
    <3>1. \A s \in Words_ : DOMAIN s = 1 .. Len(s) /\ (s = << >> => Len(s) = 0)
      OBVIOUS
    <3> QED BY <2>3, <3>1, Zenon
  <2> QED BY <1>1, <1>2, <2>2, <2>3, <2>4, Zenon DEF IsField, f
<1>10. Len(r.fields) \in Nat
  <2> HIDE DEF Record
  <2> QED BY <1>5
<1> QED BY <1>7, <1>8, <1>9, <1>10

(* A text stands in another from a position on.                               *)
Holds(v, p, w) == p + Len(w) <= Len(v) /\ \A i \in 1 .. Len(w) : v[p + i] = w[i]

LEMMA HoldsJoined ==
  ASSUME NEW u \in Seq(ReqChars), NEW w \in Seq(ReqChars)
  PROVE  /\ u \o w \in Seq(ReqChars) /\ Len(u \o w) = Len(u) + Len(w)
         /\ Holds(u \o w, 0, u) /\ Holds(u \o w, Len(u), w)
<1>1. u \o w \in Seq(ReqChars) /\ Len(u \o w) = Len(u) + Len(w)
      /\ Len(u) \in Nat /\ Len(w) \in Nat
  OBVIOUS
<1>2. \A i \in 1 .. Len(u) : (u \o w)[0 + i] = u[i]
  OBVIOUS
<1>3. \A i \in 1 .. Len(w) : (u \o w)[Len(u) + i] = w[i]
  OBVIOUS
<1>4. 0 + Len(u) <= Len(u) + Len(w) /\ Len(u) + Len(w) <= Len(u) + Len(w)
  BY <1>1
<1> QED BY <1>1, <1>2, <1>3, <1>4, Zenon DEF Holds

(* And in what that stands in.                                                *)
LEMMA HoldsWithin ==
  ASSUME NEW t \in Seq(ReqChars), NEW v \in Seq(ReqChars), NEW w \in Seq(ReqChars),
         NEW p \in Nat, NEW q \in Nat, Holds(t, p, v), Holds(v, q, w)
  PROVE  Holds(t, p + q, w)
<1>1. Len(t) \in Nat /\ Len(v) \in Nat /\ Len(w) \in Nat
  OBVIOUS
<1>2. p + Len(v) <= Len(t) /\ q + Len(w) <= Len(v)
  BY Zenon DEF Holds
<1>3. (p + q) + Len(w) <= Len(t)
  BY <1>1, <1>2
<1>4. ASSUME NEW i \in 1 .. Len(w) PROVE t[(p + q) + i] = w[i]
  <2>1. q + i \in 1 .. Len(v) /\ p + (q + i) = (p + q) + i
    BY <1>1, <1>2
  <2>2. t[p + (q + i)] = v[q + i] /\ v[q + i] = w[i]
    BY <2>1, Zenon DEF Holds
  <2> QED BY <2>1, <2>2
<1> QED BY <1>3, <1>4, Zenon DEF Holds

(* A field, by the places of its parts.                                       *)
FieldHolds(v, p, f) ==
  LET k == Len(f.key)
      g == Len(f.gap)
  IN  /\ Holds(v, p, f.key) /\ Holds(v, p + k, <<":">>)
      /\ Holds(v, p + k + 1, f.gap) /\ Holds(v, p + k + 1 + g, f.value)

LEMMA FieldShape ==
  ASSUME NEW f, IsField(f)
  PROVE  /\ Requests!Field(f) \in Seq(ReqChars)
         /\ Len(Requests!Field(f)) = Len(f.key) + 1 + Len(f.gap) + Len(f.value)
         /\ FieldHolds(Requests!Field(f), 0, f)
<1> DEFINE C == <<":">>
           a == f.key \o C
           b == a \o f.gap
           c == b \o f.value
           k == Len(f.key)
           g == Len(f.gap)
<1>1. f.key \in Seq(ReqChars) /\ f.gap \in Seq(ReqChars) /\ f.value \in Seq(ReqChars)
  BY DEF IsField
<1>2. C \in Seq(ReqChars) /\ Len(C) = 1
  BY DEF ReqChars
<1>3. Requests!Field(f) = c
  BY Zenon DEF Requests!Field
<1>4. k \in Nat /\ g \in Nat /\ Len(f.value) \in Nat
  BY <1>1
<1> HIDE DEF C
<1>5. a \in Seq(ReqChars) /\ Len(a) = k + 1 /\ Holds(a, 0, f.key) /\ Holds(a, k, C)
  BY <1>1, <1>2, HoldsJoined, Zenon
<1> HIDE DEF a
<1>6. b \in Seq(ReqChars) /\ Len(b) = k + 1 + g /\ Holds(b, 0, a) /\ Holds(b, k + 1, f.gap)
  BY <1>1, <1>5, HoldsJoined, Zenon
<1> HIDE DEF b
<1>7. /\ c \in Seq(ReqChars) /\ Len(c) = k + 1 + g + Len(f.value)
      /\ Holds(c, 0, b) /\ Holds(c, k + 1 + g, f.value)
  <2>1. c \in Seq(ReqChars) /\ Len(c) = Len(b) + Len(f.value)
        /\ Holds(c, 0, b) /\ Holds(c, Len(b), f.value)
    BY <1>1, <1>6, HoldsJoined, Zenon
  <2> QED BY <1>6, <2>1, Zenon
<1> HIDE DEF c
<1>8. 0 \in Nat /\ 0 + 0 = 0 /\ 0 + k = k /\ 0 + (k + 1) = k + 1 /\ k + 1 \in Nat
      /\ 0 + k + 1 = k + 1 /\ 0 + k + 1 + g = k + 1 + g
  BY <1>4
<1>9. Holds(b, 0, f.key) /\ Holds(b, k, C)
  BY <1>1, <1>2, <1>4, <1>5, <1>6, <1>8, HoldsWithin, Zenon
<1>10. Holds(c, 0, f.key) /\ Holds(c, k, C) /\ Holds(c, k + 1, f.gap)
  BY <1>1, <1>2, <1>4, <1>6, <1>7, <1>8, <1>9, HoldsWithin, Zenon
<1> QED BY <1>3, <1>7, <1>8, <1>10, Zenon DEF FieldHolds, C

(* The lines of the fields, one after the other.                              *)
LEMMA FieldLinesShape ==
  ASSUME NEW r, IsRequest(r)
  PROVE  /\ Requests!FieldLines(r)[0] = << >>
         /\ \A n \in 1 .. Len(r.fields) :
              Requests!FieldLines(r)[n]
                = Requests!FieldLines(r)[n - 1] \o Requests!Field(r.fields[n]) \o r.eol
         /\ \A n \in 0 .. Len(r.fields) : Requests!FieldLines(r)[n] \in Seq(ReqChars)
<1> DEFINE b == Len(r.fields)
           X == Seq(ReqChars)
           turn(q, n) == q \o Requests!Field(r.fields[n]) \o r.eol
           T == [n \in 0 .. b |-> X]
           step == [n \in 1 .. b |-> [q \in X |-> turn(q, n)]]
           Shape(f) == f = [n \in 0 .. b |-> IF n = 0 THEN << >>
                              ELSE f[n - 1] \o Requests!Field(r.fields[n]) \o r.eol]
<1>1. b \in Nat /\ r.eol \in X /\ \A n \in 1 .. b : IsField(r.fields[n])
  BY RequestParts, Zenon
<1>2. ASSUME NEW n \in 1 .. b, NEW q \in X PROVE turn(q, n) \in X
  <2>1. Requests!Field(r.fields[n]) \in X
    BY <1>1, FieldShape, Zenon
  <2>2. q \o Requests!Field(r.fields[n]) \in X
    BY <2>1, HoldsJoined, Zenon
  <2> QED BY <1>1, <2>2, HoldsJoined, Zenon
<1>3. << >> \in X
  OBVIOUS
<1>9. ASSUME NEW f PROVE Shape(f) <=> f = [n \in 0 .. b |-> IF n = 0 THEN << >> ELSE turn(f[n - 1], n)]
  OBVIOUS
<1> HIDE DEF turn, X, Shape
<1>4. PICK h : Computed(h, << >>, step, T, X, 0, b)
  <2>1. \A n \in 0 .. b : T[n] \subseteq X
    OBVIOUS
  <2>2. \A n \in 1 .. b : \A s \in T[n - 1] : step[n][s] \in T[n]
    <3> SUFFICES ASSUME NEW n \in 1 .. b, NEW s \in T[n - 1] PROVE step[n][s] \in T[n]
      OBVIOUS
    <3>1. n \in 0 .. b /\ n - 1 \in 0 .. b
      BY <1>1
    <3> QED BY <1>2, <3>1
  <2>3. << >> \in T[0] /\ 0 \in Int /\ b \in Int /\ 0 <= b /\ 0 + 1 = 1
    BY <1>1, <1>3
  <2> HIDE DEF b, T, step
  <2>4. Leads(step, T, X, 0, b)
    BY <2>1, <2>2, <2>3 DEF Leads
  <2> QED BY <2>3, <2>4, RecursionExists
<1>5. Shape(h)
  <2>1. ASSUME NEW n \in 0 .. b, n # 0 PROVE h[n] = turn(h[n - 1], n)
    <3>1. n \in 0 + 1 .. b /\ n - 1 \in 0 .. b /\ n \in 1 .. b
      BY <1>1, <2>1
    <3>2. h[n - 1] \in X
      BY <1>4, <3>1 DEF Computed
    <3>3. h[n] = step[n][h[n - 1]]
      BY <1>4, <3>1, Zenon DEF Computed
    <3> QED BY <3>1, <3>2, <3>3
  <2> HIDE DEF b, T, step
  <2>2. h \in [0 .. b -> X] /\ h[0] = << >>
    BY <1>4 DEF Computed
  <2> QED BY <1>9, <2>1, <2>2
<1> DEFINE f == CHOOSE f : Shape(f)
<1>6. Requests!FieldLines(r) = f
  BY DEF Requests!FieldLines, Shape
<1>7. Shape(f)
  BY <1>5
<1> HIDE DEF f
<1>8. f[0] = << >> /\ \A n \in 1 .. b : f[n] = turn(f[n - 1], n)
  <2>1. 0 \in 0 .. b /\ \A n \in 1 .. b : n \in 0 .. b /\ n # 0
    BY <1>1
  <2> QED BY <1>7, <1>9, <2>1
<1> DEFINE S == {n \in 0 .. b : f[n] \in X}
<1>10. \A n \in 0 .. b : f[n] \in X
  <2>1. 0 \in S
    BY <1>1, <1>3, <1>8
  <2>2. ASSUME NEW n \in 0 .. b - 1, n \in S PROVE n + 1 \in S
    <3>1. n + 1 \in 0 .. b /\ (n + 1) - 1 = n /\ n + 1 \in 1 .. b
      BY <1>1
    <3>2. f[n + 1] = turn(f[n], n + 1)
      BY <1>8, <3>1
    <3> QED BY <1>2, <2>2, <3>1, <3>2
  <2>3. 0 \in Int /\ b \in Int /\ \A n \in 0 .. b - 1 : n \in S => n + 1 \in S
    BY <1>1, <2>2
  <2> HIDE DEF S
  <2>4. \A n \in 0 .. b : n \in S
    BY <2>1, <2>3, IntervalInduction
  <2> QED BY <2>4 DEF S
<1> QED BY <1>6, <1>8, <1>10, Zenon DEF turn, X

(* What is sent when field n is complete.                                     *)
Sent(r, n) == r.line \o r.eol \o Requests!FieldLines(r)[n]

LEMMA SentShape ==
  ASSUME NEW r, IsRequest(r)
  PROVE  /\ \A n \in 0 .. Len(r.fields) : Sent(r, n) \in Seq(ReqChars)
         /\ Sent(r, 0) = r.line \o r.eol
         /\ \A n \in 1 .. Len(r.fields) :
              Sent(r, n) = Sent(r, n - 1) \o (Requests!Field(r.fields[n]) \o r.eol)
         /\ Requests!Text(r) = Sent(r, Len(r.fields)) \o r.eol
<1> DEFINE b == Len(r.fields)
           X == Seq(ReqChars)
           fl(k) == Requests!FieldLines(r)[k]
           head == r.line \o r.eol
<1>1. b \in Nat /\ r.line \in X /\ r.eol \in X /\ \A n \in 1 .. b : Requests!Field(r.fields[n]) \in X
  BY RequestParts, FieldShape, Zenon
<1>2. /\ fl(0) = << >>
      /\ \A n \in 0 .. b : fl(n) \in X
      /\ \A n \in 1 .. b : fl(n) = fl(n - 1) \o Requests!Field(r.fields[n]) \o r.eol
  BY FieldLinesShape, Zenon
<1>3. head \in X
  BY <1>1, HoldsJoined, Zenon
<1>9. \A s, t, u \in X : (s \o t) \o u = s \o (t \o u)
  BY ConcatAssociative
<1>10. \A s, t \in X : s \o t \in X
  BY HoldsJoined, Zenon
<1> HIDE DEF head, X
<1>4. \A n : Sent(r, n) = head \o fl(n)
  BY Zenon DEF Sent, head
<1> HIDE DEF fl
<1>5. \A n \in 0 .. b : Sent(r, n) \in X
  BY <1>2, <1>3, <1>4, <1>10, Zenon
<1>6. Sent(r, 0) = head
  <2>1. head \o << >> = head
    BY <1>3, ConcatEmptySeq, Zenon DEF X
  <2> QED BY <1>2, <1>4, <2>1, Zenon
<1>7. ASSUME NEW n \in 1 .. b
      PROVE  Sent(r, n) = Sent(r, n - 1) \o (Requests!Field(r.fields[n]) \o r.eol)
  <2> DEFINE a == fl(n - 1)
             c == Requests!Field(r.fields[n])
  <2>1. n - 1 \in 0 .. b
    BY <1>1
  <2>2. a \in X /\ c \in X
    BY <1>1, <1>2, <2>1, Zenon
  <2>3. fl(n) = a \o c \o r.eol
    BY <1>2, Zenon
  <2>4. Sent(r, n) = head \o fl(n) /\ Sent(r, n - 1) = head \o a
    BY <1>4, Zenon
  <2> HIDE DEF a, c
  <2>5. (a \o c) \o r.eol = a \o (c \o r.eol)
    BY <1>1, <2>2, <1>9, Zenon
  <2>6. c \o r.eol \in X
    BY <1>1, <2>2, <1>10, Zenon
  <2>7. (head \o a) \o (c \o r.eol) = head \o (a \o (c \o r.eol))
    BY <1>3, <2>2, <2>6, <1>9, Zenon
  <2> QED BY <2>3, <2>4, <2>5, <2>7, Zenon DEF c
<1>8. Requests!Text(r) = Sent(r, b) \o r.eol
  BY Zenon DEF Requests!Text, Sent
<1> QED BY <1>5, <1>6, <1>7, <1>8, Zenon DEF head, X

LEMMA SentHolds ==
  ASSUME NEW r, IsRequest(r), NEW n \in 1 .. Len(r.fields)
  PROVE  LET s == Sent(r, n)
             p == Len(Sent(r, n - 1))
             z == p + Len(Requests!Field(r.fields[n]))
         IN  /\ s \in Seq(ReqChars) /\ Sent(r, n - 1) \in Seq(ReqChars)
             /\ p \in Nat /\ z \in Nat /\ Len(s) = z + Len(r.eol)
             /\ Holds(s, 0, Sent(r, n - 1)) /\ FieldHolds(s, p, r.fields[n]) /\ Holds(s, z, r.eol)
<1> DEFINE f == r.fields[n]
           d == Requests!Field(f)
           l == d \o r.eol
           q == Sent(r, n - 1)
           s == Sent(r, n)
           p == Len(q)
           z == p + Len(d)
<1>1. Len(r.fields) \in Nat /\ r.eol \in Seq(ReqChars) /\ IsField(f)
  BY RequestParts, Zenon
<1>2. /\ d \in Seq(ReqChars) /\ Len(d) = Len(f.key) + 1 + Len(f.gap) + Len(f.value)
      /\ FieldHolds(d, 0, f)
  BY <1>1, FieldShape, Zenon
<1>3. n - 1 \in 0 .. Len(r.fields) /\ n \in 0 .. Len(r.fields)
  BY <1>1
<1>4. q \in Seq(ReqChars) /\ s = q \o l
  BY <1>3, SentShape, Zenon
<1>5. /\ f.key \in Seq(ReqChars) /\ f.gap \in Seq(ReqChars) /\ f.value \in Seq(ReqChars)
      /\ <<":">> \in Seq(ReqChars)
  <2>1. <<":">> \in Seq(ReqChars)
    BY DEF ReqChars
  <2> QED BY <1>1, <2>1, Zenon DEF IsField
<1> HIDE DEF f, d
<1>6. /\ l \in Seq(ReqChars) /\ Len(l) = Len(d) + Len(r.eol)
      /\ Holds(l, 0, d) /\ Holds(l, Len(d), r.eol)
  BY <1>1, <1>2, HoldsJoined, Zenon
<1> HIDE DEF l, q
<1>7. /\ s \in Seq(ReqChars) /\ Len(s) = p + Len(l)
      /\ Holds(s, 0, q) /\ Holds(s, p, l)
  BY <1>4, <1>6, HoldsJoined, Zenon
<1>8. /\ p \in Nat /\ Len(d) \in Nat /\ Len(r.eol) \in Nat
      /\ Len(f.key) \in Nat /\ Len(f.gap) \in Nat /\ 0 \in Nat
  <2>1. 0 \in Nat /\ \A w \in Seq(ReqChars) : Len(w) \in Nat
    OBVIOUS
  <2> QED BY <1>1, <1>2, <1>4, <1>5, <2>1, Zenon
<1>9. Holds(s, p + 0, d) /\ Holds(s, z, r.eol)
  BY <1>1, <1>2, <1>6, <1>7, <1>8, HoldsWithin, Zenon
<1>10. z \in Nat /\ p + 0 = p /\ Len(s) = z + Len(r.eol)
  <2>1. \A x, y, w \in Nat : x + y \in Nat /\ x + 0 = x
    OBVIOUS
  <2>4. p + (Len(d) + Len(r.eol)) = (p + Len(d)) + Len(r.eol)
    <3> DEFINE y == Len(d)
               w == Len(r.eol)
    <3>1. p \in Nat /\ y \in Nat /\ w \in Nat
      BY <1>8, Zenon
    <3> HIDE DEF p, y, w
    <3>2. p + (y + w) = (p + y) + w
      BY <3>1
    <3> QED BY <3>2, Zenon DEF y, w
  <2>5. Len(s) = p + (Len(d) + Len(r.eol))
    BY <1>6, <1>7, Zenon
  <2>3. Len(s) = (p + Len(d)) + Len(r.eol)
    BY <2>4, <2>5, Zenon
  <2> QED BY <1>8, <2>1, <2>3, Zenon
<1> HIDE DEF s, p
<1>11. FieldHolds(s, p, f)
  <2> DEFINE k == Len(f.key)
             g == Len(f.gap)
  <2>1. /\ 0 + k \in Nat /\ 0 + k + 1 \in Nat /\ 0 + k + 1 + g \in Nat
        /\ p + (0 + k) = p + k /\ p + (0 + k + 1) = p + k + 1
        /\ p + (0 + k + 1 + g) = p + k + 1 + g
    <3>1. \A x, y, w \in Nat :
            /\ 0 + y \in Nat /\ 0 + y + 1 \in Nat /\ 0 + y + 1 + w \in Nat
            /\ x + (0 + y) = x + y /\ x + (0 + y + 1) = x + y + 1
            /\ x + (0 + y + 1 + w) = x + y + 1 + w
      OBVIOUS
    <3>2. \A y \in Nat : \A w \in Nat :
            /\ 0 + y \in Nat /\ 0 + y + 1 \in Nat /\ 0 + y + 1 + w \in Nat
            /\ p + (0 + y) = p + y /\ p + (0 + y + 1) = p + y + 1
            /\ p + (0 + y + 1 + w) = p + y + 1 + w
      BY <1>8, <3>1, Zenon
    <3> QED BY <1>8, <3>2, Zenon
  <2>2. /\ Holds(d, 0, f.key) /\ Holds(d, 0 + k, <<":">>)
        /\ Holds(d, 0 + k + 1, f.gap) /\ Holds(d, 0 + k + 1 + g, f.value)
    BY <1>2, Zenon DEF FieldHolds
  <2>3. Holds(s, p, d)
    BY <1>9, <1>10, Zenon
  <2>4. \A w \in Seq(ReqChars) : \A i \in Nat : Holds(d, i, w) => Holds(s, p + i, w)
    BY <1>2, <1>7, <1>8, <2>3, HoldsWithin, Zenon
  <2>5. /\ Holds(s, p + 0, f.key) /\ Holds(s, p + (0 + k), <<":">>)
        /\ Holds(s, p + (0 + k + 1), f.gap) /\ Holds(s, p + (0 + k + 1 + g), f.value)
    BY <1>5, <1>8, <2>1, <2>2, <2>4, Zenon
  <2> HIDE DEF k, g
  <2>6. /\ Holds(s, p, f.key) /\ Holds(s, p + k, <<":">>)
        /\ Holds(s, p + k + 1, f.gap) /\ Holds(s, p + k + 1 + g, f.value)
    BY <1>10, <2>1, <2>5, Zenon
  <2> QED BY <2>6, Zenon DEF FieldHolds, k, g
<1> QED BY <1>4, <1>7, <1>8, <1>9, <1>10, <1>11, Zenon DEF f, q, s, p, d

(* What was sent stays at the head of the whole text.                         *)
LEMMA TextHolds ==
  ASSUME NEW r, IsRequest(r)
  PROVE  LET t == Requests!Text(r)
             b == Len(r.fields)
         IN  /\ t \in Seq(ReqChars) /\ Len(t) \in Nat
             /\ \A n \in 0 .. b : Len(Sent(r, n)) \in Nat /\ Holds(t, 0, Sent(r, n))
             /\ Holds(t, Len(Sent(r, b)), r.eol) /\ Len(t) = Len(Sent(r, b)) + Len(r.eol)
             /\ Holds(t, 0, r.line) /\ Holds(t, Len(r.line), r.eol)
             /\ Len(Sent(r, 0)) = Len(r.line) + Len(r.eol)
<1> DEFINE t == Requests!Text(r)
           b == Len(r.fields)
           s(k) == Sent(r, k)
           S == {k \in 0 .. b : Holds(t, 0, s(b - k))}
<1>1. b \in Nat /\ r.line \in Seq(ReqChars) /\ r.eol \in Seq(ReqChars)
  BY RequestParts, Zenon
<1>2. /\ \A n \in 0 .. b : s(n) \in Seq(ReqChars)
      /\ s(0) = r.line \o r.eol /\ t = s(b) \o r.eol
  BY SentShape, Zenon
<1>3. b \in 0 .. b /\ 0 \in 0 .. b /\ b - 0 = b
  BY <1>1
<1>4. /\ t \in Seq(ReqChars) /\ Len(t) = Len(s(b)) + Len(r.eol)
      /\ Holds(t, 0, s(b)) /\ Holds(t, Len(s(b)), r.eol)
  <2>1. s(b) \in Seq(ReqChars)
    BY <1>2, <1>3, Zenon
  <2> HIDE DEF s, b
  <2>2. t = s(b) \o r.eol
    BY <1>2, Zenon
  <2> HIDE DEF t
  <2> QED BY <1>1, <2>1, <2>2, HoldsJoined, Zenon
<1>5. ASSUME NEW n \in 1 .. b PROVE Holds(s(n), 0, s(n - 1))
  BY SentHolds, Zenon
<1> HIDE DEF s, t
<1>6. \A k \in 0 .. b : k \in S
  <2>1. 0 \in S
    BY <1>3, <1>4
  <2>2. ASSUME NEW k \in 0 .. b - 1, k \in S PROVE k + 1 \in S
    <3>1. /\ k + 1 \in 0 .. b /\ b - k \in 1 .. b /\ b - k \in 0 .. b
          /\ (b - k) - 1 \in 0 .. b /\ (b - k) - 1 = b - (k + 1)
          /\ 0 \in Nat /\ 0 + 0 = 0
      BY <1>1
    <3>2. Holds(t, 0, s(b - k)) /\ Holds(s(b - k), 0, s((b - k) - 1))
      BY <1>5, <2>2, <3>1
    <3>3. s(b - k) \in Seq(ReqChars) /\ s((b - k) - 1) \in Seq(ReqChars)
      BY <1>2, <3>1, Zenon
    <3>6. \A v, w \in Seq(ReqChars) : Holds(t, 0, v) /\ Holds(v, 0, w) => Holds(t, 0 + 0, w)
      BY <1>4, <3>1, HoldsWithin, Zenon
    <3>4. Holds(t, 0 + 0, s((b - k) - 1))
      BY <3>2, <3>3, <3>6, Zenon
    <3>5. Holds(t, 0, s(b - (k + 1)))
      BY <3>1, <3>4, Zenon
    <3> QED BY <3>1, <3>5
  <2>3. 0 \in Int /\ b \in Int /\ \A k \in 0 .. b - 1 : k \in S => k + 1 \in S
    BY <1>1, <2>2
  <2> HIDE DEF S
  <2> QED BY <2>1, <2>3, IntervalInduction
<1>7. ASSUME NEW n \in 0 .. b PROVE Len(s(n)) \in Nat /\ Holds(t, 0, s(n))
  <2>1. b - n \in 0 .. b /\ b - (b - n) = n
    BY <1>1
  <2>2. Holds(t, 0, s(b - (b - n)))
    BY <1>6, <2>1
  <2>3. s(n) \in Seq(ReqChars)
    BY <1>2, Zenon
  <2> QED BY <2>1, <2>2, <2>3
<1>8. Holds(s(0), 0, r.line) /\ Holds(s(0), Len(r.line), r.eol) /\ Len(s(0)) = Len(r.line) + Len(r.eol)
  BY <1>1, <1>2, HoldsJoined, Zenon
<1>9. /\ Len(t) \in Nat /\ Len(r.line) \in Nat /\ 0 \in Nat
      /\ 0 + 0 = 0 /\ 0 + Len(r.line) = Len(r.line)
  <2>1. /\ \A w \in Seq(ReqChars) : Len(w) \in Nat
        /\ \A n \in Nat : 0 + n = n
        /\ 0 \in Nat
    OBVIOUS
  <2> QED BY <1>1, <1>4, <2>1, Zenon
<1>10. Holds(t, 0, r.line) /\ Holds(t, Len(r.line), r.eol)
  <2>1. Holds(t, 0 + 0, r.line) /\ Holds(t, 0 + Len(r.line), r.eol)
    BY <1>1, <1>2, <1>3, <1>4, <1>7, <1>8, <1>9, HoldsWithin, Zenon
  <2> QED BY <1>9, <2>1, Zenon
<1> QED BY <1>4, <1>7, <1>8, <1>9, <1>10, Zenon DEF s, t

LEMMA SentGrows ==
  ASSUME NEW r, IsRequest(r), NEW n \in 0 .. Len(r.fields), NEW m \in 0 .. Len(r.fields), n < m
  PROVE  Len(Sent(r, n)) + 1 + Len(r.eol) <= Len(Sent(r, m))
<1> DEFINE b == Len(r.fields)
           z == Len(r.eol)
           L(k) == Len(Sent(r, k))
           S == {k \in 0 .. b : n < k => L(n) + 1 + z <= L(k)}
<1>1. b \in Nat /\ z \in Nat /\ \A k \in 0 .. b : L(k) \in Nat
  BY RequestParts, TextHolds, Zenon
<1>2. ASSUME NEW k \in 1 .. b PROVE L(k - 1) + 1 + z <= L(k)
  <2> DEFINE f == r.fields[k]
             d == Len(Requests!Field(f))
  <2>1. L(k) = (L(k - 1) + d) + z
    BY SentHolds, Zenon
  <2>2. d = Len(f.key) + 1 + Len(f.gap) + Len(f.value) /\ IsField(f)
    BY RequestParts, FieldShape, Zenon
  <2>3. Len(f.key) \in Nat /\ Len(f.gap) \in Nat /\ Len(f.value) \in Nat
    <3>1. \A w \in Seq(ReqChars) : Len(w) \in Nat
      OBVIOUS
    <3> QED BY <2>2, <3>1, Zenon DEF IsField
  <2>4. k - 1 \in 0 .. b
    BY <1>1
  <2>5. L(k - 1) \in Nat
    BY <1>1, <2>4, Zenon
  <2> HIDE DEF L, d, z, f
  <2>6. d \in Nat /\ d >= 1
    <3> DEFINE x == Len(f.key)
               y == Len(f.gap)
               w == Len(f.value)
    <3>1. d = x + 1 + y + w /\ x \in Nat /\ y \in Nat /\ w \in Nat
      BY <2>2, <2>3, Zenon
    <3> HIDE DEF x, y, w
    <3> QED BY <3>1
  <2> QED BY <1>1, <2>1, <2>5, <2>6
<1> HIDE DEF L, z
<1>3. \A k \in 0 .. b : k \in S
  <2>1. 0 \in S
    BY <1>1
  <2>2. ASSUME NEW k \in 0 .. b - 1, k \in S PROVE k + 1 \in S
    <3>1. k + 1 \in 1 .. b /\ k + 1 \in 0 .. b /\ k \in 0 .. b /\ (k + 1) - 1 = k
      BY <1>1
    <3>2. L(k) + 1 + z <= L(k + 1)
      BY <1>2, <3>1
    <3>3. L(k) \in Nat /\ L(k + 1) \in Nat /\ L(n) \in Nat
      BY <1>1, <3>1
    <3>4. ASSUME n < k + 1 PROVE L(n) + 1 + z <= L(k + 1)
      <4>1. CASE n < k
        BY <1>1, <2>2, <3>2, <3>3, <4>1
      <4>2. CASE n = k
        BY <3>2, <4>2
      <4> QED BY <1>1, <3>1, <3>4, <4>1, <4>2
    <3> QED BY <3>1, <3>4
  <2>3. 0 \in Int /\ b \in Int /\ \A k \in 0 .. b - 1 : k \in S => k + 1 \in S
    BY <1>1, <2>2
  <2> HIDE DEF S
  <2> QED BY <2>1, <2>3, IntervalInduction
<1> QED BY <1>3 DEF L, z

(* What was read is the request up to some character.                         *)
ReadsText ==
  /\ IsRequest(request)
  /\ text \in Seq(ReqChars) /\ Len(text) \in 1 .. Len(Requests!Text(request))
  /\ \A i \in 1 .. Len(text) : text[i] = Requests!Text(request)[i]

(* A part of the request, as far as it was read.                              *)
LEMMA PartIsRead ==
  ASSUME ReadsText, NEW w \in Seq(ReqChars), NEW p \in Nat, Holds(Requests!Text(request), p, w)
  PROVE  /\ p + Len(w) <= Len(Requests!Text(request))
         /\ \A j \in Nat : p <= j /\ j < p + Len(w) /\ j < Len(text) =>
              j - p + 1 \in 1 .. Len(w) /\ Requests!Char(j) = w[j - p + 1]
         /\ p + Len(w) <= Len(text) => SubSeq(text, p + 1, p + Len(w)) = w
<1> DEFINE t == Requests!Text(request)
<1>1. text \in Seq(ReqChars) /\ Len(text) \in Nat /\ Len(w) \in Nat /\ Len(t) \in Nat
  <2>1. \A v \in Seq(ReqChars) : Len(v) \in Nat
    OBVIOUS
  <2>2. t \in Seq(ReqChars)
    BY TextHolds, Zenon DEF ReadsText
  <2> QED BY <2>1, <2>2, Zenon DEF ReadsText
<1>2. p + Len(w) <= Len(t) /\ \A i \in 1 .. Len(w) : t[p + i] = w[i]
  BY Zenon DEF Holds
<1>3. \A i \in 1 .. Len(text) : text[i] = t[i]
  BY Zenon DEF ReadsText
<1> HIDE DEF t
<1>4. ASSUME NEW j \in Nat, p <= j, j < p + Len(w), j < Len(text)
      PROVE  j - p + 1 \in 1 .. Len(w) /\ text[j + 1] = w[j - p + 1]
  <2>1. j - p + 1 \in 1 .. Len(w) /\ p + (j - p + 1) = j + 1 /\ j + 1 \in 1 .. Len(text)
    BY <1>1, <1>4
  <2>2. t[p + (j - p + 1)] = w[j - p + 1] /\ text[j + 1] = t[j + 1]
    BY <1>2, <1>3, <2>1, Zenon
  <2> QED BY <2>1, <2>2, Zenon
<1>5. ASSUME p + Len(w) <= Len(text) PROVE SubSeq(text, p + 1, p + Len(w)) = w
  <2>1. ASSUME NEW i \in 1 .. Len(w) PROVE text[(p + 1) + i - 1] = w[i]
    <3>1. p + i \in Nat /\ p <= p + i - 1 /\ p + i - 1 \in Nat /\ p + i - 1 < p + Len(w)
          /\ p + i - 1 < Len(text) /\ (p + i - 1) - p + 1 = i /\ (p + i - 1) + 1 = (p + 1) + i - 1
      BY <1>1, <1>5
    <3> QED BY <1>4, <3>1, Zenon
  <2>2. /\ SubSeq(text, p + 1, p + Len(w)) = [i \in 1 .. (p + Len(w)) - (p + 1) + 1 |-> text[(p + 1) + i - 1]]
    BY <1>1, <1>5
  <2>3. (p + Len(w)) - (p + 1) + 1 = Len(w)
    BY <1>1
  <2>4. w = [i \in 1 .. Len(w) |-> w[i]]
    OBVIOUS
  <2> QED BY <2>1, <2>2, <2>3, <2>4
<1> QED BY <1>2, <1>4, <1>5, Zenon DEF Requests!Char, t

LEMMA LineIsRead ==
  ASSUME ReadsText
  PROVE  ReadsLine(request.line)
<1> DEFINE l == request.line
           e == request.eol
<1>1. /\ l \in Seq(ReqChars) /\ \A i \in 1 .. Len(l) : l[i] \notin EndChars
      /\ e \in Seq(ReqChars) /\ \A i \in 1 .. Len(e) : e[i] \in EndChars
      /\ Len(e) \in Nat \ {0}
  BY RequestParts, Zenon DEF ReadsText
<1>2. Holds(Requests!Text(request), 0, l) /\ Holds(Requests!Text(request), Len(l), e)
  BY TextHolds, Zenon DEF ReadsText
<1>3. Len(l) \in Nat /\ text \in Seq(ReqChars) /\ Len(text) \in Nat /\ Len(text) > 0 /\ 0 \in Nat
  BY <1>1 DEF ReadsText
<1>4. \A j \in Nat : 0 <= j /\ j < 0 + Len(l) /\ j < Len(text) => Requests!Char(j) = l[j - 0 + 1]
  BY <1>1, <1>2, <1>3, PartIsRead, Zenon
<1>5. \A j \in Nat : Len(l) <= j /\ j < Len(l) + Len(e) /\ j < Len(text) =>
        j - Len(l) + 1 \in 1 .. Len(e) /\ Requests!Char(j) = e[j - Len(l) + 1]
  BY <1>1, <1>2, <1>3, PartIsRead, Zenon
<1>6. ASSUME NEW i \in 1 .. Len(text), i <= Len(l) PROVE text[i] = l[i]
  <2>1. i - 1 \in Nat /\ 0 <= i - 1 /\ i - 1 < 0 + Len(l) /\ i - 1 < Len(text)
        /\ (i - 1) - 0 + 1 = i /\ (i - 1) + 1 = i
    BY <1>3, <1>6
  <2> QED BY <1>4, <2>1, Zenon DEF Requests!Char
<1>7. Len(text) > Len(l) => text[Len(l) + 1] \in EndChars
  <2> DEFINE n == Len(l)
             m == Len(e)
             x == Len(text)
  <2> SUFFICES ASSUME x > n PROVE text[n + 1] \in EndChars
    OBVIOUS
  <2>1. n \in Nat /\ m \in Nat \ {0} /\ x \in Nat
    BY <1>1, <1>3, Zenon
  <2>2. /\ n <= n /\ n < n + m /\ n < x /\ n - n + 1 = 1 /\ 1 \in 1 .. m
    <3> HIDE DEF n, m, x
    <3> QED BY <2>1
  <2>3. n - n + 1 \in 1 .. m /\ Requests!Char(n) = e[n - n + 1]
    BY <1>5, <2>1, <2>2, Zenon
  <2>4. e[1] \in EndChars
    BY <1>1, <2>2, Zenon
  <2> HIDE DEF n
  <2>5. Requests!Char(n) = e[1]
    BY <2>2, <2>3, Zenon
  <2>6. text[n + 1] = e[1]
    BY <2>5, Zenon DEF Requests!Char
  <2> QED BY <2>4, <2>6
<1>8. ASSUME NEW i \in 1 .. Len(text), i = Len(l) + 1 PROVE text[i] \in EndChars
  <2>1. Len(text) > Len(l)
    BY <1>3, <1>8
  <2> QED BY <1>7, <1>8, <2>1, Zenon
<1> QED BY <1>1, <1>3, <1>6, <1>8, Zenon DEF ReadsLine

(* The places of field n in the text: where it begins, its colon, its value,  *)
(* and its end of line.                                                       *)
From(n)  == Len(Sent(request, n - 1))
Colon(n) == From(n) + Len(request.fields[n].key)
Value(n) == Colon(n) + 1 + Len(request.fields[n].gap)
End(n)   == Value(n) + Len(request.fields[n].value)

LEMMA FieldPlaces ==
  ASSUME ReadsText, NEW n \in 1 .. Len(request.fields)
  PROVE  /\ From(n) \in Nat /\ Colon(n) \in Nat /\ Value(n) \in Nat /\ End(n) \in Nat
         /\ From(n) <= Colon(n) /\ Colon(n) < Value(n) /\ Value(n) <= End(n)
         /\ Len(Sent(request, n)) = End(n) + Len(request.eol) /\ Len(request.eol) \in Nat \ {0}
         /\ LET f == request.fields[n]
                t == Requests!Text(request)
            IN  /\ Holds(t, From(n), f.key) /\ Holds(t, Colon(n), <<":">>)
                /\ Holds(t, Colon(n) + 1, f.gap) /\ Holds(t, Value(n), f.value)
                /\ Holds(t, End(n), request.eol)
<1> DEFINE f == request.fields[n]
           t == Requests!Text(request)
           s == Sent(request, n)
           e == request.eol
           d == Len(Requests!Field(f))
           k == Len(f.key)
           g == Len(f.gap)
           v == Len(f.value)
           p == From(n)
<1>1. IsRequest(request) /\ IsField(f) /\ e \in Seq(ReqChars) /\ Len(e) \in Nat \ {0}
      /\ Len(request.fields) \in Nat
  BY RequestParts, Zenon DEF ReadsText
<1>2. /\ f.key \in Seq(ReqChars) /\ f.gap \in Seq(ReqChars) /\ f.value \in Seq(ReqChars)
      /\ k \in Nat /\ g \in Nat /\ v \in Nat /\ <<":">> \in Seq(ReqChars)
  <2>1. \A w \in Seq(ReqChars) : Len(w) \in Nat
    OBVIOUS
  <2>2. <<":">> \in Seq(ReqChars)
    BY DEF ReqChars
  <2> QED BY <1>1, <2>1, <2>2, Zenon DEF IsField
<1>3. d = k + 1 + g + v
  BY <1>1, FieldShape, Zenon
<1>4. /\ s \in Seq(ReqChars) /\ p \in Nat /\ Len(s) = (p + d) + Len(e)
      /\ FieldHolds(s, p, f) /\ Holds(s, p + d, e)
  BY <1>1, SentHolds, Zenon DEF From
<1>5. t \in Seq(ReqChars) /\ Holds(t, 0, s)
  <2>1. n \in 0 .. Len(request.fields)
    BY <1>1
  <2> QED BY <1>1, <2>1, TextHolds, Zenon
<1>6. /\ Holds(s, p, f.key) /\ Holds(s, p + k, <<":">>)
      /\ Holds(s, p + k + 1, f.gap) /\ Holds(s, p + k + 1 + g, f.value)
  BY <1>4, Zenon DEF FieldHolds
<1> HIDE DEF s, t, k, g, v, d, p
<1>7. Colon(n) = p + k /\ Value(n) = p + k + 1 + g /\ End(n) = p + k + 1 + g + v
  BY Zenon DEF Colon, Value, End, p, k, g, v
<1>8. /\ p + k \in Nat /\ p + k + 1 \in Nat /\ p + k + 1 + g \in Nat /\ p + k + 1 + g + v \in Nat
      /\ p <= p + k /\ p + k < p + k + 1 + g /\ p + k + 1 + g <= p + k + 1 + g + v
      /\ p + d = p + k + 1 + g + v
  BY <1>2, <1>3, <1>4
<1>9. ASSUME NEW i \in Nat, NEW w \in Seq(ReqChars), Holds(s, i, w) PROVE Holds(t, i, w)
  <2>1. 0 \in Nat /\ 0 + i = i
    OBVIOUS
  <2>2. Holds(t, 0 + i, w)
    BY <1>4, <1>5, <1>9, <2>1, HoldsWithin, Zenon
  <2> QED BY <2>1, <2>2, Zenon
<1>10. /\ Holds(t, p, f.key) /\ Holds(t, p + k, <<":">>)
       /\ Holds(t, p + k + 1, f.gap) /\ Holds(t, p + k + 1 + g, f.value)
  BY <1>2, <1>4, <1>6, <1>8, <1>9, Zenon
<1>11. Holds(t, p + k + 1 + g + v, e) /\ Len(s) = (p + k + 1 + g + v) + Len(e)
  <2>1. Holds(s, p + k + 1 + g + v, e)
    BY <1>4, <1>8, Zenon
  <2> QED BY <1>1, <1>4, <1>8, <1>9, <2>1, Zenon
<1>12. From(n) = p
  BY DEF p
<1> QED BY <1>1, <1>4, <1>7, <1>8, <1>10, <1>11, <1>12, Zenon DEF s, t

LEMMA FieldChars ==
  ASSUME ReadsText, NEW n \in 1 .. Len(request.fields)
  PROVE  LET f == request.fields[n]
             c(j) == Requests!Char(j)
         IN  /\ \A j \in Nat : j < Len(text) =>
                  /\ From(n) <= j /\ j < Colon(n) => c(j) \notin {" ", ":", "CR", "LF"}
                  /\ j = Colon(n) => c(j) = ":"
                  /\ Colon(n) < j /\ j < Value(n) => c(j) = " "
                  /\ Value(n) <= j /\ j < End(n) => c(j) \notin EndChars
                  /\ j = Value(n) /\ j < End(n) => c(j) # " "
                  /\ End(n) <= j /\ j < Len(Sent(request, n)) => c(j) \in EndChars
             /\ Colon(n) <= Len(text) => SubSeq(text, From(n) + 1, Colon(n)) = f.key
             /\ End(n) <= Len(text) => SubSeq(text, Value(n) + 1, End(n)) = f.value
<1> DEFINE f == request.fields[n]
           e == request.eol
           p == From(n)
           C == Colon(n)
           V == Value(n)
           E == End(n)
           k == Len(f.key)
           g == Len(f.gap)
           v == Len(f.value)
           c(j) == Requests!Char(j)
           x == Len(text)
           t == Requests!Text(request)
           G == C + 1
<1>1. /\ f.key \in Seq(ReqChars) /\ f.gap \in Seq(ReqChars) /\ f.value \in Seq(ReqChars)
      /\ \A i \in 1 .. k : f.key[i] \notin {" ", ":", "CR", "LF"}
      /\ \A i \in 1 .. g : f.gap[i] = " "
      /\ \A i \in 1 .. v : f.value[i] \notin EndChars
      /\ v = 0 \/ f.value[1] # " "
      /\ e \in Seq(ReqChars) /\ \A i \in 1 .. Len(e) : e[i] \in EndChars
  <2>1. IsField(f) /\ e \in Seq(ReqChars) /\ \A i \in 1 .. Len(e) : e[i] \in EndChars
    BY RequestParts, Zenon DEF ReadsText
  <2> HIDE DEF f, e
  <2>2. /\ f.key \in Seq(ReqChars) /\ f.gap \in Seq(ReqChars) /\ f.value \in Seq(ReqChars)
        /\ \A i \in 1 .. k : f.key[i] \notin {" ", ":", "CR", "LF"}
        /\ \A i \in 1 .. g : f.gap[i] = " "
        /\ \A i \in 1 .. v : f.value[i] \notin EndChars
        /\ v = 0 \/ f.value[1] # " "
    BY <2>1, Zenon DEF IsField
  <2> QED BY <2>1, <2>2, Zenon
<1>2. /\ k \in Nat /\ g \in Nat /\ v \in Nat /\ <<":">> \in Seq(ReqChars) /\ Len(<<":">>) = 1
      /\ <<":">>[1] = ":" /\ x \in Nat
  <2>1. \A w \in Seq(ReqChars) : Len(w) \in Nat
    OBVIOUS
  <2>2. <<":">> \in Seq(ReqChars) /\ Len(<<":">>) = 1 /\ <<":">>[1] = ":"
    BY DEF ReqChars
  <2> QED BY <1>1, <2>1, <2>2, Zenon DEF ReadsText
<1>3. /\ p \in Nat /\ C \in Nat /\ V \in Nat /\ E \in Nat
      /\ Len(Sent(request, n)) = E + Len(e) /\ Len(e) \in Nat
      /\ Holds(t, p, f.key) /\ Holds(t, C, <<":">>)
      /\ Holds(t, G, f.gap) /\ Holds(t, V, f.value) /\ Holds(t, E, e)
  BY FieldPlaces, Zenon
<1>4. C = p + k /\ V = G + g /\ E = V + v
  BY Zenon DEF Colon, Value, End
<1> HIDE DEF f, p, C, V, E, k, g, v, x, t, c
<1>5. G \in Nat
  BY <1>3
<1> DEFINE In(i, j, w) == j - i + 1 \in 1 .. Len(w) /\ c(j) = w[j - i + 1]
<1>6. \A w \in Seq(ReqChars) : \A i \in Nat : Holds(t, i, w) =>
        /\ \A j \in Nat : i <= j /\ j < i + Len(w) /\ j < x => In(i, j, w)
        /\ i + Len(w) <= x => SubSeq(text, i + 1, i + Len(w)) = w
  BY PartIsRead, Zenon DEF x, t, c
<1> HIDE DEF In, G
<1>7. /\ \A j \in Nat : p <= j /\ j < p + k /\ j < x => In(p, j, f.key)
      /\ p + k <= x => SubSeq(text, p + 1, p + k) = f.key
  BY <1>1, <1>3, <1>6, Zenon DEF k
<1>8. \A j \in Nat : C <= j /\ j < C + 1 /\ j < x => In(C, j, <<":">>)
  BY <1>2, <1>3, <1>6, Zenon
<1>9. \A j \in Nat : G <= j /\ j < G + g /\ j < x => In(G, j, f.gap)
  BY <1>1, <1>3, <1>5, <1>6, Zenon DEF g
<1>10. /\ \A j \in Nat : V <= j /\ j < V + v /\ j < x => In(V, j, f.value)
       /\ V + v <= x => SubSeq(text, V + 1, V + v) = f.value
  BY <1>1, <1>3, <1>6, Zenon DEF v
<1>11. \A j \in Nat : E <= j /\ j < E + Len(e) /\ j < x => In(E, j, e)
  BY <1>1, <1>3, <1>6, Zenon
<1>12. ASSUME NEW j \in Nat, j < x
       PROVE  /\ p <= j /\ j < C => c(j) \notin {" ", ":", "CR", "LF"}
              /\ j = C => c(j) = ":"
              /\ C < j /\ j < V => c(j) = " "
              /\ V <= j /\ j < E => c(j) \notin EndChars
              /\ j = V /\ j < E => c(j) # " "
              /\ E <= j /\ j < Len(Sent(request, n)) => c(j) \in EndChars
  <2>1. ASSUME p <= j, j < C PROVE c(j) \notin {" ", ":", "CR", "LF"}
    <3>1. In(p, j, f.key)
      BY <1>4, <1>7, <1>12, <2>1, Zenon
    <3> QED BY <1>1, <3>1, Zenon DEF In, k
  <2>2. ASSUME j = C PROVE c(j) = ":"
    <3>1. C <= j /\ j < C + 1
      BY <1>3, <2>2
    <3>2. In(C, j, <<":">>)
      BY <1>8, <1>12, <3>1, Zenon
    <3>3. j - C + 1 = 1
      BY <1>3, <2>2
    <3> QED BY <1>2, <3>2, <3>3, Zenon DEF In
  <2>3. ASSUME C < j, j < V PROVE c(j) = " "
    <3>1. G <= j
      BY <1>3, <2>3 DEF G
    <3>2. In(G, j, f.gap)
      BY <1>4, <1>9, <1>12, <2>3, <3>1, Zenon
    <3> QED BY <1>1, <3>2, Zenon DEF In, g
  <2>4. ASSUME V <= j, j < E PROVE c(j) \notin EndChars /\ (j = V => c(j) # " ")
    <3>1. In(V, j, f.value)
      BY <1>4, <1>10, <1>12, <2>4, Zenon
    <3>2. c(j) \notin EndChars
      BY <1>1, <3>1, Zenon DEF In, v
    <3>3. ASSUME j = V PROVE c(j) # " "
      <4>1. j - V + 1 = 1 /\ v # 0
        BY <1>2, <1>3, <1>4, <2>4, <3>3
      <4> QED BY <1>1, <3>1, <4>1, Zenon DEF In
    <3> QED BY <3>2, <3>3
  <2>5. ASSUME E <= j, j < Len(Sent(request, n)) PROVE c(j) \in EndChars
    <3>1. In(E, j, e)
      BY <1>3, <1>11, <1>12, <2>5, Zenon
    <3>2. e[j - E + 1] \in EndChars
      BY <1>1, <3>1, Zenon DEF In
    <3>3. c(j) = e[j - E + 1]
      BY <3>1, Zenon DEF In
    <3> QED BY <3>2, <3>3
  <2>6. j = V /\ j < E => V <= j
    BY <1>3
  <2> QED BY <2>1, <2>2, <2>3, <2>4, <2>5, <2>6, Zenon
<1>13. /\ C <= x => SubSeq(text, p + 1, C) = f.key
       /\ E <= x => SubSeq(text, V + 1, E) = f.value
  BY <1>4, <1>7, <1>10, Zenon
<1> QED BY <1>12, <1>13, Zenon DEF c, x, p, C, V, E, f

(* The next position of a set.                                                *)
LEMMA FindIs ==
  ASSUME Len(text) \in Nat, NEW S \in SUBSET (0 .. Len(text) - 1), NEW i \in Nat
  PROVE  LET r == Requests!Find(i, S)
         IN  /\ r \in Nat /\ r <= Len(text)
             /\ r < Len(text) => r \in S /\ i <= r
             /\ \A j \in S : i <= j => r <= j
<1> DEFINE B == {j \in S : j >= i}
           r == Requests!Find(i, S)
           x == Len(text)
<1>1. r = IF B = {} THEN x ELSE CHOOSE j \in B : \A k \in B : j <= k
  BY Zenon DEF Requests!Find, Requests!Size
<1> HIDE DEF r, x
<1>4. x \in Nat /\ S \in SUBSET (0 .. x - 1)
  BY DEF x
<1>5. S \subseteq Nat /\ \A j \in S : j < x
  BY <1>4
<1>6. \A j, k \in Nat : j >= k <=> k <= j
  OBVIOUS
<1>2. CASE B = {}
  <2>1. r = x
    BY <1>1, <1>2, Zenon
  <2>2. \A j \in S : ~(i <= j)
    BY <1>2, <1>5, <1>6, Zenon
  <2>3. x <= x /\ ~(x < x)
    BY <1>4
  <2> QED BY <1>4, <2>1, <2>2, <2>3, Zenon DEF x, r
<1>3. CASE B # {}
  <2>1. B \in SUBSET Nat /\ \A j \in B : j \in S /\ j >= i /\ j < x
    BY <1>5, Zenon
  <2>5. \A j \in S : j \in Nat /\ (i <= j => j \in B)
    BY <1>5, <1>6, Zenon
  <2>6. r = CHOOSE j \in B : \A k \in B : j <= k
    BY <1>1, <1>3, Zenon
  <2> HIDE DEF B
  <2>2. \E j \in B : \A k \in B : j <= k
    BY <1>3, <2>1, LeastElement, Zenon
  <2>3. r \in B /\ \A k \in B : r <= k
    BY <2>2, <2>6, Zenon
  <2>4. r \in Nat /\ r \in S /\ r >= i /\ r < x
    BY <2>1, <2>3
  <2> QED BY <1>4, <2>3, <2>4, <2>5 DEF x, r
<1> QED BY <1>2, <1>3 DEF x, r

LEMMA FindFirst ==
  ASSUME Len(text) \in Nat, NEW S \in SUBSET (0 .. Len(text) - 1), NEW i \in Nat, NEW m \in Nat,
         i <= m, \A j \in Nat : i <= j /\ j < m /\ j < Len(text) => j \notin S,
         m < Len(text) => m \in S
  PROVE  /\ m < Len(text) => Requests!Find(i, S) = m
         /\ m >= Len(text) => Requests!Find(i, S) = Len(text)
<1> DEFINE r == Requests!Find(i, S)
           x == Len(text)
<1>1. /\ r \in Nat /\ r <= x
      /\ r < x => r \in S /\ i <= r
      /\ \A j \in S : i <= j => r <= j
  BY FindIs, Zenon
<1>2. /\ x \in Nat /\ (m < x => m \in S)
      /\ r < m /\ i <= r /\ r < x => r \notin S
  BY <1>1, Zenon
<1>3. m < x => r <= m
  BY <1>1, <1>2, Zenon
<1> HIDE DEF r, x
<1>4. /\ m < x => r = m
      /\ m >= x => r = x
  BY <1>1, <1>2, <1>3
<1> QED BY <1>4, Zenon DEF r, x

(* What is left of a part without the spaces before it.                       *)
Solids == Requests!Positions \ (Requests!Spacings \cup Requests!LineEnds)
Cut(i, m) == Requests!String(Requests!SkipWhiteSpace(Requests!Span(i, m)))

LEMMA CutIs ==
  ASSUME text \in Seq(ReqChars), NEW i \in Nat, NEW m \in Nat, i <= m, m <= Len(text)
  PROVE  \E b \in i .. m :
           /\ Cut(i, m) = SubSeq(text, b + 1, m)
           /\ b = m \/ b = Requests!Find(i, Solids)
           /\ b <= Requests!Find(i, Solids)
<1> DEFINE r == Requests!Find(i, Solids)
           b == Requests!Least(r, i + (m - i))
           x == Len(text)
<1>1. x \in Nat /\ m <= x
  OBVIOUS
<1>2. Solids \in SUBSET (0 .. x - 1)
  BY DEF Solids, Requests!Positions, Requests!Size
<1>3. r \in Nat /\ r <= x /\ (r < x => i <= r)
  BY <1>1, <1>2, FindIs, Zenon
<1>4. Cut(i, m) = SubSeq(text, b + 1, b + ((i + (m - i)) - b))
  <2> DEFINE s == Requests!Span(i, m)
  <2>1. s.start = i /\ s.size = m - i
    BY DEF Requests!Span
  <2>2. Requests!SkipWhiteSpace(s) = Requests!Span(Requests!Least(Requests!Find(s.start, Solids), s.start + s.size), s.start + s.size)
    BY Zenon DEF Requests!SkipWhiteSpace, Solids
  <2> HIDE DEF s
  <2>3. Requests!SkipWhiteSpace(s) = Requests!Span(b, i + (m - i))
    BY <2>1, <2>2, Zenon
  <2> HIDE DEF b
  <2>4. /\ Requests!Span(b, i + (m - i)).start = b
        /\ Requests!Span(b, i + (m - i)).size = (i + (m - i)) - b
    BY DEF Requests!Span
  <2> QED BY <2>3, <2>4, Zenon DEF Cut, Requests!String, s
<1>5. i + (m - i) = m
  OBVIOUS
<1>6. b = IF r < m THEN r ELSE m
  BY <1>5, Zenon DEF Requests!Least
<1> HIDE DEF r, b, x
<1>7. b \in i .. m /\ (b = m \/ b = r) /\ b <= r
  BY <1>1, <1>3, <1>6
<1>8. b + (m - b) = m
  BY <1>7
<1> QED BY <1>4, <1>5, <1>7, <1>8, Zenon DEF r

LEMMA CutShort ==
  ASSUME text \in Seq(ReqChars), NEW i \in Nat, NEW m \in Nat, i <= m, m < Len(text)
  PROVE  Cut(i, m) \in Seq(ReqChars) /\ Len(Cut(i, m)) < Len(text)
<1>1. m <= Len(text) /\ Len(text) \in Nat
  OBVIOUS
<1>2. PICK b \in i .. m : Cut(i, m) = SubSeq(text, b + 1, m)
  BY <1>1, CutIs, Zenon
<1>3. b \in Nat /\ b <= m
  OBVIOUS
<1>4. SubSeq(text, b + 1, m) \in Seq(ReqChars)
  BY <1>1, <1>3
<1>5. Len(SubSeq(text, b + 1, m)) < Len(text)
  BY <1>1, <1>3
<1> QED BY <1>2, <1>4, <1>5

LEMMA CutFrom ==
  ASSUME text \in Seq(ReqChars), NEW i \in Nat, NEW v \in Nat, NEW m \in Nat,
         i <= v, v <= m, m < Len(text),
         \A j \in Nat : i <= j /\ j < v => j \notin Solids, v < m => v \in Solids
  PROVE  Cut(i, m) = SubSeq(text, v + 1, m)
<1> DEFINE r == Requests!Find(i, Solids)
           x == Len(text)
<1>1. x \in Nat /\ m < x /\ m <= Len(text) /\ i <= m /\ v < x
  OBVIOUS
<1>2. Solids \in SUBSET (0 .. x - 1)
  BY DEF Solids, Requests!Positions, Requests!Size
<1>3. PICK b \in i .. m : /\ Cut(i, m) = SubSeq(text, b + 1, m)
                          /\ b = m \/ b = r
                          /\ b <= r
  BY <1>1, CutIs, Zenon
<1>4. /\ r \in Nat /\ r <= x
      /\ r < x => r \in Solids /\ i <= r
      /\ \A j \in Solids : i <= j => r <= j
  BY <1>1, <1>2, FindIs, Zenon
<1>5. v < m => r <= v
  BY <1>4, Zenon
<1>6. ~(i <= r /\ r < v /\ r < x)
  BY <1>4, Zenon
<1> HIDE DEF r, x
<1>7. b = v
  BY <1>1, <1>3, <1>4, <1>5, <1>6
<1> QED BY <1>3, <1>7

LEMMA PlaceSets ==
  ASSUME Len(text) \in Nat
  PROVE  /\ Requests!Colons \in SUBSET (0 .. Len(text) - 1)
         /\ Requests!LineEnds \in SUBSET (0 .. Len(text) - 1)
         /\ Requests!Positions \ Requests!LineEnds \in SUBSET (0 .. Len(text) - 1)
         /\ Solids \in SUBSET (0 .. Len(text) - 1)
         /\ \A j \in Nat : j < Len(text) =>
              /\ j \in Requests!Colons <=> Requests!Char(j) = ":"
              /\ j \in Requests!LineEnds <=> Requests!Char(j) \in EndChars
              /\ j \in Requests!Positions \ Requests!LineEnds <=> Requests!Char(j) \notin EndChars
              /\ j \in Solids <=> Requests!Char(j) \notin EndChars /\ Requests!Char(j) # " "
<1> DEFINE P == Requests!Positions
<1>1. P = 0 .. Len(text) - 1
  BY Zenon DEF Requests!Positions, Requests!Size
<1>2. \A j \in Nat : j < Len(text) => j \in P
  BY <1>1
<1> HIDE DEF P
<1>3. /\ Requests!Colons = {j \in P : Requests!Char(j) = ":"}
      /\ Requests!LineEnds = {j \in P : Requests!Char(j) \in EndChars}
      /\ Requests!Spacings = {j \in P : Requests!Char(j) = " "}
  BY Zenon DEF Requests!Colons, Requests!LineEnds, Requests!Spacings, Requests!IsEndOfLine,
               Requests!IsSpacing, EndChars, P
<1>4. Solids = P \ (Requests!Spacings \cup Requests!LineEnds)
  BY Zenon DEF Solids, P
<1>5. /\ Requests!Colons \subseteq P /\ Requests!LineEnds \subseteq P
      /\ P \ Requests!LineEnds \subseteq P /\ Solids \subseteq P
  BY <1>3, <1>4, Zenon
<1>6. ASSUME NEW j \in Nat, j < Len(text)
      PROVE  /\ j \in Requests!Colons <=> Requests!Char(j) = ":"
             /\ j \in Requests!LineEnds <=> Requests!Char(j) \in EndChars
             /\ j \in P \ Requests!LineEnds <=> Requests!Char(j) \notin EndChars
             /\ j \in Solids <=> Requests!Char(j) \notin EndChars /\ Requests!Char(j) # " "
  BY <1>2, <1>3, <1>4, <1>6, Zenon
<1>7. \A S : S \subseteq P => S \in SUBSET (0 .. Len(text) - 1)
  BY <1>1, Zenon
<1> QED BY <1>5, <1>6, <1>7, Zenon DEF P

(* From a position on http_headerNext finds nothing.                          *)
Silent(i) == Requests!Find(Requests!Find(i, Requests!Colons), Requests!LineEnds) = Len(text)

LEMMA SilentFrom ==
  ASSUME Len(text) \in Nat, NEW i \in Nat, i <= Len(text),
         \/ \A j \in Nat : i <= j /\ j < Len(text) => Requests!Char(j) # ":"
         \/ \A j \in Nat : i <= j /\ j < Len(text) => Requests!Char(j) \notin EndChars
  PROVE  Silent(i)
<1> DEFINE x == Len(text)
           c == Requests!Find(i, Requests!Colons)
<1>1. /\ Requests!Colons \in SUBSET (0 .. x - 1) /\ Requests!LineEnds \in SUBSET (0 .. x - 1)
      /\ \A j \in Nat : j < x =>
           /\ j \in Requests!Colons <=> Requests!Char(j) = ":"
           /\ j \in Requests!LineEnds <=> Requests!Char(j) \in EndChars
  BY PlaceSets, Zenon
<1>2. /\ c \in Nat /\ c <= x
      /\ c < x => c \in Requests!Colons /\ i <= c
  BY <1>1, FindIs, Zenon
<1>3. x \in Nat /\ x >= x /\ ~(x < x)
  OBVIOUS
<1>4. \A j \in Nat : c <= j /\ j < x => j \notin Requests!LineEnds
  <2>1. CASE \A j \in Nat : i <= j /\ j < x => Requests!Char(j) # ":"
    <3>1. ~(c < x)
      BY <1>1, <1>2, <2>1, Zenon
    <3> HIDE DEF c, x
    <3>2. \A j \in Nat : ~(c <= j /\ j < x)
      BY <1>2, <1>3, <3>1
    <3> QED BY <3>2, Zenon
  <2>2. CASE \A j \in Nat : i <= j /\ j < x => Requests!Char(j) \notin EndChars
    <3> HIDE DEF c, x
    <3>1. \A j \in Nat : c <= j /\ j < x => i <= j
      BY <1>2, <1>3
    <3> QED BY <1>1, <2>2, <3>1, Zenon
  <2> QED BY <2>1, <2>2, Zenon
<1>5. \A j \in Nat : c <= j /\ j < x /\ j < x => j \notin Requests!LineEnds
  BY <1>4, Zenon
<1>6. x < x => x \in Requests!LineEnds
  BY <1>3, Zenon
<1> HIDE DEF c
<1>7. Requests!Find(c, Requests!LineEnds) = x
  BY <1>1, <1>2, <1>3, <1>5, <1>6, FindFirst, Zenon
<1> QED BY <1>7, Zenon DEF Silent, c

LEMMA TailChars ==
  ASSUME ReadsText
  PROVE  \A j \in Nat : Len(Sent(request, Len(request.fields))) <= j /\ j < Len(text) =>
           Requests!Char(j) \in EndChars
<1> DEFINE s == Len(Sent(request, Len(request.fields)))
           e == request.eol
           t == Requests!Text(request)
           x == Len(text)
<1>1. /\ e \in Seq(ReqChars) /\ \A i \in 1 .. Len(e) : e[i] \in EndChars
      /\ Len(request.fields) \in Nat
  BY RequestParts, Zenon DEF ReadsText
<1>2. Len(request.fields) \in 0 .. Len(request.fields)
  BY <1>1
<1>3. s \in Nat /\ Holds(t, s, e) /\ Len(t) = s + Len(e)
  BY <1>2, TextHolds, Zenon DEF ReadsText
<1>4. \A j \in Nat : s <= j /\ j < s + Len(e) /\ j < x =>
        j - s + 1 \in 1 .. Len(e) /\ Requests!Char(j) = e[j - s + 1]
  BY <1>1, <1>3, PartIsRead, Zenon
<1>5. x \in Nat /\ x <= s + Len(e) /\ Len(e) \in Nat
  <2>1. x \in 1 .. Len(t) /\ Len(e) \in Nat
    BY <1>1 DEF ReadsText
  <2> HIDE DEF s, t, x
  <2> QED BY <1>3, <2>1
<1> HIDE DEF s, t, x, e
<1>6. ASSUME NEW j \in Nat, s <= j, j < x PROVE Requests!Char(j) \in EndChars
  <2>1. j < s + Len(e)
    BY <1>3, <1>5, <1>6
  <2>2. j - s + 1 \in 1 .. Len(e) /\ Requests!Char(j) = e[j - s + 1]
    BY <1>4, <1>6, <2>1, Zenon
  <2>3. e[j - s + 1] \in EndChars
    BY <1>1, <2>2, Zenon
  <2> QED BY <2>2, <2>3
<1> QED BY <1>6, Zenon DEF s, x

(* The needle is at field k + 1, or nothing is found from there on and no     *)
(* later field was read up to its end of line.                                *)
AtField(i, k) ==
  \/ /\ k + 1 \in 1 .. Len(request.fields)
     /\ i = From(k + 1) /\ i < Len(text)
  \/ /\ Silent(i)
     /\ \A n \in k + 1 .. Len(request.fields) : Len(text) <= End(n)

(* Behind the end of line of field n is field n + 1, or nothing.              *)
LEMMA BehindField ==
  ASSUME ReadsText, Len(request.eol) = 2, NEW n \in 1 .. Len(request.fields), End(n) < Len(text)
  PROVE  AtField(Requests!Find(End(n), Requests!Positions \ Requests!LineEnds), n)
<1> DEFINE b == Len(request.fields)
           x == Len(text)
           S == Requests!Positions \ Requests!LineEnds
           r == Requests!Find(End(n), S)
           z == Len(Sent(request, n))
           c(j) == Requests!Char(j)
<1>1. /\ x \in Nat /\ b \in Nat /\ End(n) \in Nat /\ z = End(n) + 2
  <2>1. x \in Nat
    BY DEF ReadsText
  <2>2. b \in Nat
    BY RequestParts, Zenon DEF ReadsText
  <2> QED BY <2>1, <2>2, FieldPlaces, Zenon
<1>2. /\ S \in SUBSET (0 .. x - 1)
      /\ \A j \in Nat : j < x => (j \in S <=> c(j) \notin EndChars)
  BY <1>1, PlaceSets, Zenon
<1>3. \A j \in Nat : j < x /\ End(n) <= j /\ j < z => c(j) \in EndChars
  BY FieldChars, Zenon
<1> HIDE DEF S, c
<1>4. ASSUME NEW m \in Nat, z <= m, m <= x,
             \A j \in Nat : z <= j /\ j < m => c(j) \in EndChars,
             m < x => c(m) \notin EndChars
      PROVE  r = m
  <2>1. End(n) <= m /\ (m < x => m \in S)
    <3>1. m < x => m \in S
      BY <1>2, <1>4, Zenon
    <3> HIDE DEF x, z
    <3> QED BY <1>1, <1>4, <3>1
  <2>2. \A j \in Nat : j < m => j < x /\ (j < z \/ z <= j)
    <3> HIDE DEF x, z
    <3> QED BY <1>1, <1>4
  <2>3. \A j \in Nat : End(n) <= j /\ j < m /\ j < x => j \notin S
    BY <1>2, <1>3, <1>4, <2>2, Zenon
  <2>4. /\ m < x => r = m
        /\ m >= x => r = x
    BY <1>1, <1>2, <2>1, <2>3, FindFirst, Zenon
  <2> HIDE DEF x, z, r
  <2> QED BY <1>1, <1>4, <2>4
<1>5. CASE n < b /\ z < x
  <2>1. n + 1 \in 1 .. b /\ (n + 1) - 1 = n
    BY <1>1, <1>5
  <2>2. From(n + 1) = z
    BY <2>1, Zenon DEF From
  <2>3. z \in Nat /\ z <= z /\ z <= x /\ \A j \in Nat : ~(z <= j /\ j < z)
    <3> HIDE DEF z, x
    <3> QED BY <1>1, <1>5
  <2>4. c(z) \notin EndChars
    <3>1. /\ From(n + 1) <= z /\ z < Colon(n + 1) => c(z) \notin {" ", ":", "CR", "LF"}
          /\ z = Colon(n + 1) => c(z) = ":"
      BY <1>5, <2>1, <2>3, FieldChars, Zenon DEF c
    <3>2. From(n + 1) <= Colon(n + 1) /\ Colon(n + 1) \in Nat
      BY <2>1, FieldPlaces, Zenon
    <3>3. z < Colon(n + 1) \/ z = Colon(n + 1)
      <4> HIDE DEF z
      <4> QED BY <2>2, <2>3, <3>2
    <3>4. ":" \notin EndChars /\ EndChars \subseteq {" ", ":", "CR", "LF"}
      BY DEF EndChars
    <3> QED BY <2>2, <2>3, <3>1, <3>3, <3>4, Zenon
  <2>5. r = z
    BY <1>4, <2>3, <2>4, Zenon
  <2> QED BY <1>5, <2>1, <2>2, <2>5, Zenon DEF AtField, r, S
<1>6. CASE ~(n < b /\ z < x)
  <2>1. r = x
    <3>1. CASE z < x
      <4>1. n = b
        BY <1>1, <1>6, <3>1
      <4>2. \A j \in Nat : z <= j /\ j < x => c(j) \in EndChars
        BY <4>1, TailChars, Zenon DEF c
      <4>3. z <= x /\ x <= x /\ ~(x < x)
        <5> HIDE DEF z, x
        <5> QED BY <1>1, <3>1
      <4> QED BY <1>1, <1>4, <4>2, <4>3, Zenon
    <3>2. CASE ~(z < x)
      <4>1. End(n) <= x /\ x >= x /\ ~(x < x) /\ \A j \in Nat : j < x => j < z
        <5> HIDE DEF z, x
        <5>1. z \in Nat /\ End(n) < x
          BY <1>1 DEF x
        <5> QED BY <1>1, <3>2, <5>1
      <4>2. \A j \in Nat : End(n) <= j /\ j < x /\ j < x => j \notin S
        BY <1>2, <1>3, <4>1, Zenon
      <4> QED BY <1>1, <1>2, <4>1, <4>2, FindFirst, Zenon
    <3> QED BY <3>1, <3>2, Zenon
  <2>2. Silent(x)
    <3>1. x <= x /\ \A j \in Nat : x <= j /\ j < x => c(j) # ":"
      <4>1. \A j \in Nat : ~(x <= j /\ j < x)
        <5> HIDE DEF x
        <5> QED BY <1>1
      <4>2. x <= x
        BY <1>1
      <4> QED BY <4>1, <4>2, Zenon
    <3> QED BY <1>1, <3>1, SilentFrom, Zenon DEF c
  <2>3. ASSUME NEW m \in n + 1 .. b PROVE x <= End(m)
    <3>1. n \in 0 .. b /\ m \in 0 .. b /\ m \in 1 .. b /\ n < m /\ n < b
      BY <1>1
    <3>2. z + 1 + Len(request.eol) <= Len(Sent(request, m))
      BY <3>1, SentGrows, Zenon DEF ReadsText
    <3>3. Len(Sent(request, m)) = End(m) + 2 /\ End(m) \in Nat
      BY <3>1, FieldPlaces, Zenon
    <3>4. z + 1 + 2 <= End(m) + 2
      BY <3>2, <3>3, Zenon
    <3> HIDE DEF z, x
    <3> QED BY <1>1, <1>6, <3>1, <3>3, <3>4
  <2> QED BY <2>1, <2>2, <2>3, Zenon DEF AtField, r, S, x
<1> QED BY <1>5, <1>6, Zenon

(* From the beginning of a field http_headerNext finds that field, unless it  *)
(* was not read up to its end of line.                                        *)
LEMMA NextField ==
  ASSUME ReadsText, Len(request.eol) = 2, NEW n \in 1 .. Len(request.fields), From(n) < Len(text)
  PROVE  LET f == request.fields[n]
             c == Requests!Find(From(n), Requests!Colons)
             e == Requests!Find(c, Requests!LineEnds)
         IN  /\ e = Len(text) => Len(text) <= End(n)
             /\ e # Len(text) =>
                  /\ End(n) < Len(text)
                  /\ Cut(From(n), c) = f.key /\ Cut(c + 1, e) = f.value
                  /\ AtField(Requests!Find(e, Requests!Positions \ Requests!LineEnds), n)
<1> DEFINE f == request.fields[n]
           p == From(n)
           C == Colon(n)
           V == Value(n)
           E == End(n)
           x == Len(text)
           c == Requests!Find(p, Requests!Colons)
           e == Requests!Find(c, Requests!LineEnds)
           ch(j) == Requests!Char(j)
<1>1. text \in Seq(ReqChars) /\ x \in Nat
  BY DEF ReadsText
<1>2. /\ p \in Nat /\ C \in Nat /\ V \in Nat /\ E \in Nat
      /\ p <= C /\ C < V /\ V <= E
  BY FieldPlaces, Zenon
<1>3. /\ Requests!Colons \in SUBSET (0 .. x - 1) /\ Requests!LineEnds \in SUBSET (0 .. x - 1)
      /\ \A j \in Nat : j < x =>
              /\ j \in Requests!Colons <=> ch(j) = ":"
              /\ j \in Requests!LineEnds <=> ch(j) \in EndChars
              /\ j \in Solids <=> ch(j) \notin EndChars /\ ch(j) # " "
  BY <1>1, PlaceSets, Zenon
<1>4. /\ \A j \in Nat : j < x =>
           /\ p <= j /\ j < C => ch(j) \notin {" ", ":", "CR", "LF"}
           /\ j = C => ch(j) = ":"
           /\ C < j /\ j < V => ch(j) = " "
           /\ V <= j /\ j < E => ch(j) \notin EndChars
           /\ j = V /\ j < E => ch(j) # " "
           /\ E <= j /\ j < Len(Sent(request, n)) => ch(j) \in EndChars
      /\ C <= x => SubSeq(text, p + 1, C) = f.key
      /\ E <= x => SubSeq(text, V + 1, E) = f.value
  BY FieldChars, Zenon
<1>5. E < Len(Sent(request, n)) /\ p < x
  <2>1. Len(Sent(request, n)) = E + Len(request.eol)
    BY FieldPlaces, Zenon
  <2>2. E < E + 2
    BY <1>2
  <2> QED BY <2>1, <2>2, Zenon
<1>6. /\ EndChars \subseteq {" ", ":", "CR", "LF"} /\ ":" \notin EndChars /\ " " \notin EndChars
      /\ " " \in {" ", ":", "CR", "LF"} /\ ":" \in {" ", ":", "CR", "LF"}
  BY DEF EndChars
<1> HIDE DEF f, p, C, V, E, x, ch
<1>7. \A j \in Nat : j < x =>
        /\ p <= j /\ j < C => j \notin Requests!Colons
        /\ j = C => j \in Requests!Colons
  BY <1>3, <1>4, <1>6, Zenon
<1>8. \A j \in Nat : j < x =>
        /\ C <= j /\ j < E => j \notin Requests!LineEnds
        /\ j = E => j \in Requests!LineEnds
  <2> SUFFICES ASSUME NEW j \in Nat, j < x
               PROVE  (C <= j /\ j < E => ch(j) \notin EndChars) /\ (j = E => ch(j) \in EndChars)
    BY <1>3, Zenon
  <2>1. C <= j /\ j < E => j = C \/ (C < j /\ j < V) \/ (V <= j /\ j < E)
    BY <1>2
  <2>2. j = E => E <= j
    BY <1>2
  <2> QED BY <1>4, <1>5, <1>6, <2>1, <2>2, Zenon
<1>9. /\ C < x => c = C
      /\ C >= x => c = x
  <2>1. \A j \in Nat : p <= j /\ j < C /\ j < x => j \notin Requests!Colons
    BY <1>7, Zenon
  <2>2. C < x => C \in Requests!Colons
    BY <1>2, <1>7, Zenon
  <2> QED BY <1>1, <1>2, <1>3, <2>1, <2>2, FindFirst, Zenon DEF x
<1> HIDE DEF c, e
<1>10. CASE C < x
  <2>1. c = C
    BY <1>9, <1>10
  <2>2. /\ E < x => e = E
        /\ E >= x => e = x
    <3>1. \A j \in Nat : C <= j /\ j < E /\ j < x => j \notin Requests!LineEnds
      BY <1>8, Zenon
    <3>2. E < x => E \in Requests!LineEnds
      BY <1>2, <1>8, Zenon
    <3>3. C <= E
      BY <1>2
    <3>4. /\ E < x => Requests!Find(C, Requests!LineEnds) = E
          /\ E >= x => Requests!Find(C, Requests!LineEnds) = x
      BY <1>1, <1>2, <1>3, <3>1, <3>2, <3>3, FindFirst, Zenon DEF x
    <3> QED BY <2>1, <3>4, Zenon DEF e
  <2>3. e = x => x <= E
    BY <1>1, <1>2, <2>2
  <2>4. ASSUME e # x
        PROVE  /\ E < x /\ Cut(p, c) = f.key /\ Cut(c + 1, e) = f.value
               /\ AtField(Requests!Find(e, Requests!Positions \ Requests!LineEnds), n)
    <3>1. E < x /\ e = E
      BY <1>1, <1>2, <2>2, <2>4
    <3>2. Cut(p, C) = SubSeq(text, p + 1, C)
      <4>1. p <= p /\ \A j \in Nat : ~(p <= j /\ j < p)
        BY <1>2
      <4>2. p < C => p \in Solids
        BY <1>2, <1>3, <1>4, <1>5, <1>6, <4>1, Zenon
      <4> QED BY <1>1, <1>2, <1>10, <4>1, <4>2, CutFrom, Zenon DEF x
    <3>3. Cut(C + 1, E) = SubSeq(text, V + 1, E)
      <4>1. C + 1 \in Nat /\ C + 1 <= V /\ V <= V
        BY <1>2
      <4>2. \A j \in Nat : C + 1 <= j /\ j < V => C < j /\ j < x
        BY <1>1, <1>2, <3>1
      <4>3. \A j \in Nat : C + 1 <= j /\ j < V => j \notin Solids
        BY <1>3, <1>4, <4>2, Zenon
      <4>4. V < E => V < x
        BY <1>1, <1>2, <3>1
      <4>5. V < E => V \in Solids
        BY <1>2, <1>3, <1>4, <4>1, <4>4, Zenon
      <4> QED BY <1>1, <1>2, <3>1, <4>1, <4>3, <4>5, CutFrom, Zenon DEF x
    <3>4. C <= x /\ E <= x
      BY <1>1, <1>2, <1>10, <3>1
    <3>5. AtField(Requests!Find(E, Requests!Positions \ Requests!LineEnds), n)
      BY <3>1, BehindField, Zenon DEF E, x
    <3> QED BY <1>4, <2>1, <3>1, <3>2, <3>3, <3>4, <3>5, Zenon
  <2> QED BY <2>3, <2>4, Zenon DEF x, e, c, p, E, f
<1>11. CASE C >= x
  <2>1. c = x
    BY <1>9, <1>11
  <2>2. /\ x <= x /\ x >= x /\ ~(x < x) /\ \A j \in Nat : ~(x <= j /\ j < x)
        /\ x <= E
    BY <1>1, <1>2, <1>11
  <2>3. Requests!Find(x, Requests!LineEnds) = x
    BY <1>1, <1>3, <2>2, FindFirst, Zenon DEF x
  <2>4. e = x
    BY <2>1, <2>3, Zenon DEF e
  <2> QED BY <2>2, <2>4, Zenon DEF x, e, c, p, E
<1> QED BY <1>1, <1>2, <1>10, <1>11

(* http_headerInit leaves the needle at the first field.                      *)
LEMMA FirstField ==
  ASSUME ReadsText, Len(request.eol) = 2, Begun(request.line, Len(request.line)) <= 3
  PROVE  AtField(Requests!Start(Requests!Scan[Len(text)].next), 0)
<1> DEFINE l == request.line
           N == Len(l)
           b == Len(request.fields)
           x == Len(text)
           z == Len(Sent(request, 0))
           next == Requests!Scan[x].next
           i == Requests!Start(next)
           ch(j) == Requests!Char(j)
<1>1. ReadsLine(l) /\ l \in Seq(ReqChars) /\ text \in Seq(ReqChars)
  BY LineIsRead, Zenon DEF ReadsLine
<1>2. /\ next \in Nat
      /\ x <= N => next = x
      /\ x > N => next = N + 1
  BY <1>1, ScanResult, Zenon
<1>3. i = IF next + 1 < x - 1 THEN next + 1 ELSE x - 1
  BY Zenon DEF Requests!Start, Requests!Least, Requests!Size
<1>4. b \in Nat /\ 0 \in 0 .. b /\ z = N + 2
  <2>1. b \in Nat
    BY RequestParts, Zenon DEF ReadsText
  <2>2. z = N + Len(request.eol)
    BY TextHolds, Zenon DEF ReadsText
  <2> QED BY <2>1, <2>2
<1>5. N \in Nat /\ x \in Nat /\ x > 0
  <2>1. N \in Nat
    BY <1>1
  <2>2. x \in 1 .. Len(Requests!Text(request)) /\ x \in Nat
    BY DEF ReadsText
  <2> QED BY <2>1, <2>2
<1>6. \A j \in Nat : j < N /\ j < x => ch(j) \notin EndChars
  <2> SUFFICES ASSUME NEW j \in Nat, j < N, j < x PROVE text[j + 1] \notin EndChars
    BY Zenon DEF Requests!Char
  <2>1. j + 1 \in 1 .. N /\ j + 1 \in 1 .. x /\ j + 1 <= N
    <3> HIDE DEF N, x
    <3> QED BY <1>5
  <2>2. text[j + 1] = l[j + 1] /\ l[j + 1] \notin EndChars
    BY <1>1, <2>1, Zenon DEF ReadsLine
  <2> QED BY <2>2
<1>7. \A j \in Nat : N <= j /\ j < z /\ j < x => ch(j) \in EndChars
  <2> DEFINE e == request.eol
  <2>1. e \in Seq(ReqChars) /\ (\A k \in 1 .. Len(e) : e[k] \in EndChars) /\ Len(e) = 2
    BY RequestParts, Zenon DEF ReadsText
  <2>2. Holds(Requests!Text(request), N, e)
    BY TextHolds, Zenon DEF ReadsText
  <2>3. \A j \in Nat : N <= j /\ j < N + Len(e) /\ j < x =>
          j - N + 1 \in 1 .. Len(e) /\ ch(j) = e[j - N + 1]
    BY <1>5, <2>1, <2>2, PartIsRead, Zenon
  <2> HIDE DEF e, ch, z, N, x
  <2> SUFFICES ASSUME NEW j \in Nat, N <= j, j < z, j < x PROVE ch(j) \in EndChars
    OBVIOUS
  <2>4. j - N + 1 \in 1 .. Len(e) /\ ch(j) = e[j - N + 1]
    BY <1>4, <2>1, <2>3, Zenon
  <2>5. e[j - N + 1] \in EndChars
    BY <2>1, <2>4, Zenon
  <2> QED BY <2>4, <2>5
<1>8. ASSUME NEW n \in 0 + 1 .. b PROVE z < End(n)
  <2>1. n \in 0 .. b /\ 0 < n /\ n \in 1 .. b
    BY <1>4
  <2>2. z + 1 + Len(request.eol) <= Len(Sent(request, n))
    BY <1>4, <2>1, SentGrows, Zenon DEF ReadsText
  <2>3. Len(Sent(request, n)) = End(n) + 2 /\ End(n) \in Nat
    BY <2>1, FieldPlaces, Zenon
  <2>4. z + 1 + 2 <= End(n) + 2 /\ z \in Nat
    BY <1>4, <1>5, <2>2, <2>3
  <2> HIDE DEF z
  <2> QED BY <2>3, <2>4
<1> HIDE DEF N, x, z, next, i, ch, l
<1>9. CASE x > z
  <2>1. i = z /\ z < x /\ z <= x /\ z \in Nat
    BY <1>2, <1>3, <1>4, <1>5, <1>9
  <2>2. CASE b > 0
    <3>1. 0 + 1 \in 1 .. b
      BY <1>4, <2>2
    <3>2. (0 + 1) - 1 = 0
      OBVIOUS
    <3>3. From(0 + 1) = z
      BY <3>2, Zenon DEF From, z
    <3> QED BY <2>1, <3>1, <3>3, Zenon DEF AtField, i, next, x
  <2>3. CASE b = 0
    <3>1. \A j \in Nat : z <= j /\ j < x => ch(j) \in EndChars
      BY <2>3, TailChars, Zenon DEF ch, x, z
    <3>2. ":" \notin EndChars
      BY DEF EndChars
    <3>3. \A j \in Nat : z <= j /\ j < x => ch(j) # ":"
      BY <3>1, <3>2, Zenon
    <3>4. Silent(i)
      BY <1>5, <2>1, <3>3, SilentFrom, Zenon DEF x, ch
    <3>5. \A n \in 0 + 1 .. b : x <= End(n)
      BY <2>3
    <3> QED BY <3>4, <3>5, Zenon DEF AtField, i, next, x
  <2> QED BY <1>4, <2>2, <2>3
<1>10. CASE x <= z
  <2>1. i = x - 1 /\ i \in Nat /\ i <= x /\ i < x
    BY <1>2, <1>3, <1>4, <1>5, <1>10
  <2>2. \A j \in Nat : i <= j /\ j < x => j = i
    BY <1>5, <2>1
  <2>3. Silent(i)
    <3>1. CASE i < N
      <4>1. \A j \in Nat : i <= j /\ j < x => ch(j) \notin EndChars
        BY <1>6, <2>1, <2>2, <3>1, Zenon
      <4> QED BY <1>5, <2>1, <4>1, SilentFrom, Zenon DEF x, ch
    <3>2. CASE ~(i < N)
      <4>1. N <= i /\ i < z
        BY <1>4, <1>5, <1>10, <2>1, <3>2
      <4>2. ch(i) \in EndChars
        BY <1>7, <2>1, <4>1, Zenon
      <4>3. ch(i) # ":"
        BY <4>2 DEF EndChars
      <4>4. \A j \in Nat : i <= j /\ j < x => ch(j) # ":"
        BY <2>2, <4>3, Zenon
      <4> QED BY <1>5, <2>1, <4>4, SilentFrom, Zenon DEF x, ch
    <3> QED BY <3>1, <3>2, Zenon
  <2>4. ASSUME NEW n \in 0 + 1 .. b PROVE x <= End(n)
    <3>1. z < End(n) /\ End(n) \in Nat
      <4>1. n \in 1 .. b
        BY <1>4
      <4> QED BY <1>8, <4>1, FieldPlaces, Zenon
    <3> QED BY <1>4, <1>5, <1>10, <3>1
  <2> QED BY <2>3, <2>4, Zenon DEF AtField, i, next, x
<1> QED BY <1>4, <1>5, <1>9, <1>10

LEMMA PlacesStay ==
  ASSUME request' = request, text' = text
  PROVE  /\ ReadsText' <=> ReadsText
         /\ \A i, k : AtField(i, k)' <=> AtField(i, k)
         /\ \A n : End(n)' = End(n)
<1>1. Len(text)' = Len(text)
  BY Zenon
<1>2. Requests!Positions' = Requests!Positions
  BY Zenon DEF Requests!Positions, Requests!Size
<1>3. \A j : Requests!Char(j)' = Requests!Char(j)
  BY Zenon DEF Requests!Char
<1>4. Requests!Colons' = Requests!Colons
  BY <1>2, <1>3, Zenon DEF Requests!Colons
<1>5. Requests!LineEnds' = Requests!LineEnds
  BY <1>2, <1>3, Zenon DEF Requests!LineEnds
<1>6. \A i, S : Requests!Find(i, S)' = Requests!Find(i, S)
  <2> SUFFICES ASSUME NEW i, NEW S PROVE Requests!Find(i, S)' = Requests!Find(i, S)
    OBVIOUS
  <2> DEFINE x == Len(text)
             B == {j \in S : j >= i}
  <2>1. x' = x
    BY <1>1
  <2>2. Requests!Find(i, S) = IF B = {} THEN x ELSE CHOOSE j \in B : \A k \in B : j <= k
    BY Zenon DEF Requests!Find, Requests!Size
  <2>3. Requests!Find(i, S)' = IF B = {} THEN x' ELSE CHOOSE j \in B : \A k \in B : j <= k
    BY Zenon DEF Requests!Find, Requests!Size
  <2> QED BY <2>1, <2>2, <2>3, Zenon
<1>7. \A i : Silent(i)' <=> Silent(i)
  BY <1>4, <1>5, <1>6, Zenon DEF Silent
<1>8. \A n : From(n)' = From(n) /\ End(n)' = End(n)
  BY Zenon DEF From, End, Value, Colon
<1>9. \A i, k : AtField(i, k)' <=> AtField(i, k)
  BY <1>7, <1>8, Zenon DEF AtField
<1> QED BY <1>8, <1>9, Zenon DEF ReadsText

LEMMA EndGrows ==
  ASSUME ReadsText, NEW n \in 1 .. Len(request.fields), NEW m \in 1 .. Len(request.fields), n <= m
  PROVE  End(n) \in Nat /\ End(m) \in Nat /\ End(n) <= End(m)
<1> DEFINE b == Len(request.fields)
           z == Len(request.eol)
<1>1. b \in Nat
  BY RequestParts, Zenon DEF ReadsText
<1>2. /\ End(n) \in Nat /\ Len(Sent(request, n)) = End(n) + z /\ z \in Nat
      /\ End(m) \in Nat /\ Len(Sent(request, m)) = End(m) + z
  BY FieldPlaces, Zenon
<1>3. n \in 0 .. b /\ m \in 0 .. b /\ (n < m \/ n = m)
  BY <1>1
<1>4. n < m => (End(n) + z) + 1 + z <= End(m) + z
  BY <1>2, <1>3, SentGrows, Zenon DEF ReadsText
<1> HIDE DEF z
<1>5. CASE n < m
  BY <1>2, <1>4, <1>5
<1>6. CASE n = m
  BY <1>2, <1>6
<1> QED BY <1>3, <1>5, <1>6

--------------------------------------------------------------------------------
Pairs   == [key : Seq(ReqChars), value : Seq(ReqChars)]
Pair(n) == [key |-> request.fields[n].key, value |-> request.fields[n].value]
Headers == [words : Seq(Spans), start : Nat, needle : Nat,
            key : Seq(ReqChars), value : Seq(ReqChars)]

HeaderFits(h) ==
  /\ h \in Headers
  /\ h.start < Len(text) /\ h.needle <= Len(text)
  /\ Len(h.key) < Len(text) /\ Len(h.value) < Len(text)

(* With lines that end in CR LF and a first line of at most three words:      *)
(* what was found are the first fields, the needle is at the next one, and    *)
(* none is left out.                                                         *)
FoundIsRead ==
  /\ Len(found) <= Len(request.fields)
  /\ \A i \in 1 .. Len(found) : found[i] = Pair(i)
FieldsKept ==
  /\ FoundIsRead
  /\ requestAt # "received" => AtField(header.start, 0)
  /\ requestAt = "parsed" => AtField(header.needle, Len(found))
  /\ requestAt = "ended" =>
       \A n \in Len(found) + 1 .. Len(request.fields) : Len(text) <= End(n)

Plain == Len(request.eol) = 2 /\ Begun(request.line, Len(request.line)) <= 3

RequestInv ==
  /\ ReadsText
  /\ requestAt \in {"received", "parsed", "ended"}
  /\ HeaderFits(header)
  /\ found \in Seq(Pairs) /\ resets \in 0 .. Resets
  /\ requestAt = "received" => found = << >> /\ header.words = << >>
  /\ requestAt # "received" => StoredWords(request.line, header.words)
  /\ Plain => FieldsKept

RequestsInv == part = "request" => RequestInv

LEMMA RequestInitial == Requests!Init => RequestInv
<1> SUFFICES ASSUME Requests!Init PROVE RequestInv
  OBVIOUS
<1>1. PICK line \in Lines, eol \in Eols, fields \in Fields :
        LET r == Requests!Request(line, eol, fields) IN
        /\ request = r
        /\ \E n \in 1 .. Len(Requests!Text(r)) : text = SubSeq(Requests!Text(r), 1, n)
  BY Zenon DEF Requests!Init
<1>2. request.line = line /\ request.eol = eol /\ request.fields = fields
  BY <1>1 DEF Requests!Request
<1>3. IsRequest(request)
  BY <1>2, Zenon DEF IsRequest
<1> DEFINE t == Requests!Text(request)
<1>4. t \in Seq(ReqChars) /\ Len(t) \in Nat
  BY <1>3, TextHolds, Zenon
<1>5. PICK n \in 1 .. Len(t) : text = SubSeq(t, 1, n)
  BY <1>1, Zenon
<1> HIDE DEF t
<1>6. /\ text \in Seq(ReqChars) /\ Len(text) = n /\ Len(text) \in 1 .. Len(t)
      /\ \A i \in 1 .. Len(text) : text[i] = t[i]
  BY <1>4, <1>5
<1>7. ReadsText
  BY <1>3, <1>6, Zenon DEF ReadsText, t
<1>8. /\ header = Requests!NoHeader /\ requestAt = "received" /\ found = << >> /\ resets = 0
  BY Zenon DEF Requests!Init
<1>9. HeaderFits(header)
  <2>1. /\ header.words = << >> /\ header.start = 0 /\ header.needle = 0
        /\ header.key = << >> /\ header.value = << >>
        /\ header \in [words : {<< >>}, start : {0}, needle : {0}, key : {<< >>}, value : {<< >>}]
    BY <1>8 DEF Requests!NoHeader
  <2>2. << >> \in Seq(Spans) /\ << >> \in Seq(ReqChars) /\ Len(<< >>) = 0 /\ 0 \in Nat
    OBVIOUS
  <2>3. header \in Headers
    BY <2>1, <2>2 DEF Headers
  <2>4. 0 < Len(text) /\ 0 <= Len(text)
    BY <1>4, <1>6
  <2> QED BY <2>1, <2>2, <2>3, <2>4, Zenon DEF HeaderFits
<1>10. 0 <= Len(request.fields) /\ Len(found) = 0 /\ \A i \in 1 .. 0 : FALSE
  <2>1. Len(request.fields) \in Nat
    BY <1>3, RequestParts, Zenon
  <2> QED BY <1>8, <2>1
<1>11. FieldsKept
  BY <1>8, <1>10, Zenon DEF FieldsKept, FoundIsRead
<1>12. found \in Seq(Pairs) /\ resets \in 0 .. Resets /\ header.words = << >>
  <2>1. Resets \in Nat
    BY RequestAssumption
  <2> QED BY <1>8, <2>1 DEF Requests!NoHeader
<1> QED BY <1>7, <1>8, <1>9, <1>11, <1>12 DEF RequestInv

LEMMA InitStep ==
  ASSUME RequestInv, Requests!HeaderInit
  PROVE  RequestInv'
<1> DEFINE x == Len(text)
           s == Requests!Scan[x]
           i == Requests!Start(s.next)
           h == [words |-> s.words, start |-> i, needle |-> i, key |-> << >>, value |-> << >>]
<1>1. /\ requestAt = "received" /\ requestAt' = "parsed"
      /\ request' = request /\ text' = text /\ found' = found /\ resets' = resets
      /\ header' = [Requests!NoHeader EXCEPT !.words = s.words, !.start = i, !.needle = i]
  BY Zenon DEF Requests!HeaderInit, Requests!Size
<1>2. /\ ReadsText /\ found \in Seq(Pairs) /\ resets \in 0 .. Resets /\ found = << >>
      /\ Plain => FieldsKept
  BY <1>1, Zenon DEF RequestInv
<1>3. ReadsText'
  BY <1>1, <1>2, PlacesStay, Zenon
<1>4. StoredWords(request.line, s.words) /\ s.next \in Nat
  BY <1>2, LineIsRead, ScanResult, Zenon
<1>5. x \in Nat /\ x > 0
  BY <1>2 DEF ReadsText
<1>6. i \in Nat /\ i < x /\ i <= x
  <2>1. i = IF s.next + 1 < x - 1 THEN s.next + 1 ELSE x - 1
    BY Zenon DEF Requests!Start, Requests!Least, Requests!Size
  <2> HIDE DEF i, x, s
  <2> QED BY <1>4, <1>5, <2>1
<1> HIDE DEF s, i
<1>7. header' = h
  BY <1>1 DEF Requests!NoHeader
<1>8. /\ h.words = s.words /\ h.start = i /\ h.needle = i /\ h.key = << >> /\ h.value = << >>
  OBVIOUS
<1>9. h \in Headers
  <2>1. << >> \in Seq(ReqChars) /\ s.words \in Seq(Spans)
    BY <1>4 DEF StoredWords
  <2> QED BY <1>6, <2>1, Zenon DEF Headers
<1> HIDE DEF h
<1>10. HeaderFits(header)'
  <2>1. Len(<< >>) = 0 /\ 0 < x
    BY <1>5
  <2> QED BY <1>1, <1>6, <1>7, <1>8, <1>9, <2>1, Zenon DEF HeaderFits
<1>11. StoredWords(request.line, header.words)'
  BY <1>1, <1>4, <1>7, <1>8, Zenon DEF StoredWords
<1>12. Plain' => FieldsKept'
  <2> SUFFICES ASSUME Plain' PROVE FieldsKept'
    OBVIOUS
  <2>1. Plain /\ FoundIsRead
    BY <1>1, <1>2, Zenon DEF Plain, FieldsKept
  <2>2. AtField(i, 0)
    BY <1>2, <2>1, FirstField, Zenon DEF Plain, i, s
  <2>3. Len(found) = 0
    BY <1>2
  <2>4. AtField(header'.start, 0) /\ AtField(header'.needle, Len(found'))
    BY <1>1, <1>7, <1>8, <2>2, <2>3, Zenon
  <2>5. AtField(header.start, 0)' /\ AtField(header.needle, Len(found))'
    BY <1>1, <2>4, PlacesStay, Zenon
  <2>6. FoundIsRead'
    BY <1>1, <2>1, Zenon DEF FoundIsRead, Pair
  <2>7. "parsed" # "ended"
    OBVIOUS
  <2> QED BY <1>1, <2>5, <2>6, <2>7, Zenon DEF FieldsKept
<1> QED BY <1>1, <1>2, <1>3, <1>10, <1>11, <1>12 DEF RequestInv

LEMMA ResetStep ==
  ASSUME RequestInv, Requests!HeaderReset
  PROVE  RequestInv'
<1> DEFINE h == [words |-> header.words, start |-> header.start, needle |-> header.start,
                 key |-> header.key, value |-> header.value]
<1>1. /\ requestAt # "received" /\ requestAt' = "parsed"
      /\ request' = request /\ text' = text /\ found' = << >> /\ resets' = resets + 1
      /\ header' = [header EXCEPT !.needle = header.start] /\ resets < Resets
  BY Zenon DEF Requests!HeaderReset
<1>2. /\ ReadsText /\ HeaderFits(header) /\ resets \in 0 .. Resets
      /\ StoredWords(request.line, header.words) /\ (Plain => FieldsKept)
  BY <1>1, Zenon DEF RequestInv
<1>3. ReadsText'
  BY <1>1, <1>2, PlacesStay, Zenon
<1>4. header \in Headers /\ header.start < Len(text) /\ Len(text) \in Nat
  BY <1>2 DEF HeaderFits, ReadsText
<1>5. header' = h
  BY <1>1, <1>4 DEF Headers
<1>6. h \in Headers /\ h.needle <= Len(text)
  BY <1>4 DEF Headers
<1>7. /\ h.words = header.words /\ h.start = header.start /\ h.needle = header.start
      /\ h.key = header.key /\ h.value = header.value
  OBVIOUS
<1> HIDE DEF h
<1>8. HeaderFits(header)'
  BY <1>1, <1>2, <1>5, <1>6, <1>7, Zenon DEF HeaderFits
<1>9. StoredWords(request.line, header.words)'
  BY <1>1, <1>2, <1>5, <1>7, Zenon DEF StoredWords
<1>10. Plain' => FieldsKept'
  <2> SUFFICES ASSUME Plain' PROVE FieldsKept'
    OBVIOUS
  <2>1. AtField(header.start, 0)
    BY <1>1, <1>2, Zenon DEF Plain, FieldsKept
  <2>2. Len(found') = 0
    BY <1>1
  <2>3. AtField(header'.start, 0) /\ AtField(header'.needle, Len(found'))
    BY <1>5, <1>7, <2>1, <2>2, Zenon
  <2>4. AtField(header.start, 0)' /\ AtField(header.needle, Len(found))'
    BY <1>1, <2>3, PlacesStay, Zenon
  <2>5. FoundIsRead'
    <3>1. Len(request.fields) \in Nat
      BY <1>2, RequestParts, Zenon DEF ReadsText
    <3>2. 0 <= Len(request.fields) /\ \A k \in 1 .. 0 : FALSE
      BY <3>1
    <3> QED BY <1>1, <2>2, <3>2, Zenon DEF FoundIsRead
  <2>6. "parsed" # "ended"
    OBVIOUS
  <2> QED BY <1>1, <2>4, <2>5, <2>6, Zenon DEF FieldsKept
<1>11. found' \in Seq(Pairs) /\ resets' \in 0 .. Resets
  <2>1. Resets \in Nat
    BY RequestAssumption
  <2> QED BY <1>1, <1>2, <2>1
<1> QED BY <1>1, <1>3, <1>8, <1>9, <1>10, <1>11 DEF RequestInv

LEMMA NextStep ==
  ASSUME RequestInv, Requests!HeaderNext
  PROVE  RequestInv'
<1> DEFINE x == Len(text)
           b == Len(request.fields)
           i == header.needle
           c == Requests!Find(i, Requests!Colons)
           e == Requests!Find(c, Requests!LineEnds)
           r == Requests!Find(e, Requests!Positions \ Requests!LineEnds)
           key == Cut(i, c)
           value == Cut(c + 1, e)
           pair == [key |-> key, value |-> value]
           last == [words |-> header.words, start |-> header.start, needle |-> x,
                    key |-> header.key, value |-> header.value]
           next == [words |-> header.words, start |-> header.start, needle |-> r,
                    key |-> key, value |-> value]
<1>1. /\ requestAt = "parsed"
      /\ request' = request /\ text' = text /\ resets' = resets
      /\ e = x => /\ header' = [header EXCEPT !.needle = x]
                  /\ requestAt' = "ended" /\ found' = found
      /\ e # x => /\ header' = [header EXCEPT !.key = key, !.value = value, !.needle = r]
                  /\ found' = Append(found, pair) /\ requestAt' = requestAt
  BY Zenon DEF Requests!HeaderNext, Requests!Size, Cut
<1>2. /\ ReadsText /\ HeaderFits(header) /\ resets \in 0 .. Resets /\ found \in Seq(Pairs)
      /\ StoredWords(request.line, header.words) /\ (Plain => FieldsKept)
  <2>1. "parsed" # "received"
    OBVIOUS
  <2> QED BY <1>1, <2>1, Zenon DEF RequestInv
<1>3. /\ x \in Nat /\ text \in Seq(ReqChars) /\ header \in Headers /\ header.start < x
      /\ i \in Nat /\ i <= x /\ Len(header.key) < x /\ Len(header.value) < x
  <2>1. header \in Headers
    BY <1>2, Zenon DEF HeaderFits
  <2>2. header.needle \in Nat
    BY <2>1 DEF Headers
  <2>3. x \in Nat /\ text \in Seq(ReqChars)
    BY <1>2 DEF ReadsText
  <2> QED BY <1>2, <2>1, <2>2, <2>3, Zenon DEF HeaderFits
<1>4. /\ Requests!Colons \in SUBSET (0 .. x - 1) /\ Requests!LineEnds \in SUBSET (0 .. x - 1)
      /\ Requests!Positions \ Requests!LineEnds \in SUBSET (0 .. x - 1)
      /\ \A j \in Nat : j < x =>
           /\ j \in Requests!Colons <=> Requests!Char(j) = ":"
           /\ j \in Requests!LineEnds <=> Requests!Char(j) \in EndChars
  BY <1>3, PlaceSets, Zenon
<1>5. /\ c \in Nat /\ c <= x /\ (c < x => c \in Requests!Colons /\ i <= c)
      /\ e \in Nat /\ e <= x /\ (e < x => e \in Requests!LineEnds /\ c <= e)
      /\ r \in Nat /\ r <= x
  <2>1. c \in Nat /\ c <= x /\ (c < x => c \in Requests!Colons /\ i <= c)
    BY <1>3, <1>4, FindIs, Zenon
  <2>2. e \in Nat /\ e <= x /\ (e < x => e \in Requests!LineEnds /\ c <= e)
    BY <1>3, <1>4, <2>1, FindIs, Zenon
  <2>3. r \in Nat /\ r <= x
    BY <1>3, <1>4, <2>2, FindIs, Zenon
  <2> QED BY <2>1, <2>2, <2>3, Zenon
<1> HIDE DEF x, i, c, e, r, key, value
<1>6. ReadsText'
  BY <1>1, <1>2, PlacesStay, Zenon
<1>7. ASSUME e # x
      PROVE  /\ key \in Seq(ReqChars) /\ Len(key) < x
             /\ value \in Seq(ReqChars) /\ Len(value) < x
  <2>1. e < x /\ c <= e /\ c < x /\ i <= c
    BY <1>3, <1>5, <1>7
  <2>2. c # e
    <3>1. ":" \notin EndChars
      BY DEF EndChars
    <3> QED BY <1>4, <1>5, <2>1, <3>1, Zenon
  <2>3. c + 1 <= e /\ c + 1 \in Nat
    BY <1>5, <2>1, <2>2
  <2>4. key \in Seq(ReqChars) /\ Len(key) < x
    BY <1>3, <1>5, <2>1, CutShort, Zenon DEF key, x
  <2>5. value \in Seq(ReqChars) /\ Len(value) < x
    BY <1>3, <1>5, <2>1, <2>3, CutShort, Zenon DEF value, x
  <2> QED BY <2>4, <2>5
<1>8. /\ e = x => header' = last
      /\ e # x => header' = next
  BY <1>1, <1>3 DEF Headers
<1>9. /\ last \in Headers
      /\ e # x => next \in Headers
  <2>1. /\ header.words \in Seq(Spans) /\ header.start \in Nat
        /\ header.key \in Seq(ReqChars) /\ header.value \in Seq(ReqChars)
    BY <1>3 DEF Headers
  <2> QED BY <1>3, <1>5, <1>7, <2>1, Zenon DEF Headers
<1>10. /\ last.words = header.words /\ last.start = header.start /\ last.needle = x
       /\ last.key = header.key /\ last.value = header.value
       /\ next.words = header.words /\ next.start = header.start /\ next.needle = r
       /\ next.key = key /\ next.value = value
  OBVIOUS
<1> HIDE DEF last, next
<1>11. HeaderFits(header)' /\ header'.words = header.words /\ header'.start = header.start
  <2>1. x' = x /\ x <= x
    BY <1>1, <1>3 DEF x
  <2>2. CASE e = x
    BY <1>3, <1>8, <1>9, <1>10, <2>1, <2>2, Zenon DEF HeaderFits, x
  <2>3. CASE e # x
    BY <1>3, <1>5, <1>7, <1>8, <1>9, <1>10, <2>1, <2>3, Zenon DEF HeaderFits, x
  <2> QED BY <2>2, <2>3
<1>12. StoredWords(request.line, header.words)'
  BY <1>1, <1>2, <1>11, Zenon DEF StoredWords
<1>13. found' \in Seq(Pairs) /\ requestAt' \in {"parsed", "ended"}
  <2>1. e # x => pair \in Pairs
    BY <1>7, Zenon DEF Pairs
  <2> HIDE DEF pair
  <2> QED BY <1>1, <1>2, <2>1
<1>14. ASSUME Plain PROVE FieldsKept'
  <2> DEFINE k == Len(found)
  <2>1. FoundIsRead /\ AtField(header.start, 0) /\ AtField(i, k)
    <3>1. "parsed" # "received"
      OBVIOUS
    <3> QED BY <1>1, <1>2, <1>14, <3>1, Zenon DEF FieldsKept, i
  <2>2. AtField(header.start, 0)'
    BY <1>1, <1>11, <2>1, PlacesStay, Zenon
  <2>3. k \in Nat /\ b \in Nat /\ k <= b /\ \A j \in 1 .. k : found[j] = Pair(j)
    <3>1. k \in Nat
      BY <1>2
    <3>2. b \in Nat
      BY <1>2, RequestParts, Zenon DEF ReadsText
    <3> QED BY <2>1, <3>1, <3>2, Zenon DEF FoundIsRead
  <2>4. CASE Silent(i)
    <3>1. e = x
      BY <2>4, Zenon DEF Silent, e, c, x
    <3>2. Len(found') = k /\ requestAt' = "ended" /\ found' = found
      BY <1>1, <3>1
    <3>3. \A n \in k + 1 .. b : x <= End(n)
      <4>1. CASE \A n \in k + 1 .. b : x <= End(n)
        BY <4>1
      <4>2. CASE k + 1 \in 1 .. b /\ i = From(k + 1) /\ i < x
        <5>1. x <= End(k + 1)
          BY <1>2, <1>14, <3>1, <4>2, NextField, Zenon DEF Plain, e, c, x
        <5>2. ASSUME NEW n \in k + 1 .. b PROVE x <= End(n)
          <6>1. n \in 1 .. b /\ k + 1 <= n
            BY <2>3
          <6>2. End(k + 1) \in Nat /\ End(n) \in Nat /\ End(k + 1) <= End(n)
            BY <1>2, <4>2, <6>1, EndGrows, Zenon
          <6> QED BY <1>3, <5>1, <6>2
        <5> QED BY <5>2
      <4> QED BY <2>1, <4>1, <4>2, Zenon DEF AtField, x
    <3>5. FoundIsRead'
      BY <1>1, <2>1, <3>2, Zenon DEF FoundIsRead, Pair
    <3>6. (\A n \in Len(found) + 1 .. Len(request.fields) : Len(text) <= End(n))'
      BY <1>1, <3>2, <3>3, PlacesStay, Zenon DEF x
    <3>7. "ended" # "parsed"
      OBVIOUS
    <3> QED BY <2>2, <3>2, <3>5, <3>6, <3>7, Zenon DEF FieldsKept
  <2>5. CASE ~Silent(i)
    <3>1. k + 1 \in 1 .. b /\ i = From(k + 1) /\ i < x /\ e # x
      BY <2>1, <2>5, Zenon DEF AtField, Silent, e, c, x
    <3>2. /\ key = request.fields[k + 1].key /\ value = request.fields[k + 1].value
          /\ AtField(r, k + 1)
      BY <1>2, <1>14, <3>1, NextField, Zenon DEF Plain, key, value, r, e, c, x
    <3>3. pair = Pair(k + 1)
      BY <3>2, Zenon DEF Pair
    <3> HIDE DEF pair
    <3>4. /\ found' = Append(found, pair) /\ requestAt' = "parsed" /\ header'.needle = r
      BY <1>1, <1>8, <1>10, <3>1, Zenon
    <3>5. /\ Len(found') = k + 1 /\ found'[k + 1] = pair
          /\ \A j \in 1 .. k : found'[j] = found[j]
      BY <1>2, <3>4
    <3>6. ASSUME NEW j \in 1 .. k + 1 PROVE found'[j] = Pair(j)
      <4>1. j \in 1 .. k \/ j = k + 1
        BY <2>3
      <4> QED BY <2>3, <3>3, <3>5, <4>1, Zenon
    <3>7. k + 1 <= b
      BY <2>3, <3>1
    <3>8. \A j : Pair(j)' = Pair(j)
      BY <1>1, Zenon DEF Pair
    <3>9. FoundIsRead'
      BY <1>1, <3>5, <3>6, <3>7, <3>8, Zenon DEF FoundIsRead
    <3>10. AtField(header.needle, Len(found))'
      BY <1>1, <3>2, <3>4, <3>5, PlacesStay, Zenon
    <3>11. "ended" # "parsed"
      OBVIOUS
    <3> QED BY <2>2, <3>4, <3>9, <3>10, <3>11, Zenon DEF FieldsKept
  <2> QED BY <2>4, <2>5
<1>15. Plain' => Plain
  BY <1>1, Zenon DEF Plain
<1>16. "parsed" # "received" /\ "ended" # "received"
  OBVIOUS
<1> QED BY <1>1, <1>2, <1>6, <1>11, <1>12, <1>13, <1>14, <1>15, <1>16 DEF RequestInv

LEMMA RequestsInductive == RequestsInv /\ [LibraryNext]_libraryVars => RequestsInv'
<1> SUFFICES ASSUME RequestsInv, part' = "request", [LibraryNext]_libraryVars
             PROVE  RequestInv'
  BY DEF RequestsInv
<1>1. part = "request" /\ (Requests!Next \/ UNCHANGED requestVars)
  BY DEF LibraryNext, libraryVars
<1>2. RequestInv
  BY <1>1 DEF RequestsInv
<1>3. CASE Requests!HeaderInit
  BY <1>2, <1>3, InitStep
<1>4. CASE Requests!HeaderNext
  BY <1>2, <1>4, NextStep
<1>5. CASE Requests!HeaderReset
  BY <1>2, <1>5, ResetStep
<1>6. CASE UNCHANGED requestVars
  <2>1. /\ request' = request /\ text' = text /\ header' = header /\ requestAt' = requestAt
        /\ found' = found /\ resets' = resets
    BY <1>6 DEF requestVars
  <2>2. ReadsText' /\ (HeaderFits(header)' <=> HeaderFits(header))
    BY <1>2, <2>1, PlacesStay, Zenon DEF RequestInv, HeaderFits
  <2>3. StoredWords(request.line, header.words)' <=> StoredWords(request.line, header.words)
    BY <2>1, Zenon DEF StoredWords
  <2>4. Plain' <=> Plain
    BY <2>1, Zenon DEF Plain
  <2>5. FieldsKept => FieldsKept'
    <3>1. FoundIsRead' <=> FoundIsRead
      BY <2>1, Zenon DEF FoundIsRead, Pair
    <3>2. /\ AtField(header.start, 0)' <=> AtField(header.start, 0)
          /\ AtField(header.needle, Len(found))' <=> AtField(header.needle, Len(found))
      BY <2>1, PlacesStay, Zenon
    <3>3. (\A n \in Len(found) + 1 .. Len(request.fields) : Len(text) <= End(n))'
            <=> (\A n \in Len(found) + 1 .. Len(request.fields) : Len(text) <= End(n))
      BY <2>1, PlacesStay, Zenon
    <3> QED BY <2>1, <3>1, <3>2, <3>3, Zenon DEF FieldsKept
  <2> QED BY <1>2, <2>1, <2>2, <2>3, <2>4, <2>5, Zenon DEF RequestInv
<1> QED BY <1>1, <1>3, <1>4, <1>5, <1>6 DEF Requests!Next

LEMMA HeaderInBounds == RequestInv => Requests!TypeOK
<1> SUFFICES ASSUME RequestInv PROVE Requests!TypeOK
  OBVIOUS
<1> DEFINE x == Len(text)
<1>1. /\ header \in Headers /\ header.start < x /\ header.needle <= x /\ x \in Nat
      /\ Len(header.key) < x /\ Len(header.value) < x
      /\ requestAt \in {"received", "parsed", "ended"} /\ resets \in 0 .. Resets
  BY DEF RequestInv, HeaderFits, ReadsText
<1>2. /\ header.words \in Seq(Spans) /\ Len(header.words) <= 3
      /\ \A i \in 1 .. Len(header.words) :
           header.words[i].start + header.words[i].size <= x
  <2>1. CASE requestAt = "received"
    <3>1. header.words = << >>
      BY <2>1, Zenon DEF RequestInv
    <3>2. << >> \in Seq(Spans) /\ Len(<< >>) <= 3 /\ \A i \in 1 .. Len(<< >>) : FALSE
      OBVIOUS
    <3> QED BY <3>1, <3>2, Zenon
  <2>2. CASE requestAt # "received"
    BY <2>2, Zenon DEF RequestInv, StoredWords, FirstWords
  <2> QED BY <2>1, <2>2
<1>3. ASSUME NEW i \in DOMAIN header.words
      PROVE  header.words[i].start >= 0 /\ header.words[i].start + header.words[i].size <= x
  <2>1. i \in 1 .. Len(header.words) /\ header.words[i] \in Spans
    BY <1>2
  <2>2. header.words[i].start >= 0
    <3> DEFINE w == header.words[i]
    <3>1. w \in Spans
      BY <2>1
    <3> HIDE DEF w
    <3>2. w.start >= 0
      BY <3>1 DEF Spans
    <3> QED BY <3>2 DEF w
  <2> QED BY <1>2, <2>1, <2>2, Zenon
<1>4. header.start \in 0 .. x - 1 /\ header.needle \in 0 .. x
  <2>1. header.start \in Nat /\ header.needle \in Nat
    BY <1>1 DEF Headers
  <2> QED BY <1>1, <2>1
<1> QED BY <1>1, <1>2, <1>3, <1>4, Zenon DEF Requests!TypeOK, Requests!Size

LEMMA FieldsAreFound == RequestInv => Requests!FieldsFound
<1> DEFINE b == Len(request.fields)
           X == Requests!Expected
           k == Len(found)
<1> SUFFICES ASSUME RequestInv, request.eol = <<"CR", "LF">>,
                    Len(Requests!Words(request.line)) <= 3
             PROVE  /\ Len(found) <= Len(X)
                    /\ \A i \in DOMAIN found : found[i] = X[i]
                    /\ requestAt = "ended" => \A n \in DOMAIN X :
                         Len(text) > Len(Requests!UpTo(n)) - Len(request.eol) => k >= n
  BY Zenon DEF Requests!FieldsFound
<1>1. ReadsText /\ found \in Seq(Pairs)
  BY Zenon DEF RequestInv
<1>2. /\ b \in Nat /\ request.line \in Seq(ReqChars) /\ Len(request.eol) = 2
      /\ \A n \in 1 .. b : IsField(request.fields[n])
  BY <1>1, RequestParts, Zenon DEF ReadsText
<1>3. DOMAIN request.fields = 1 .. b
  <2>1. request.fields \in Seq([key : Seq(STRING), gap : Seq({" "}), value : Seq(STRING)])
    BY <1>1, RequestAssumption, Zenon DEF ReadsText, IsRequest
  <2>2. ASSUME NEW S, NEW s \in Seq(S) PROVE DOMAIN s = 1 .. Len(s)
    OBVIOUS
  <2> QED BY <2>1, <2>2, Zenon
<1>4. Plain
  <2>1. Len(Requests!Words(request.line)) = Begun(request.line, Len(request.line))
    BY <1>2, WordsShape, Zenon
  <2> QED BY <1>2, <2>1, Zenon DEF Plain
<1>5. FieldsKept
  BY <1>4, Zenon DEF RequestInv
<1>6. k \in Nat /\ k <= b /\ \A i \in 1 .. k : found[i] = Pair(i)
  <2>1. k \in Nat
    BY <1>1
  <2> QED BY <1>5, <2>1, Zenon DEF FieldsKept, FoundIsRead
<1>7. X = [i \in 1 .. b |-> Pair(i)]
  BY <1>3, Zenon DEF Requests!Expected, Pair
<1>8. ASSUME NEW i \in 1 .. b PROVE Pair(i) \in Pairs
  <2>1. request.fields[i].key \in Seq(ReqChars) /\ request.fields[i].value \in Seq(ReqChars)
    BY <1>2, Zenon DEF IsField
  <2> QED BY <2>1, Zenon DEF Pair, Pairs
<1>9. X \in Seq(Pairs) /\ Len(X) = b /\ DOMAIN X = 1 .. b /\ \A i \in 1 .. b : X[i] = Pair(i)
  <2> HIDE DEF X, b
  <2> QED BY <1>2, <1>7, <1>8
<1>10. \A i \in 1 .. k : found[i] = X[i]
  <2>1. \A i \in 1 .. k : i \in 1 .. b
    BY <1>2, <1>6
  <2> QED BY <1>6, <1>9, <2>1, Zenon
<1>11. Len(found) <= Len(X) /\ \A i \in DOMAIN found : found[i] = X[i]
  <2>1. DOMAIN found = 1 .. k
    BY <1>1
  <2> QED BY <1>6, <1>9, <1>10, <2>1, Zenon
<1>12. ASSUME requestAt = "ended", NEW n \in 1 .. b,
              Len(text) > Len(Requests!UpTo(n)) - Len(request.eol)
       PROVE  k >= n
  <2> SUFFICES ASSUME ~(k >= n) PROVE FALSE
    OBVIOUS
  <2>1. n \in k + 1 .. b
    BY <1>2, <1>6
  <2>2. Len(text) <= End(n)
    BY <1>5, <1>12, <2>1, Zenon DEF FieldsKept
  <2>3. Len(Requests!UpTo(n)) = End(n) + Len(request.eol) /\ End(n) \in Nat
    <3>1. Requests!UpTo(n) = Sent(request, n)
      BY Zenon DEF Requests!UpTo, Sent
    <3> QED BY <1>1, <3>1, FieldPlaces, Zenon
  <2>4. Len(text) \in Nat
    BY <1>1 DEF ReadsText
  <2> DEFINE u == Len(Requests!UpTo(n))
             x == Len(text)
             z == Len(request.eol)
  <2>5. u = End(n) + 2 /\ z = 2 /\ x > u - z /\ x <= End(n) /\ x \in Nat
    BY <1>2, <1>12, <2>2, <2>3, <2>4, Zenon
  <2> HIDE DEF u, x, z
  <2> QED BY <2>3, <2>5
<1> QED BY <1>9, <1>11, <1>12, Zenon

(* http_headerInit and http_headerNext stay within what was read; method,     *)
(* path and protocol are whole or empty wherever the request was cut off, and *)
(* the fields that were read completely are found in order and unshortened.   *)
THEOREM RequestSound == LibrarySpec => []RequestIsWhole
<1>1. LibraryInit => RequestsInv
  BY RequestInitial, Zenon DEF LibraryInit, RequestsInv
<1>2. RequestsInv => RequestIsWhole
  <2> SUFFICES ASSUME RequestInv
               PROVE  Requests!TypeOK /\ Requests!WordsWhole /\ Requests!FieldsFound
    BY Zenon DEF RequestsInv, RequestIsWhole
  <2>1. ReadsLine(request.line)
    BY LineIsRead, Zenon DEF RequestInv
  <2>2. Requests!WordsWhole
    BY <2>1, WordsAreWhole, Zenon DEF RequestInv
  <2> QED BY <2>2, HeaderInBounds, FieldsAreFound, Zenon
<1> QED BY <1>1, <1>2, RequestsInductive, PTL DEF LibrarySpec, libraryVars
--------------------------------------------------------------------------------
(* Pages: what html_builderEnd hands out is what was written, nested as the    *)
(* blocks were, however many attributes the tags have.                        *)

PageLetters == Pages!Letters
PageTags    == Tags \cup {"none", "mismatch"}
PageArenas  == [pos : Header .. Cap, commit : Int, depth : Nat, align : {Align}]
PageStores  == [arena : PageArenas, memory : [0 .. Cap - Header -> PageLetters],
                written : Seq(PageLetters), ok : BOOLEAN]

(* The blocks that are open where a text ends.                                *)
OpenAt(w) == Pages!Nesting(w)[Len(w)]

(* As long as the program goes on, what was written is in the arena, and k    *)
(* are the open blocks.                                                      *)
InArena(s) ==
  /\ s.arena.pos - Header = Len(s.written)
  /\ \A i \in 1 .. Len(s.written) : s.memory[i - 1] = s.written[i]
PageHolds(d, k) ==
  {s \in PageStores : s.arena.depth = d /\ (s.ok => InArena(s) /\ OpenAt(s.written) = k)}

(* Writing a text leads from k to m; so does writing some texts.              *)
Moves(k, w, m) ==
  \A v \in Seq(PageLetters) : OpenAt(v) = k => OpenAt(v \o w) = m
Carries(k, pieces, m) ==
  \E K : /\ K[0] = k /\ K[Len(pieces)] = m
         /\ \A n \in 1 .. Len(pieces) : Moves(K[n - 1], pieces[n], K[n])

(* Until a page is handed out, its letters are in the arena; without a block  *)
(* that was left early, the blocks that are open are those of C.              *)
PageInv ==
  /\ pageAt \in {"start", "body", "done", "crashed"}
  /\ arena \in PageArenas
  /\ memory \in [0 .. Cap - Header -> PageLetters]
  /\ body \in Seq(Tags) /\ written \in Seq(PageLetters) /\ page \in Seq(PageLetters)
  /\ left \in BOOLEAN
  /\ builder \in [depth : Int, startIdx : Int]
  /\ pageAt \in {"start", "body", "crashed"} =>
       /\ builder.depth >= Len(body) /\ page = << >>
       /\ left <=> builder.depth # Len(body)
  /\ pageAt = "start" => arena = Pages!Make(Align) /\ written = << >> /\ body = << >> /\ ~left
  /\ pageAt = "body" =>
       /\ arena.depth = 2 /\ builder.startIdx = 0
       /\ arena.pos - Header = Len(written)
       /\ \A i \in 1 .. Len(written) : memory[i - 1] = written[i]
       /\ ~left => OpenAt(written) = body
  /\ pageAt = "done" =>
       /\ builder.depth = -1 /\ body = << >>
       /\ (page = << >>) = left
       /\ ~left => /\ OpenAt(written) = << >>
                   /\ Len(page) = Len(written) + 1
                   /\ \A i \in 1 .. Len(written) : page[i] = written[i]

PagesInv == part = "page" => PageInv

(* A tag letter opens or closes the blocks that are open.                     *)
LEMMA NestIn ==
  ASSUME NEW k \in Seq(PageTags), NEW l \in PageLetters
  PROVE  Pages!Nest(k, l) \in Seq(PageTags)
<1>1. l.tag \in PageTags /\ "mismatch" \in PageTags
  BY DEF PageLetters, Pages!Letters, PageTags
<1>2. Append(k, l.tag) \in Seq(PageTags) /\ Append(k, "mismatch") \in Seq(PageTags)
  BY <1>1
<1>3. k # << >> => Pages!Popped(k) \in Seq(PageTags)
  <2> DEFINE S == PageTags
  <2> HIDE DEF S
  <2>1. k \in Seq(S)
    BY DEF S
  <2>2. k # << >> => SubSeq(k, 1, Len(k) - 1) \in Seq(S)
    BY <2>1
  <2> QED BY <2>2 DEF Pages!Popped, S
<1> QED BY <1>1, <1>2, <1>3, Zenon DEF Pages!Nest

LEMMA NestingShape ==
  ASSUME NEW w \in Seq(PageLetters)
  PROVE  /\ Pages!Nesting(w)[0] = << >>
         /\ \A n \in 1 .. Len(w) : Pages!Nesting(w)[n] = Pages!Nest(Pages!Nesting(w)[n - 1], w[n])
         /\ \A n \in 0 .. Len(w) : Pages!Nesting(w)[n] \in Seq(PageTags)
<1> DEFINE b == Len(w)
           X == Seq(PageTags)
           turn(q, n) == Pages!Nest(q, w[n])
           T == [n \in 0 .. b |-> X]
           step == [n \in 1 .. b |-> [q \in X |-> turn(q, n)]]
           Shape(f) == f = [n \in 0 .. b |-> IF n = 0 THEN << >> ELSE Pages!Nest(f[n - 1], w[n])]
<1>1. b \in Nat /\ \A n \in 1 .. b : w[n] \in PageLetters
  OBVIOUS
<1>2. ASSUME NEW n \in 1 .. b, NEW q \in X PROVE turn(q, n) \in X
  BY <1>1, NestIn, Zenon
<1>3. << >> \in X
  OBVIOUS
<1>9. ASSUME NEW f PROVE Shape(f) <=> f = [n \in 0 .. b |-> IF n = 0 THEN << >> ELSE turn(f[n - 1], n)]
  OBVIOUS
<1> HIDE DEF turn, X, Shape
<1>4. PICK h : Computed(h, << >>, step, T, X, 0, b)
  <2>1. \A n \in 0 .. b : T[n] \subseteq X
    OBVIOUS
  <2>2. \A n \in 1 .. b : \A s \in T[n - 1] : step[n][s] \in T[n]
    <3> SUFFICES ASSUME NEW n \in 1 .. b, NEW s \in T[n - 1] PROVE step[n][s] \in T[n]
      OBVIOUS
    <3>1. n \in 0 .. b /\ n - 1 \in 0 .. b
      BY <1>1
    <3> QED BY <1>2, <3>1
  <2>3. << >> \in T[0] /\ 0 \in Int /\ b \in Int /\ 0 <= b /\ 0 + 1 = 1
    BY <1>1, <1>3
  <2> HIDE DEF b, T, step
  <2>4. Leads(step, T, X, 0, b)
    BY <2>1, <2>2, <2>3 DEF Leads
  <2> QED BY <2>3, <2>4, RecursionExists
<1>5. Shape(h)
  <2>1. ASSUME NEW n \in 0 .. b, n # 0 PROVE h[n] = turn(h[n - 1], n)
    <3>1. n \in 0 + 1 .. b /\ n - 1 \in 0 .. b /\ n \in 1 .. b
      BY <1>1, <2>1
    <3>2. h[n - 1] \in X
      BY <1>4, <3>1 DEF Computed
    <3>3. h[n] = step[n][h[n - 1]]
      BY <1>4, <3>1, Zenon DEF Computed
    <3> QED BY <3>1, <3>2, <3>3
  <2> HIDE DEF b, T, step
  <2>2. h \in [0 .. b -> X] /\ h[0] = << >>
    BY <1>4 DEF Computed
  <2> QED BY <1>9, <2>1, <2>2
<1> DEFINE f == CHOOSE f : Shape(f)
<1>6. Pages!Nesting(w) = f
  BY DEF Pages!Nesting, Shape
<1>7. Shape(f)
  BY <1>5
<1> HIDE DEF f
<1>8. f[0] = << >> /\ \A n \in 1 .. b : f[n] = turn(f[n - 1], n)
  <2>1. 0 \in 0 .. b /\ \A n \in 1 .. b : n \in 0 .. b /\ n # 0
    BY <1>1
  <2> QED BY <1>7, <1>9, <2>1
<1> DEFINE S == {n \in 0 .. b : f[n] \in X}
<1>10. \A n \in 0 .. b : f[n] \in X
  <2>1. 0 \in S
    BY <1>1, <1>3, <1>8
  <2>2. ASSUME NEW n \in 0 .. b - 1, n \in S PROVE n + 1 \in S
    <3>1. n + 1 \in 0 .. b /\ (n + 1) - 1 = n /\ n + 1 \in 1 .. b
      BY <1>1
    <3>2. f[n + 1] = turn(f[n], n + 1)
      BY <1>8, <3>1
    <3> QED BY <1>2, <2>2, <3>1, <3>2
  <2>3. 0 \in Int /\ b \in Int /\ \A n \in 0 .. b - 1 : n \in S => n + 1 \in S
    BY <1>1, <2>2
  <2> HIDE DEF S
  <2>4. \A n \in 0 .. b : n \in S
    BY <2>1, <2>3, IntervalInduction
  <2> QED BY <2>4 DEF S
<1> QED BY <1>6, <1>8, <1>10, Zenon DEF turn, X

(* The open blocks at a place depend on what stands before it only.           *)
LEMMA NestingPrefix ==
  ASSUME NEW v \in Seq(PageLetters), NEW w \in Seq(PageLetters)
  PROVE  Pages!Nesting(v \o w)[Len(v)] = OpenAt(v)
<1> DEFINE u == v \o w
           f == Pages!Nesting(u)
           g == Pages!Nesting(v)
           b == Len(v)
           S == {n \in 0 .. b : f[n] = g[n]}
<1>1. u \in Seq(PageLetters) /\ b \in Nat /\ Len(u) \in Nat /\ b <= Len(u) /\ \A n \in 1 .. b : u[n] = v[n]
  BY DEF PageLetters
<1> HIDE DEF u
<1>2. f[0] = << >> /\ \A n \in 1 .. Len(u) : f[n] = Pages!Nest(f[n - 1], u[n])
  BY <1>1, NestingShape, Zenon
<1>3. g[0] = << >> /\ \A n \in 1 .. b : g[n] = Pages!Nest(g[n - 1], v[n])
  BY NestingShape, Zenon
<1> HIDE DEF f, g, b
<1>4. 0 \in S
  BY <1>1, <1>2, <1>3
<1>5. ASSUME NEW n \in 0 .. b - 1, n \in S PROVE n + 1 \in S
  <2>1. n + 1 \in 0 .. b /\ (n + 1) - 1 = n /\ n + 1 \in 1 .. b /\ n + 1 \in 1 .. Len(u)
    BY <1>1
  <2>2. f[n + 1] = Pages!Nest(f[n], u[n + 1]) /\ g[n + 1] = Pages!Nest(g[n], v[n + 1])
    BY <1>2, <1>3, <2>1
  <2> QED BY <1>1, <1>5, <2>1, <2>2
<1>6. b \in S
  <2>1. 0 \in Int /\ b \in Int /\ b \in 0 .. b
    BY <1>1
  <2> HIDE DEF S
  <2> QED BY <1>4, <1>5, <2>1, IntervalInduction
<1> QED BY <1>6 DEF OpenAt, u, f, g, b

(* One letter more.                                                          *)
LEMMA MovesOne ==
  ASSUME NEW k, NEW l \in PageLetters
  PROVE  Moves(k, <<l>>, Pages!Nest(k, l))
<1> SUFFICES ASSUME NEW v \in Seq(PageLetters), OpenAt(v) = k
             PROVE  OpenAt(v \o <<l>>) = Pages!Nest(k, l)
  BY Zenon DEF Moves
<1> DEFINE u == v \o <<l>>
           S == PageLetters
<1>0. <<l>> \in Seq(PageLetters)
  OBVIOUS
<1>1. Pages!Nesting(u)[Len(v)] = k
  BY <1>0, NestingPrefix, Zenon
<1>2. u \in Seq(S) /\ Len(u) = Len(v) + 1 /\ u[Len(v) + 1] = l /\ Len(v) \in Nat
  <2> HIDE DEF S
  <2>1. v \in Seq(S) /\ l \in S
    BY DEF S
  <2> QED BY <2>1
<1> HIDE DEF u
<1>3. Len(u) \in 1 .. Len(u) /\ Len(u) - 1 = Len(v)
  BY <1>2
<1>4. Pages!Nesting(u)[Len(u)] = Pages!Nest(Pages!Nesting(u)[Len(u) - 1], u[Len(u)])
  BY <1>2, <1>3, NestingShape, Zenon
<1> QED BY <1>1, <1>2, <1>3, <1>4 DEF OpenAt, u

(* Letters that are no tags leave the blocks as they are.                     *)
LEMMA MovesQuiet ==
  ASSUME NEW k, NEW w \in Seq(PageLetters),
         \A i \in 1 .. Len(w) : w[i].part # "open" /\ w[i].part # "close"
  PROVE  Moves(k, w, k)
<1> SUFFICES ASSUME NEW v \in Seq(PageLetters), OpenAt(v) = k
             PROVE  OpenAt(v \o w) = k
  BY Zenon DEF Moves
<1> DEFINE u == v \o w
           a == Len(v)
           b == Len(u)
           f == Pages!Nesting(u)
           S == {n \in a .. b : f[n] = k}
<1>1. f[a] = k
  BY NestingPrefix, Zenon
<1>2. /\ u \in Seq(PageLetters) /\ b = a + Len(w) /\ a \in Nat /\ b \in Nat /\ a <= b
      /\ \A i \in 1 .. Len(w) : u[a + i] = w[i]
  BY DEF PageLetters
<1> HIDE DEF u, a
<1>3. \A n \in 1 .. b : f[n] = Pages!Nest(f[n - 1], u[n])
  BY <1>2, NestingShape, Zenon
<1> HIDE DEF f, b
<1>4. a \in S
  BY <1>1, <1>2
<1>5. ASSUME NEW n \in a .. b - 1, n \in S PROVE n + 1 \in S
  <2>1. /\ n + 1 \in a .. b /\ (n + 1) - 1 = n /\ n + 1 \in 1 .. b
        /\ n + 1 - a \in 1 .. Len(w) /\ a + (n + 1 - a) = n + 1
    BY <1>2
  <2>2. f[n + 1] = Pages!Nest(f[n], u[n + 1])
    BY <1>3, <2>1
  <2>3. u[n + 1] = w[n + 1 - a]
    BY <1>2, <2>1
  <2>4. Pages!Nest(f[n], u[n + 1]) = f[n]
    BY <2>1, <2>3, Zenon DEF Pages!Nest
  <2> QED BY <1>5, <2>1, <2>2, <2>4
<1>6. b \in S
  <2>1. a \in Int /\ b \in Int /\ b \in a .. b
    BY <1>2
  <2> HIDE DEF S
  <2> QED BY <1>4, <1>5, <2>1, IntervalInduction
<1> QED BY <1>6 DEF OpenAt, u, f, b

--------------------------------------------------------------------------------
(* What is committed is a number.                                             *)
LEMMA PageEndInt ==
  ASSUME NEW p \in Int
  PROVE  Pages!PageEnd(p) \in Int
<1>1. Page \in Nat \ {0} /\ Cap \in Int
  BY PageAssumption
<1>2. p + (Page - 1) \in Int
  BY <1>1
<1>3. (p + (Page - 1)) \div Page \in Int
  BY <1>1, <1>2
<1>4. \A n \in Int : n * Page \in Int
  BY <1>1
<1> QED BY <1>1, <1>3, <1>4, Zenon DEF Pages!PageEnd, Pages!AlignUp, Pages!Least

LEMMA PushedArena ==
  ASSUME NEW a \in PageArenas, NEW n \in Nat, a.depth # 0, a.pos + n <= Cap
  PROVE  /\ Pages!Push(a, n) \in PageArenas
         /\ Pages!Push(a, n).pos = a.pos + n
         /\ Pages!Push(a, n).depth = a.depth
<1> DEFINE p == a.pos + n
           c == IF p > a.commit THEN Pages!PageEnd(p) ELSE a.commit
<1>1. Pages!Push(a, n) = [a EXCEPT !.pos = p, !.commit = c]
  BY DEF Pages!Push, Pages!Padded
<1>2. p \in Header .. Cap /\ p \in Int
  BY PageAssumption DEF PageArenas
<1>3. c \in Int
  <2>1. a.commit \in Int
    BY DEF PageArenas
  <2> QED BY <1>2, <2>1, PageEndInt, Zenon
<1> HIDE DEF p, c
<1>4. /\ [a EXCEPT !.pos = p, !.commit = c] \in PageArenas
      /\ [a EXCEPT !.pos = p, !.commit = c].pos = p
      /\ [a EXCEPT !.pos = p, !.commit = c].depth = a.depth
  BY <1>2, <1>3 DEF PageArenas
<1> QED BY <1>1, <1>4 DEF p

(* A piece that is written in a record stands behind what was written.        *)
LEMMA PieceHolds ==
  ASSUME NEW d \in Nat \ {0}, NEW k, NEW m, NEW s \in PageHolds(d, k),
         NEW w \in Seq(PageLetters), Moves(k, w, m)
  PROVE  Pages!RecordStr(s, w) \in PageHolds(d, m)
<1> DEFINE r == Pages!RecordStr(s, w)
           i == Pages!Offset(s.arena)
           n == Len(w)
           M == [j \in DOMAIN s.memory |-> IF j \in i .. i + Len(w) - 1 THEN w[j - i + 1] ELSE s.memory[j]]
<1>1. s \in PageStores /\ s.arena.depth = d /\ (s.ok => InArena(s) /\ OpenAt(s.written) = k)
  BY DEF PageHolds
<1>2. s.arena \in PageArenas /\ s.memory \in [0 .. Cap - Header -> PageLetters]
      /\ s.written \in Seq(PageLetters) /\ s.ok \in BOOLEAN
  BY <1>1 DEF PageStores
<1>3. CASE ~s.ok \/ ~Pages!Fits(s.arena, n)
  <2>1. r = [s EXCEPT !.ok = FALSE]
    BY <1>3, Zenon DEF Pages!RecordStr
  <2>2. r = [arena |-> s.arena, memory |-> s.memory, written |-> s.written, ok |-> FALSE]
    BY <1>1, <2>1 DEF PageStores
  <2> QED BY <1>1, <1>2, <2>2 DEF PageHolds, PageStores
<1>4. CASE s.ok /\ Pages!Fits(s.arena, n)
  <2>1. r = [arena |-> Pages!Push(s.arena, n), memory |-> M, written |-> s.written \o w, ok |-> TRUE]
    BY <1>4, Zenon DEF Pages!RecordStr
  <2>2. Pages!Padded(s.arena, n) = n
    BY <1>1 DEF Pages!Padded
  <2>3. s.arena.pos \in Header .. Cap /\ s.arena.commit \in Int /\ n \in Nat
        /\ Header \in Nat /\ Cap \in Nat /\ i = s.arena.pos - Header /\ i \in Nat
    BY <1>2, PageAssumption DEF PageArenas, Pages!Offset
  <2>15. i \in Nat /\ n \in Nat
    BY <2>3
  <2>4. s.arena.pos + n <= Cap
    BY <1>4, <2>2, Zenon DEF Pages!Fits
  <2>5. Pages!Push(s.arena, n) \in PageArenas /\ Pages!Push(s.arena, n).pos = s.arena.pos + n
        /\ Pages!Push(s.arena, n).depth = d
    <3>1. s.arena \in PageArenas /\ s.arena.depth = d /\ d # 0 /\ n \in Nat
      BY <1>1, <1>2, <2>15
    <3> QED BY <2>4, <3>1, PushedArena
  <2>6. InArena(s)
    BY <1>1, <1>4
  <2>7. Len(s.written) = i /\ \A j \in 1 .. i : s.memory[j - 1] = s.written[j]
    BY <2>3, <2>6 DEF InArena
  <2> DEFINE u == s.written \o w
             S == PageLetters
  <2>8. u \in Seq(S) /\ Len(u) = i + n /\ (\A j \in 1 .. i : u[j] = s.written[j])
        /\ \A j \in i + 1 .. i + n : u[j] = w[j - i]
    <3> HIDE DEF S, i
    <3>1. s.written \in Seq(S) /\ w \in Seq(S)
      BY <1>2 DEF S
    <3>2. Len(s.written) = i /\ n = Len(w)
      BY <2>7
    <3> QED BY <3>1, <3>2
  <2>9. M \in [0 .. Cap - Header -> S]
    <3> HIDE DEF S, i
    <3>1. \A j \in 0 .. Cap - Header : j \in i .. i + n - 1 => w[j - i + 1] \in S
      <4>1. \A j \in i .. i + n - 1 : j - i + 1 \in 1 .. n
        BY <2>15
      <4>2. \A j \in 1 .. n : w[j] \in S
        BY DEF S
      <4> QED BY <4>1, <4>2
    <3>2. s.memory \in [0 .. Cap - Header -> S]
      BY <1>2 DEF S
    <3> QED BY <3>1, <3>2
  <2>10. \A j \in 1 .. i + n : M[j - 1] = u[j]
    <3> HIDE DEF u, S
    <3> SUFFICES ASSUME NEW j \in 1 .. i + n PROVE M[j - 1] = u[j]
      OBVIOUS
    <3>1. j - 1 \in 0 .. Cap - Header /\ j \in Int
      BY <2>3, <2>4
    <3>2. j - 1 \in DOMAIN s.memory
      BY <1>2, <3>1
    <3>3. M[j - 1] = IF j - 1 \in i .. i + n - 1 THEN w[(j - 1) - i + 1] ELSE s.memory[j - 1]
      BY <3>2
    <3> HIDE DEF M, i, n
    <3>4. CASE j <= i
      <4>1. j \in 1 .. i /\ j - 1 \notin i .. i + n - 1
        BY <2>3, <3>1, <3>4
      <4> QED BY <2>7, <2>8, <3>3, <4>1
    <3>5. CASE j > i
      <4>1. j \in i + 1 .. i + n /\ j - 1 \in i .. i + n - 1 /\ (j - 1) - i + 1 = j - i
        BY <2>15, <3>1, <3>5
      <4> QED BY <2>8, <3>3, <4>1
    <3> QED BY <2>3, <3>1, <3>4, <3>5
  <2>11. OpenAt(u) = m
    BY <1>1, <1>2, <1>4, Zenon DEF Moves
  <2> HIDE DEF u, M
  <2>12. r \in PageStores /\ r.arena.depth = d
    BY <2>1, <2>5, <2>8, <2>9 DEF PageStores, u
  <2>13. InArena(r)
    <3>1. r.written = u /\ r.memory = M /\ r.arena.pos = s.arena.pos + n
      BY <2>1, <2>5 DEF u
    <3>2. s.arena.pos + n - Header = i + n
      BY <2>3
    <3>3. r.arena.pos - Header = Len(r.written)
      <4>1. Len(u) = i + n
        BY <2>8
      <4>2. r.arena.pos = s.arena.pos + n /\ r.written = u
        BY <3>1
      <4> HIDE DEF r
      <4> QED BY <2>3, <3>2, <4>1, <4>2
    <3>4. \A j \in 1 .. Len(r.written) : r.memory[j - 1] = r.written[j]
      BY <2>8, <2>10, <3>1
    <3> QED BY <3>3, <3>4, Zenon DEF InArena
  <2>14. r.written = u
    BY <2>1 DEF u
  <2> QED BY <2>11, <2>12, <2>13, <2>14 DEF PageHolds
<1> QED BY <1>3, <1>4

(* The store of a record that is begun or ended within another one.           *)
LEMMA RecordBegins ==
  ASSUME NEW d \in Nat, NEW k, NEW s \in PageHolds(d, k)
  PROVE  [s EXCEPT !.arena = Pages!StartRecord(@)] \in PageHolds(d + 1, k)
<1>1. s \in PageStores /\ s.arena.depth = d /\ (s.ok => InArena(s) /\ OpenAt(s.written) = k)
  BY DEF PageHolds
<1> DEFINE a == [pos |-> s.arena.pos, commit |-> s.arena.commit, depth |-> d + 1, align |-> s.arena.align]
<1>2. Pages!StartRecord(s.arena) = a
  BY <1>1 DEF PageStores, PageArenas, Pages!StartRecord
<1>3. a \in PageArenas
  BY <1>1 DEF PageStores, PageArenas
<1>4. [s EXCEPT !.arena = a] = [arena |-> a, memory |-> s.memory, written |-> s.written, ok |-> s.ok]
  BY <1>1 DEF PageStores
<1>5. [arena |-> a, memory |-> s.memory, written |-> s.written, ok |-> s.ok] \in PageStores
  BY <1>1, <1>3 DEF PageStores
<1> QED BY <1>1, <1>2, <1>4, <1>5 DEF PageHolds, InArena

LEMMA RecordEnds ==
  ASSUME NEW d \in Nat \ {0}, NEW k, NEW s \in PageHolds(d + 1, k)
  PROVE  [s EXCEPT !.arena = Pages!StopRecord(@)] \in PageHolds(d, k)
<1>1. s \in PageStores /\ s.arena.depth = d + 1 /\ (s.ok => InArena(s) /\ OpenAt(s.written) = k)
  BY DEF PageHolds
<1> DEFINE a == [pos |-> s.arena.pos, commit |-> s.arena.commit, depth |-> d, align |-> s.arena.align]
<1>2. Pages!StopRecord(s.arena) = a
  <2>1. s.arena \in PageArenas /\ s.arena.depth # 1 /\ s.arena.depth - 1 = d
    BY <1>1 DEF PageStores
  <2>2. Pages!StopRecord(s.arena) = [s.arena EXCEPT !.depth = d, !.pos = s.arena.pos]
    BY <2>1 DEF Pages!StopRecord
  <2> QED BY <2>1, <2>2 DEF PageArenas
<1>3. a \in PageArenas
  BY <1>1 DEF PageStores, PageArenas
<1>4. [s EXCEPT !.arena = a] = [arena |-> a, memory |-> s.memory, written |-> s.written, ok |-> s.ok]
  BY <1>1 DEF PageStores
<1>5. [arena |-> a, memory |-> s.memory, written |-> s.written, ok |-> s.ok] \in PageStores
  BY <1>1, <1>3 DEF PageStores
<1> QED BY <1>1, <1>2, <1>4, <1>5 DEF PageHolds, InArena

(* A str_join of pieces that lead from k to m.                                *)
LEMMA JoinHolds ==
  ASSUME NEW d \in Nat \ {0}, NEW k, NEW m, NEW s \in PageHolds(d, k),
         NEW pieces \in Seq(Seq(PageLetters)), Carries(k, pieces, m)
  PROVE  Pages!Join(s, pieces) \in PageHolds(d, m)
<1> DEFINE b == Len(pieces)
           X == PageStores
           x == [s EXCEPT !.arena = Pages!StartRecord(@)]
           turn(q, n) == Pages!RecordStr(q, pieces[n])
           Shape(f) == f = [n \in 0 .. b |-> IF n = 0 THEN x ELSE Pages!RecordStr(f[n - 1], pieces[n])]
<1>0. PICK K : /\ K[0] = k /\ K[b] = m
               /\ \A n \in 1 .. b : Moves(K[n - 1], pieces[n], K[n])
  BY Zenon DEF Carries
<1> DEFINE T == [n \in 0 .. b |-> PageHolds(d + 1, K[n])]
           step == [n \in 1 .. b |-> [q \in X |-> turn(q, n)]]
<1>1. b \in Nat /\ (\A n \in 1 .. b : pieces[n] \in Seq(PageLetters)) /\ d + 1 \in Nat \ {0}
  <2> DEFINE S == Seq(PageLetters)
  <2> HIDE DEF S
  <2>1. pieces \in Seq(S)
    BY DEF S
  <2>2. b \in Nat /\ \A n \in 1 .. b : pieces[n] \in S
    BY <2>1
  <2> QED BY <2>2 DEF S
<1>2. ASSUME NEW n \in 1 .. b, NEW q \in PageHolds(d + 1, K[n - 1])
      PROVE  turn(q, n) \in PageHolds(d + 1, K[n])
  BY <1>0, <1>1, PieceHolds, Zenon
<1>3. x \in PageHolds(d + 1, K[0])
  BY <1>0, RecordBegins
<1>9. ASSUME NEW f PROVE Shape(f) <=> f = [n \in 0 .. b |-> IF n = 0 THEN x ELSE turn(f[n - 1], n)]
  OBVIOUS
<1>10. \A n \in 0 .. b : T[n] = PageHolds(d + 1, K[n]) /\ T[n] \subseteq X
  BY DEF PageHolds
<1> HIDE DEF turn, X, Shape, x
<1>4. PICK h : Computed(h, x, step, T, X, 0, b)
  <2>2. \A n \in 1 .. b : \A t \in T[n - 1] : step[n][t] \in T[n]
    <3> SUFFICES ASSUME NEW n \in 1 .. b, NEW t \in T[n - 1] PROVE step[n][t] \in T[n]
      OBVIOUS
    <3>1. n \in 0 .. b /\ n - 1 \in 0 .. b
      BY <1>1
    <3>2. t \in PageHolds(d + 1, K[n - 1]) /\ t \in X
      BY <1>10, <3>1
    <3>3. step[n][t] = turn(t, n)
      BY <3>2
    <3> QED BY <1>2, <1>10, <3>1, <3>2, <3>3, Zenon
  <2>3. x \in T[0] /\ 0 \in Int /\ b \in Int /\ 0 <= b /\ 0 + 1 = 1
    BY <1>1, <1>3, <1>10
  <2> HIDE DEF b, T, step
  <2>4. Leads(step, T, X, 0, b)
    BY <1>10, <2>2, <2>3 DEF Leads
  <2> QED BY <2>3, <2>4, RecursionExists
<1>5. Shape(h)
  <2>1. ASSUME NEW n \in 0 .. b, n # 0 PROVE h[n] = turn(h[n - 1], n)
    <3>1. n \in 0 + 1 .. b /\ n - 1 \in 0 .. b /\ n \in 1 .. b
      BY <1>1, <2>1
    <3>2. h[n - 1] \in X
      BY <1>4, <3>1 DEF Computed
    <3>3. h[n] = step[n][h[n - 1]]
      BY <1>4, <3>1, Zenon DEF Computed
    <3> QED BY <3>1, <3>2, <3>3
  <2> HIDE DEF b, T, step
  <2>2. h \in [0 .. b -> X] /\ h[0] = x
    BY <1>4 DEF Computed
  <2> QED BY <1>9, <2>1, <2>2
<1> DEFINE f == CHOOSE f : Shape(f)
<1>6. Pages!Recorded(s, pieces) = f
  BY DEF Pages!Recorded, Shape, x
<1>7. Shape(f)
  BY <1>5
<1> HIDE DEF f
<1>8. f[0] = x /\ \A n \in 1 .. b : f[n] = turn(f[n - 1], n)
  <2>1. 0 \in 0 .. b /\ \A n \in 1 .. b : n \in 0 .. b /\ n # 0
    BY <1>1
  <2> QED BY <1>7, <1>9, <2>1
<1> DEFINE S == {n \in 0 .. b : f[n] \in PageHolds(d + 1, K[n])}
<1>11. b \in S
  <2>1. 0 \in S
    BY <1>1, <1>3, <1>8
  <2>2. ASSUME NEW n \in 0 .. b - 1, n \in S PROVE n + 1 \in S
    <3>1. n + 1 \in 0 .. b /\ (n + 1) - 1 = n /\ n + 1 \in 1 .. b
      BY <1>1
    <3>2. f[n + 1] = turn(f[n], n + 1)
      BY <1>8, <3>1
    <3>3. f[n] \in PageHolds(d + 1, K[(n + 1) - 1])
      BY <2>2, <3>1
    <3>4. turn(f[n], n + 1) \in PageHolds(d + 1, K[n + 1])
      BY <1>2, <3>1, <3>3, Zenon
    <3> QED BY <3>1, <3>2, <3>4
  <2>3. 0 \in Int /\ b \in Int /\ (\A n \in 0 .. b - 1 : n \in S => n + 1 \in S) /\ b \in 0 .. b
    BY <1>1, <2>2
  <2> HIDE DEF S
  <2> QED BY <2>1, <2>3, IntervalInduction
<1>12. f[b] \in PageHolds(d + 1, m)
  BY <1>0, <1>11
<1>13. [f[b] EXCEPT !.arena = Pages!StopRecord(@)] \in PageHolds(d, m)
  BY <1>12, RecordEnds
<1> QED BY <1>6, <1>13 DEF Pages!Join

(* Some str_joins.                                                           *)
CarriesAll(k, joins, m) ==
  \E K : /\ K[0] = k /\ K[Len(joins)] = m
         /\ \A n \in 1 .. Len(joins) : Carries(K[n - 1], joins[n], K[n])

LEMMA JoinedHolds ==
  ASSUME NEW d \in Nat \ {0}, NEW k, NEW m, Pages!Store \in PageHolds(d, k),
         NEW joins \in Seq(Seq(Seq(PageLetters))), CarriesAll(k, joins, m)
  PROVE  Pages!Joined(joins)[Len(joins)] \in PageHolds(d, m)
<1> DEFINE b == Len(joins)
           X == PageStores
           x == Pages!Store
           turn(q, n) == Pages!Join(q, joins[n])
           Shape(f) == f = [n \in 0 .. b |-> IF n = 0 THEN x ELSE Pages!Join(f[n - 1], joins[n])]
<1>0. PICK K : /\ K[0] = k /\ K[b] = m
               /\ \A n \in 1 .. b : Carries(K[n - 1], joins[n], K[n])
  BY Zenon DEF CarriesAll
<1> DEFINE T == [n \in 0 .. b |-> PageHolds(d, K[n])]
           step == [n \in 1 .. b |-> [q \in X |-> turn(q, n)]]
<1>1. b \in Nat /\ \A n \in 1 .. b : joins[n] \in Seq(Seq(PageLetters))
  <2> DEFINE S == Seq(Seq(PageLetters))
  <2> HIDE DEF S
  <2>1. joins \in Seq(S)
    BY DEF S
  <2>2. b \in Nat /\ \A n \in 1 .. b : joins[n] \in S
    BY <2>1
  <2> QED BY <2>2 DEF S
<1>2. ASSUME NEW n \in 1 .. b, NEW q \in PageHolds(d, K[n - 1])
      PROVE  turn(q, n) \in PageHolds(d, K[n])
  BY <1>0, <1>1, JoinHolds, Zenon
<1>3. x \in PageHolds(d, K[0])
  BY <1>0
<1>9. ASSUME NEW f PROVE Shape(f) <=> f = [n \in 0 .. b |-> IF n = 0 THEN x ELSE turn(f[n - 1], n)]
  OBVIOUS
<1>10. \A n \in 0 .. b : T[n] = PageHolds(d, K[n]) /\ T[n] \subseteq X
  BY DEF PageHolds
<1> HIDE DEF turn, X, Shape, x
<1>4. PICK h : Computed(h, x, step, T, X, 0, b)
  <2>2. \A n \in 1 .. b : \A t \in T[n - 1] : step[n][t] \in T[n]
    <3> SUFFICES ASSUME NEW n \in 1 .. b, NEW t \in T[n - 1] PROVE step[n][t] \in T[n]
      OBVIOUS
    <3>1. n \in 0 .. b /\ n - 1 \in 0 .. b
      BY <1>1
    <3>2. t \in PageHolds(d, K[n - 1]) /\ t \in X
      BY <1>10, <3>1
    <3>3. step[n][t] = turn(t, n)
      BY <3>2
    <3> QED BY <1>2, <1>10, <3>1, <3>2, <3>3, Zenon
  <2>3. x \in T[0] /\ 0 \in Int /\ b \in Int /\ 0 <= b /\ 0 + 1 = 1
    BY <1>1, <1>3, <1>10
  <2> HIDE DEF b, T, step
  <2>4. Leads(step, T, X, 0, b)
    BY <1>10, <2>2, <2>3 DEF Leads
  <2> QED BY <2>3, <2>4, RecursionExists
<1>5. Shape(h)
  <2>1. ASSUME NEW n \in 0 .. b, n # 0 PROVE h[n] = turn(h[n - 1], n)
    <3>1. n \in 0 + 1 .. b /\ n - 1 \in 0 .. b /\ n \in 1 .. b
      BY <1>1, <2>1
    <3>2. h[n - 1] \in X
      BY <1>4, <3>1 DEF Computed
    <3>3. h[n] = step[n][h[n - 1]]
      BY <1>4, <3>1, Zenon DEF Computed
    <3> QED BY <3>1, <3>2, <3>3
  <2> HIDE DEF b, T, step
  <2>2. h \in [0 .. b -> X] /\ h[0] = x
    BY <1>4 DEF Computed
  <2> QED BY <1>9, <2>1, <2>2
<1> DEFINE f == CHOOSE f : Shape(f)
<1>6. Pages!Joined(joins) = f
  BY DEF Pages!Joined, Shape, x
<1>7. Shape(f)
  BY <1>5
<1> HIDE DEF f
<1>8. f[0] = x /\ \A n \in 1 .. b : f[n] = turn(f[n - 1], n)
  <2>1. 0 \in 0 .. b /\ \A n \in 1 .. b : n \in 0 .. b /\ n # 0
    BY <1>1
  <2> QED BY <1>7, <1>9, <2>1
<1> DEFINE S == {n \in 0 .. b : f[n] \in PageHolds(d, K[n])}
<1>11. b \in S
  <2>1. 0 \in S
    BY <1>1, <1>3, <1>8
  <2>2. ASSUME NEW n \in 0 .. b - 1, n \in S PROVE n + 1 \in S
    <3>1. n + 1 \in 0 .. b /\ (n + 1) - 1 = n /\ n + 1 \in 1 .. b
      BY <1>1
    <3>2. f[n + 1] = turn(f[n], n + 1)
      BY <1>8, <3>1
    <3>3. f[n] \in PageHolds(d, K[(n + 1) - 1])
      BY <2>2, <3>1
    <3>4. turn(f[n], n + 1) \in PageHolds(d, K[n + 1])
      BY <1>2, <3>1, <3>3, Zenon
    <3> QED BY <3>1, <3>2, <3>4
  <2>3. 0 \in Int /\ b \in Int /\ (\A n \in 0 .. b - 1 : n \in S => n + 1 \in S) /\ b \in 0 .. b
    BY <1>1, <2>2
  <2> HIDE DEF S
  <2> QED BY <2>1, <2>3, IntervalInduction
<1>12. f[b] \in PageHolds(d, m)
  BY <1>0, <1>11
<1> QED BY <1>6, <1>12

--------------------------------------------------------------------------------
(* A single letter, and letters that are no tags.                             *)
LEMMA CarriesOne ==
  ASSUME NEW k, NEW l \in PageLetters
  PROVE  Carries(k, << <<l>> >>, Pages!Nest(k, l))
<1> DEFINE m == Pages!Nest(k, l)
           w == <<l>>
           K == [n \in 0 .. 1 |-> IF n = 0 THEN k ELSE m]
           pieces == <<w>>
<1>1. Moves(k, w, m)
  BY MovesOne
<1> HIDE DEF m, w
<1>2. K[0] = k /\ K[1] = m /\ Len(pieces) = 1 /\ pieces[1] = w
  OBVIOUS
<1>3. \A n \in 1 .. 1 : n = 1 /\ n - 1 = 0
  OBVIOUS
<1> HIDE DEF K, pieces
<1>4. \A n \in 1 .. Len(pieces) : Moves(K[n - 1], pieces[n], K[n])
  BY <1>1, <1>2, <1>3
<1>5. Carries(k, pieces, m)
  BY <1>2, <1>4 DEF Carries
<1> QED BY <1>5 DEF pieces, m, w

IsQuiet(w) == \A i \in 1 .. Len(w) : w[i].part # "open" /\ w[i].part # "close"

LEMMA CarriesQuiet ==
  ASSUME NEW k, NEW pieces \in Seq(Seq(PageLetters)), \A n \in 1 .. Len(pieces) : IsQuiet(pieces[n])
  PROVE  Carries(k, pieces, k)
<1> DEFINE S == Seq(PageLetters)
           b == Len(pieces)
           K == [n \in 0 .. b |-> k]
<1>1. b \in Nat /\ \A n \in 1 .. b : pieces[n] \in S
  <2> HIDE DEF S
  <2>1. pieces \in Seq(S)
    BY DEF S
  <2> QED BY <2>1
<1>2. \A n \in 1 .. b : Moves(k, pieces[n], k)
  BY <1>1, MovesQuiet, Zenon DEF IsQuiet
<1> HIDE DEF S
<1>3. K[0] = k /\ K[b] = k /\ \A n \in 1 .. b : K[n - 1] = k /\ K[n] = k
  BY <1>1
<1> HIDE DEF K
<1>4. \A n \in 1 .. b : Moves(K[n - 1], pieces[n], K[n])
  BY <1>2, <1>3
<1> QED BY <1>3, <1>4 DEF Carries

LEMMA CarriesAllOne ==
  ASSUME NEW k, NEW m, NEW pieces, Carries(k, pieces, m)
  PROVE  CarriesAll(k, <<pieces>>, m)
<1> DEFINE K == [n \in 0 .. 1 |-> IF n = 0 THEN k ELSE m]
           joins == <<pieces>>
<1>2. K[0] = k /\ K[1] = m /\ Len(joins) = 1 /\ joins[1] = pieces
  OBVIOUS
<1>3. \A n \in 1 .. 1 : n = 1 /\ n - 1 = 0
  OBVIOUS
<1> HIDE DEF K, joins
<1>4. \A n \in 1 .. Len(joins) : Carries(K[n - 1], joins[n], K[n])
  BY <1>2, <1>3
<1> QED BY <1>2, <1>4 DEF CarriesAll, joins

LEMMA LettersAre ==
  ASSUME NEW tag \in Tags
  PROVE  /\ Pages!Letter("open", tag) \in PageLetters /\ Pages!Letter("close", tag) \in PageLetters
         /\ Pages!Letter("key", tag) \in PageLetters /\ Pages!Letter("value", tag) \in PageLetters
         /\ Pages!Letter("rest", tag) \in PageLetters
BY DEF PageLetters, Pages!Letters, Pages!Letter

(* A tag with its attributes opens one block.                                 *)
LEMMA OpeningJoins ==
  ASSUME NEW k \in Seq(PageTags), NEW tag \in Tags, NEW attrs \in Nat
  PROVE  /\ Pages!OpenJoins(tag, attrs) \in Seq(Seq(Seq(PageLetters)))
         /\ CarriesAll(k, Pages!OpenJoins(tag, attrs), Append(k, tag))
<1> DEFINE S == PageLetters
           P == Seq(S)
           first == << <<Pages!Letter("open", tag)>> >>
           attr  == Pages!Attribute(tag)
           last  == << <<Pages!Letter("rest", tag), Pages!Letter("rest", tag)>> >>
           m == Append(k, tag)
           joins == <<first>> \o [i \in 1 .. attrs |-> attr] \o <<last>>
           K == [n \in 0 .. attrs + 2 |-> IF n = 0 THEN k ELSE m]
<1>1. Carries(k, first, m)
  <2>1. Pages!Nest(k, Pages!Letter("open", tag)) = m
    BY DEF Pages!Nest, Pages!Letter
  <2> QED BY <2>1, LettersAre, CarriesOne, Zenon
<1>2. attr \in Seq(P) /\ Carries(m, attr, m)
  <2> DEFINE l1 == Pages!Letter("key", tag)
             l2 == Pages!Letter("value", tag)
  <2>1. l1 \in S /\ l2 \in S /\ l1.part = "key" /\ l2.part = "value"
    BY LettersAre DEF Pages!Letter
  <2>2. attr = << <<l1>>, <<l2>> >>
    BY DEF Pages!Attribute
  <2> HIDE DEF l1, l2, attr, S
  <2>3. <<l1>> \in Seq(S) /\ <<l2>> \in Seq(S)
    BY <2>1
  <2>4. IsQuiet(<<l1>>) /\ IsQuiet(<<l2>>)
    BY <2>1 DEF IsQuiet
  <2>5. attr \in Seq(P) /\ Len(attr) = 2 /\ attr[1] = <<l1>> /\ attr[2] = <<l2>>
    BY <2>2, <2>3
  <2>6. \A n \in 1 .. Len(attr) : n = 1 \/ n = 2
    BY <2>5
  <2>7. \A n \in 1 .. Len(attr) : IsQuiet(attr[n])
    BY <2>4, <2>5, <2>6
  <2> QED BY <2>5, <2>7, CarriesQuiet, Zenon DEF S
<1>3. last \in Seq(P) /\ Carries(m, last, m)
  <2> DEFINE l == Pages!Letter("rest", tag)
             w == <<l, l>>
  <2>1. l \in S /\ l.part = "rest"
    BY LettersAre DEF Pages!Letter
  <2> HIDE DEF l, S
  <2>2. w \in Seq(S) /\ Len(w) = 2 /\ w[1] = l /\ w[2] = l
    BY <2>1
  <2>3. \A n \in 1 .. 2 : n = 1 \/ n = 2
    OBVIOUS
  <2> HIDE DEF w
  <2>4. IsQuiet(w)
    BY <2>1, <2>2, <2>3 DEF IsQuiet
  <2>5. last = <<w>>
    BY DEF l, w
  <2>6. last \in Seq(P) /\ Len(last) = 1 /\ last[1] = w
    BY <2>2, <2>5
  <2>7. \A n \in 1 .. Len(last) : IsQuiet(last[n])
    BY <2>4, <2>6
  <2> QED BY <2>6, <2>7, CarriesQuiet, Zenon DEF S
<1>4. first \in Seq(P)
  <2> DEFINE l == Pages!Letter("open", tag)
  <2>1. l \in S
    BY LettersAre
  <2> HIDE DEF l, S
  <2> QED BY <2>1 DEF l
<1> HIDE DEF first, attr, last, m, P
<1>5. /\ joins \in Seq(Seq(P)) /\ Len(joins) = attrs + 2
      /\ joins[1] = first /\ joins[attrs + 2] = last
      /\ \A n \in 2 .. attrs + 1 : joins[n] = attr
  <2> DEFINE Q == Seq(P)
             middle == [i \in 1 .. attrs |-> attr]
             left_ == <<first>> \o middle
  <2>1. first \in Q /\ attr \in Q /\ last \in Q
    BY <1>2, <1>3, <1>4
  <2> HIDE DEF Q
  <2>2. middle \in Seq(Q) /\ Len(middle) = attrs /\ \A i \in 1 .. attrs : middle[i] = attr
    BY <2>1
  <2> HIDE DEF middle
  <2>3. left_ \in Seq(Q) /\ Len(left_) = attrs + 1 /\ left_[1] = first
        /\ \A n \in 2 .. attrs + 1 : left_[n] = middle[n - 1]
    BY <2>1, <2>2
  <2> HIDE DEF left_
  <2>4. \A n \in 2 .. attrs + 1 : n - 1 \in 1 .. attrs
    OBVIOUS
  <2>5. \A n \in 2 .. attrs + 1 : left_[n] = attr
    BY <2>2, <2>3, <2>4
  <2>6. joins = left_ \o <<last>>
    BY DEF left_, middle
  <2> HIDE DEF joins
  <2>7. joins \in Seq(Q) /\ Len(joins) = attrs + 2 /\ joins[attrs + 2] = last
        /\ \A n \in 1 .. attrs + 1 : joins[n] = left_[n]
    BY <2>1, <2>3, <2>6
  <2>8. 1 \in 1 .. attrs + 1 /\ \A n \in 2 .. attrs + 1 : n \in 1 .. attrs + 1
    OBVIOUS
  <2> QED BY <2>3, <2>5, <2>7, <2>8 DEF Q
<1>6. K[0] = k /\ K[attrs + 2] = m /\ \A n \in 1 .. attrs + 2 : K[n] = m
  OBVIOUS
<1> HIDE DEF K
<1>7. \A n \in 1 .. Len(joins) : Carries(K[n - 1], joins[n], K[n])
  <2> HIDE DEF joins
  <2> SUFFICES ASSUME NEW n \in 1 .. attrs + 2 PROVE Carries(K[n - 1], joins[n], K[n])
    BY <1>5
  <2>1. n = 1 \/ n \in 2 .. attrs + 1 \/ n = attrs + 2
    OBVIOUS
  <2>2. CASE n = 1
    BY <1>1, <1>5, <1>6, <2>2
  <2>3. CASE n \in 2 .. attrs + 1
    <3>1. n - 1 \in 1 .. attrs + 2
      BY <2>3
    <3> QED BY <1>2, <1>5, <1>6, <2>3, <3>1
  <2>4. CASE n = attrs + 2
    <3>1. n - 1 \in 1 .. attrs + 2
      BY <2>4
    <3> QED BY <1>3, <1>5, <1>6, <2>4, <3>1
  <2> QED BY <2>1, <2>2, <2>3, <2>4
<1>8. CarriesAll(k, joins, m)
  <2> HIDE DEF joins
  <2> QED BY <1>5, <1>6, <1>7 DEF CarriesAll
<1>9. Pages!OpenJoins(tag, attrs) = joins
  BY DEF Pages!OpenJoins, first, attr, last
<1> QED BY <1>5, <1>8, <1>9, Zenon DEF P, S, m

--------------------------------------------------------------------------------
(* What str_join writes in the body of a page stands behind what was written. *)
LEMMA WriteKeeps ==
  ASSUME PageInv, pageAt = "body",
         NEW joins \in Seq(Seq(Seq(PageLetters))), NEW m,
         CarriesAll(OpenAt(written), joins, m), Pages!WriteAll(joins)
  PROVE  /\ arena' \in PageArenas
         /\ memory' \in [0 .. Cap - Header -> PageLetters]
         /\ written' \in Seq(PageLetters)
         /\ pageAt' \in {"body", "crashed"}
         /\ pageAt' = "body" =>
              /\ arena'.depth = 2
              /\ arena'.pos - Header = Len(written')
              /\ \A i \in 1 .. Len(written') : memory'[i - 1] = written'[i]
              /\ OpenAt(written') = m
<1> DEFINE s == Pages!Joined(joins)[Len(joins)]
           k == OpenAt(written)
<1>1. Pages!Store \in PageHolds(2, k)
  <2>1. /\ arena \in PageArenas /\ arena.depth = 2
        /\ memory \in [0 .. Cap - Header -> PageLetters]
        /\ written \in Seq(PageLetters)
        /\ arena.pos - Header = Len(written)
        /\ \A i \in 1 .. Len(written) : memory[i - 1] = written[i]
    BY DEF PageInv
  <2> DEFINE x == Pages!Store
  <2>2. x.arena = arena /\ x.memory = memory /\ x.written = written /\ x.ok = TRUE
        /\ x = [arena |-> x.arena, memory |-> x.memory, written |-> x.written, ok |-> x.ok]
    BY DEF Pages!Store
  <2> HIDE DEF x
  <2>3. x \in PageStores
    BY <2>1, <2>2 DEF PageStores
  <2>4. InArena(x) /\ OpenAt(x.written) = k
    BY <2>1, <2>2 DEF InArena
  <2> HIDE DEF k
  <2>5. x \in PageHolds(2, k)
    BY <2>1, <2>2, <2>3, <2>4 DEF PageHolds
  <2> QED BY <2>5 DEF x
<1>2. s \in PageHolds(2, m)
  <2>1. 2 \in Nat \ {0}
    OBVIOUS
  <2> QED BY <1>1, <2>1, JoinedHolds
<1>3. /\ arena' = s.arena /\ memory' = s.memory /\ written' = s.written
      /\ pageAt' = IF s.ok THEN pageAt ELSE "crashed"
  BY DEF Pages!WriteAll
<1> HIDE DEF s, k
<1>4. s \in PageStores /\ s.arena.depth = 2 /\ (s.ok => InArena(s) /\ OpenAt(s.written) = m)
  BY <1>2 DEF PageHolds
<1>5. s.arena \in PageArenas /\ s.memory \in [0 .. Cap - Header -> PageLetters]
      /\ s.written \in Seq(PageLetters) /\ s.ok \in BOOLEAN
  BY <1>4 DEF PageStores
<1>6. s.ok => /\ s.arena.pos - Header = Len(s.written)
              /\ \A i \in 1 .. Len(s.written) : s.memory[i - 1] = s.written[i]
  BY <1>4 DEF InArena
<1>7. pageAt' \in {"body", "crashed"} /\ (pageAt' = "body" => s.ok)
  BY <1>3, <1>5
<1> QED BY <1>3, <1>4, <1>5, <1>6, <1>7, Zenon

LEMMA PageInitial == Pages!Init => PageInv
<1> SUFFICES ASSUME Pages!Init PROVE PageInv
  OBVIOUS
<1>1. /\ pageAt = "start" /\ arena = Pages!Make(Align)
      /\ memory = [i \in 0 .. Cap - Header |-> Pages!Garbage]
      /\ builder = [depth |-> 0, startIdx |-> 0]
      /\ body = << >> /\ page = << >> /\ written = << >> /\ left = FALSE
  BY DEF Pages!Init
<1>2. Pages!Make(Align) \in PageArenas
  <2>1. Header \in Int /\ Header \in Header .. Cap
    BY PageAssumption
  <2>2. Pages!PageEnd(Header) \in Int
    BY <2>1, PageEndInt
  <2> QED BY <2>1, <2>2 DEF Pages!Make, PageArenas
<1>3. Pages!Garbage \in PageLetters
  BY DEF Pages!Garbage, Pages!Letter, PageLetters, Pages!Letters
<1>4. memory \in [0 .. Cap - Header -> PageLetters]
  BY <1>1, <1>3
<1>5. body \in Seq(Tags) /\ written \in Seq(PageLetters) /\ page \in Seq(PageLetters)
  BY <1>1
<1>6. builder \in [depth : Int, startIdx : Int] /\ left \in BOOLEAN
  <2>1. builder = [depth |-> 0, startIdx |-> 0] /\ left = FALSE
    BY <1>1
  <2>2. [depth |-> 0, startIdx |-> 0] \in [depth : Int, startIdx : Int]
    OBVIOUS
  <2> QED BY <2>1, <2>2, Zenon
<1>7. builder.depth >= Len(body) /\ (left <=> builder.depth # Len(body))
  BY <1>1
<1> QED BY <1>1, <1>2, <1>4, <1>5, <1>6, <1>7, Zenon DEF PageInv

LEMMA PageStarts == PageInv /\ Pages!Start => PageInv'
<1> SUFFICES ASSUME PageInv, Pages!Start PROVE PageInv'
  OBVIOUS
<1>1. /\ pageAt = "start" /\ pageAt' = "body"
      /\ builder' = [depth |-> 0, startIdx |-> Pages!Offset(arena)]
      /\ arena' = Pages!StartRecord(Pages!StartRecord(arena))
      /\ memory' = memory /\ body' = body /\ page' = page
      /\ written' = written /\ left' = left
  BY DEF Pages!Start
<1>2. /\ arena = Pages!Make(Align) /\ written = << >> /\ body = << >> /\ page = << >>
      /\ ~left /\ left \in BOOLEAN /\ arena \in PageArenas
      /\ memory \in [0 .. Cap - Header -> PageLetters]
      /\ body \in Seq(Tags) /\ written \in Seq(PageLetters) /\ page \in Seq(PageLetters)
  BY <1>1 DEF PageInv
<1>3. arena.pos = Header /\ arena.depth = 0 /\ Header \in Int
  BY <1>2, PageAssumption DEF Pages!Make
<1>4. builder'.depth = 0 /\ builder'.startIdx = 0 /\ builder' \in [depth : Int, startIdx : Int]
  BY <1>1, <1>3 DEF Pages!Offset
<1>5. arena' \in PageArenas /\ arena'.depth = 2 /\ arena'.pos = Header
  <2> DEFINE b == Pages!StartRecord(arena)
  <2>1. b \in PageArenas /\ b.depth = 1 /\ b.pos = Header
    BY <1>2, <1>3 DEF PageArenas, Pages!StartRecord
  <2>2. arena' = Pages!StartRecord(b)
    BY <1>1
  <2> HIDE DEF b
  <2> QED BY <2>1, <2>2 DEF PageArenas, Pages!StartRecord
<1>6. Len(written) = 0 /\ Len(body) = 0 /\ 1 .. 0 = {}
  BY <1>2
<1>7. OpenAt(written) = << >>
  BY <1>2, <1>6, NestingShape, Zenon DEF OpenAt
<1>8. builder'.depth >= Len(body') /\ (left' <=> builder'.depth # Len(body'))
  BY <1>1, <1>2, <1>4, <1>6
<1>9. arena'.pos - Header = Len(written') /\ \A i \in 1 .. Len(written') : memory'[i - 1] = written'[i]
  BY <1>1, <1>3, <1>5, <1>6
<1>10. OpenAt(written') = body'
  BY <1>1, <1>2, <1>7
<1>11. pageAt' # "start" /\ pageAt' # "done" /\ pageAt' \in {"start", "body", "done", "crashed"}
  BY <1>1
<1>12. /\ memory' \in [0 .. Cap - Header -> PageLetters]
       /\ body' \in Seq(Tags) /\ written' \in Seq(PageLetters) /\ page' \in Seq(PageLetters)
       /\ left' \in BOOLEAN /\ page' = << >>
  BY <1>1, <1>2
<1> QED BY <1>4, <1>5, <1>8, <1>9, <1>10, <1>11, <1>12, Zenon DEF PageInv

(* A tag that is opened.                                                     *)
LEMMA PageOpens ==
  ASSUME PageInv, NEW tag \in Tags, NEW attrs \in 0 .. MaxAttrs, Pages!OpenTag(tag, attrs)
  PROVE  PageInv'
<1> DEFINE k == OpenAt(written)
           joins == Pages!OpenJoins(tag, attrs)
<1>1. /\ pageAt = "body" /\ builder' = [builder EXCEPT !.depth = @ + 1]
      /\ Pages!WriteAll(joins) /\ body' = Append(body, tag)
      /\ page' = page /\ left' = left
  BY DEF Pages!OpenTag
<1>2. /\ builder \in [depth : Int, startIdx : Int] /\ left \in BOOLEAN
      /\ builder.depth >= Len(body) /\ page = << >> /\ (left <=> builder.depth # Len(body))
      /\ builder.startIdx = 0 /\ (~left => k = body)
      /\ body \in Seq(Tags) /\ written \in Seq(PageLetters) /\ page \in Seq(PageLetters)
  BY <1>1 DEF PageInv
<1>3. k \in Seq(PageTags) /\ attrs \in Nat
  <2>1. Len(written) \in 0 .. Len(written)
    BY <1>2
  <2>2. k \in Seq(PageTags)
    BY <1>2, <2>1, NestingShape, Zenon DEF OpenAt
  <2> QED BY <2>2, PageAssumption
<1>4. joins \in Seq(Seq(Seq(PageLetters))) /\ CarriesAll(k, joins, Append(k, tag))
  BY <1>3, OpeningJoins
<1> HIDE DEF joins
<1>5. /\ arena' \in PageArenas
      /\ memory' \in [0 .. Cap - Header -> PageLetters]
      /\ written' \in Seq(PageLetters)
      /\ pageAt' \in {"body", "crashed"}
      /\ pageAt' = "body" =>
           /\ arena'.depth = 2
           /\ arena'.pos - Header = Len(written')
           /\ \A i \in 1 .. Len(written') : memory'[i - 1] = written'[i]
           /\ OpenAt(written') = Append(k, tag)
  BY <1>1, <1>4, WriteKeeps, Zenon
<1> HIDE DEF k
<1>6. builder' \in [depth : Int, startIdx : Int] /\ builder'.depth = builder.depth + 1
      /\ builder'.startIdx = 0
  BY <1>1, <1>2
<1>7. body' \in Seq(Tags) /\ Len(body') = Len(body) + 1 /\ Len(body) \in Nat
  BY <1>1, <1>2
<1>8. builder'.depth >= Len(body') /\ (left' <=> builder'.depth # Len(body'))
  <2>1. builder.depth \in Int
    BY <1>2
  <2>2. builder'.depth >= Len(body') /\ (builder.depth # Len(body) <=> builder'.depth # Len(body'))
    BY <1>2, <1>6, <1>7, <2>1
  <2> QED BY <1>1, <1>2, <2>2, Zenon
<1>9. ~left' => Append(k, tag) = body'
  BY <1>1, <1>2
<1>10. page' = << >> /\ page' \in Seq(PageLetters) /\ left' \in BOOLEAN
  BY <1>1, <1>2
<1>11. /\ pageAt' # "start" /\ pageAt' # "done"
       /\ pageAt' \in {"start", "body", "done", "crashed"}
  BY <1>5
<1> QED BY <1>5, <1>6, <1>7, <1>8, <1>9, <1>10, <1>11, Zenon DEF PageInv

(* The tag of the innermost block that is closed.                             *)
LEMMA PageCloses == PageInv /\ Pages!CloseTag => PageInv'
<1> SUFFICES ASSUME PageInv, Pages!CloseTag PROVE PageInv'
  OBVIOUS
<1> DEFINE k == OpenAt(written)
           l == Pages!Letter("close", Pages!Top(body))
           joins == << << <<l>> >> >>
           m == Pages!Nest(k, l)
<1>1. /\ pageAt = "body" /\ body # << >> /\ builder' = [builder EXCEPT !.depth = @ - 1]
      /\ Pages!WriteAll(joins) /\ body' = Pages!Popped(body)
      /\ page' = page /\ left' = left
  BY DEF Pages!CloseTag
<1>2. /\ builder \in [depth : Int, startIdx : Int] /\ left \in BOOLEAN
      /\ builder.depth >= Len(body) /\ page = << >> /\ (left <=> builder.depth # Len(body))
      /\ builder.startIdx = 0 /\ (~left => k = body)
      /\ body \in Seq(Tags) /\ written \in Seq(PageLetters) /\ page \in Seq(PageLetters)
  BY <1>1 DEF PageInv
<1>3. /\ Pages!Top(body) \in Tags
      /\ body' \in Seq(Tags) /\ Len(body') = Len(body) - 1 /\ Len(body) \in Nat
  <2> DEFINE S == Tags
  <2> HIDE DEF S
  <2>1. body \in Seq(S) /\ body # << >>
    BY <1>1, <1>2 DEF S
  <2>2. body[Len(body)] \in S /\ SubSeq(body, 1, Len(body) - 1) \in Seq(S)
        /\ Len(SubSeq(body, 1, Len(body) - 1)) = Len(body) - 1 /\ Len(body) \in Nat
    <3>1. Len(body) \in Nat \ {0} /\ body[Len(body)] \in S
      BY <2>1
    <3> DEFINE n == Len(body) - 1
    <3>2. n \in Nat /\ n <= Len(body)
      BY <3>1
    <3> HIDE DEF n
    <3>3. \A i \in 1 .. n : body[i] \in S
      BY <2>1, <3>1, <3>2
    <3>4. SubSeq(body, 1, n) \in Seq(S) /\ Len(SubSeq(body, 1, n)) = n
      BY <2>1, <3>2, <3>3
    <3> QED BY <3>1, <3>4 DEF n
  <2> QED BY <1>1, <2>2, Zenon DEF Pages!Top, Pages!Popped, S
<1>4. l \in PageLetters
  BY <1>3, LettersAre, Zenon
<1>5. ~left => m = body'
  <2> SUFFICES ASSUME ~left PROVE m = body'
    OBVIOUS
  <2>1. l.part = "close" /\ l.tag = Pages!Top(body) /\ k = body /\ body # << >>
    BY <1>1, <1>2 DEF Pages!Letter
  <2>2. "close" # "open"
    OBVIOUS
  <2> HIDE DEF k, l
  <2>3. Pages!Nest(k, l) = Pages!Popped(body)
    BY <2>1, <2>2, Zenon DEF Pages!Nest
  <2> QED BY <1>1, <2>3
<1>6. joins \in Seq(Seq(Seq(PageLetters))) /\ CarriesAll(k, joins, m)
  <2> HIDE DEF k, l
  <2>1. Carries(k, << <<l>> >>, m)
    BY <1>4, CarriesOne
  <2>2. joins \in Seq(Seq(Seq(PageLetters)))
    <3> DEFINE S == PageLetters
    <3>1. l \in S
      BY <1>4
    <3> HIDE DEF S
    <3>2. joins \in Seq(Seq(Seq(S)))
      BY <3>1
    <3> QED BY <3>2 DEF S
  <2> QED BY <2>1, <2>2, CarriesAllOne, Zenon
<1> HIDE DEF joins, m
<1>7. /\ arena' \in PageArenas
      /\ memory' \in [0 .. Cap - Header -> PageLetters]
      /\ written' \in Seq(PageLetters)
      /\ pageAt' \in {"body", "crashed"}
      /\ pageAt' = "body" =>
           /\ arena'.depth = 2
           /\ arena'.pos - Header = Len(written')
           /\ \A i \in 1 .. Len(written') : memory'[i - 1] = written'[i]
           /\ OpenAt(written') = m
  BY <1>1, <1>6, WriteKeeps, Zenon
<1> HIDE DEF k, l
<1>8. builder' \in [depth : Int, startIdx : Int] /\ builder'.depth = builder.depth - 1
      /\ builder'.startIdx = 0
  BY <1>1, <1>2
<1>9. builder'.depth >= Len(body') /\ (left' <=> builder'.depth # Len(body'))
  <2>1. builder.depth \in Int
    BY <1>2
  <2>2. builder'.depth >= Len(body') /\ (builder.depth # Len(body) <=> builder'.depth # Len(body'))
    BY <1>2, <1>3, <1>8, <2>1
  <2> QED BY <1>1, <1>2, <2>2, Zenon
<1>10. ~left' => m = body'
  BY <1>1, <1>5, Zenon
<1>11. page' = << >> /\ page' \in Seq(PageLetters) /\ left' \in BOOLEAN
  BY <1>1, <1>2
<1>12. /\ pageAt' # "start" /\ pageAt' # "done"
       /\ pageAt' \in {"start", "body", "done", "crashed"}
  BY <1>7
<1> QED BY <1>3, <1>7, <1>8, <1>9, <1>10, <1>11, <1>12, Zenon DEF PageInv

(* A block of C that is left early, its tag stays open.                       *)
LEMMA PageLeaves == PageInv /\ Pages!LeaveBlock => PageInv'
<1> SUFFICES ASSUME PageInv, Pages!LeaveBlock PROVE PageInv'
  OBVIOUS
<1>1. /\ pageAt = "body" /\ body # << >> /\ body' = Pages!Popped(body) /\ left' = TRUE
      /\ pageAt' = pageAt /\ arena' = arena /\ memory' = memory /\ builder' = builder
      /\ page' = page /\ written' = written
  BY DEF Pages!LeaveBlock
<1>2. /\ builder \in [depth : Int, startIdx : Int] /\ builder.depth >= Len(body)
      /\ arena \in PageArenas /\ memory \in [0 .. Cap - Header -> PageLetters]
      /\ body \in Seq(Tags) /\ written \in Seq(PageLetters) /\ page \in Seq(PageLetters)
      /\ page = << >> /\ arena.depth = 2 /\ builder.startIdx = 0
      /\ arena.pos - Header = Len(written)
      /\ \A i \in 1 .. Len(written) : memory[i - 1] = written[i]
  BY <1>1 DEF PageInv
<1>3. body' \in Seq(Tags) /\ Len(body') = Len(body) - 1 /\ Len(body) \in Nat
  <2> DEFINE S == Tags
             n == Len(body) - 1
  <2> HIDE DEF S
  <2>1. body \in Seq(S) /\ Len(body) \in Nat \ {0}
    BY <1>1, <1>2 DEF S
  <2>2. n \in Nat /\ n <= Len(body)
    BY <2>1
  <2> HIDE DEF n
  <2>3. SubSeq(body, 1, n) \in Seq(S) /\ Len(SubSeq(body, 1, n)) = n
    <3>1. \A i \in 1 .. n : body[i] \in S
      BY <2>1, <2>2
    <3> QED BY <2>1, <2>2, <3>1
  <2> QED BY <1>1, <2>1, <2>3, Zenon DEF Pages!Popped, S, n
<1>4. builder'.depth >= Len(body') /\ builder'.depth # Len(body')
  <2>1. builder.depth \in Int
    BY <1>2
  <2> QED BY <1>1, <1>2, <1>3, <2>1
<1>5. left' \in BOOLEAN /\ (left' <=> builder'.depth # Len(body')) /\ left'
  BY <1>1, <1>4
<1>6. pageAt' = "body" /\ "body" # "start" /\ "body" # "done"
  BY <1>1
<1>7. /\ arena' \in PageArenas /\ memory' \in [0 .. Cap - Header -> PageLetters]
      /\ written' \in Seq(PageLetters) /\ page' \in Seq(PageLetters)
      /\ builder' \in [depth : Int, startIdx : Int] /\ page' = << >>
      /\ arena'.depth = 2 /\ builder'.startIdx = 0
      /\ arena'.pos - Header = Len(written')
      /\ \A i \in 1 .. Len(written') : memory'[i - 1] = written'[i]
  BY <1>1, <1>2, Zenon
<1>8. pageAt' \in {"start", "body", "done", "crashed"}
  BY <1>6
<1> QED BY <1>3, <1>4, <1>5, <1>6, <1>7, <1>8, Zenon DEF PageInv

(* A text between the tags.                                                  *)
LEMMA PageTexts == PageInv /\ Pages!Text => PageInv'
<1> SUFFICES ASSUME PageInv, Pages!Text PROVE PageInv'
  OBVIOUS
<1> DEFINE k == OpenAt(written)
           l == Pages!Letter("text", "none")
           joins == << << <<l>> >> >>
<1>1. /\ pageAt = "body" /\ Pages!WriteAll(joins)
      /\ builder' = builder /\ body' = body /\ page' = page /\ left' = left
  BY DEF Pages!Text
<1>2. /\ builder \in [depth : Int, startIdx : Int] /\ left \in BOOLEAN
      /\ builder.depth >= Len(body) /\ page = << >> /\ (left <=> builder.depth # Len(body))
      /\ builder.startIdx = 0 /\ (~left => k = body)
      /\ body \in Seq(Tags) /\ page \in Seq(PageLetters)
  BY <1>1 DEF PageInv
<1>3. l \in PageLetters /\ l.part = "text"
  BY DEF PageLetters, Pages!Letters, Pages!Letter
<1> HIDE DEF l
<1>4. joins \in Seq(Seq(Seq(PageLetters)))
  <2> DEFINE S == PageLetters
  <2>1. l \in S
    BY <1>3
  <2> HIDE DEF S
  <2>2. joins \in Seq(Seq(Seq(S)))
    BY <2>1
  <2> QED BY <2>2 DEF S
<1>5. CarriesAll(k, joins, k)
  <2> HIDE DEF k
  <2>1. Pages!Nest(k, l) = k
    BY <1>3 DEF Pages!Nest
  <2>2. Carries(k, << <<l>> >>, k)
    BY <1>3, <2>1, CarriesOne
  <2> QED BY <2>2, CarriesAllOne, Zenon
<1> HIDE DEF joins
<1>6. /\ arena' \in PageArenas
      /\ memory' \in [0 .. Cap - Header -> PageLetters]
      /\ written' \in Seq(PageLetters)
      /\ pageAt' \in {"body", "crashed"}
      /\ pageAt' = "body" =>
           /\ arena'.depth = 2
           /\ arena'.pos - Header = Len(written')
           /\ \A i \in 1 .. Len(written') : memory'[i - 1] = written'[i]
           /\ OpenAt(written') = k
  BY <1>1, <1>4, <1>5, WriteKeeps, Zenon
<1> HIDE DEF k
<1>7. /\ builder' \in [depth : Int, startIdx : Int] /\ left' \in BOOLEAN
      /\ builder'.depth >= Len(body') /\ page' = << >> /\ (left' <=> builder'.depth # Len(body'))
      /\ builder'.startIdx = 0 /\ (~left' => k = body')
      /\ body' \in Seq(Tags) /\ page' \in Seq(PageLetters)
  BY <1>1, <1>2, Zenon
<1>8. /\ pageAt' # "start" /\ pageAt' # "done"
      /\ pageAt' \in {"start", "body", "done", "crashed"}
  BY <1>6
<1> QED BY <1>6, <1>7, <1>8, Zenon DEF PageInv

(* The end of a page: its size counts from one letter before its start.       *)
LEMMA PageEnds == PageInv /\ Pages!Finish => PageInv'
<1> SUFFICES ASSUME PageInv, Pages!Finish PROVE PageInv'
  OBVIOUS
<1> DEFINE size == Pages!Offset(arena') - (builder.startIdx - 1)
<1>1. /\ pageAt = "body" /\ body = << >>
      /\ arena' = Pages!StopRecord(arena)
      /\ page' = IF builder.depth # 0 THEN << >>
                 ELSE [i \in 1 .. size |-> memory[builder.startIdx + i - 1]]
      /\ builder' = [depth |-> -1, startIdx |-> -1] /\ pageAt' = "done"
      /\ memory' = memory /\ body' = body /\ written' = written /\ left' = left
  BY DEF Pages!Finish
<1>2. /\ builder \in [depth : Int, startIdx : Int] /\ left \in BOOLEAN
      /\ (left <=> builder.depth # Len(body)) /\ builder.startIdx = 0
      /\ arena \in PageArenas /\ memory \in [0 .. Cap - Header -> PageLetters]
      /\ body \in Seq(Tags) /\ written \in Seq(PageLetters)
      /\ arena.depth = 2 /\ arena.pos - Header = Len(written)
      /\ \A i \in 1 .. Len(written) : memory[i - 1] = written[i]
      /\ ~left => OpenAt(written) = body
  BY <1>1 DEF PageInv
<1>3. arena' \in PageArenas /\ arena'.pos = arena.pos
  <2>1. arena' = [arena EXCEPT !.depth = 1, !.pos = arena.pos]
    <3>1. arena.depth # 1 /\ arena.depth - 1 = 1
      BY <1>2
    <3> QED BY <1>1, <3>1 DEF Pages!StopRecord
  <2>2. arena' = [pos |-> arena.pos, commit |-> arena.commit, depth |-> 1, align |-> arena.align]
    BY <1>2, <2>1 DEF PageArenas
  <2> QED BY <1>2, <2>2 DEF PageArenas
<1> DEFINE n == Len(written)
<1>4. size = n + 1 /\ n \in Nat /\ n \in 0 .. Cap - Header
  <2>1. arena.pos \in Header .. Cap /\ Header \in Nat /\ Cap \in Nat /\ n \in Nat
    <3>1. arena.pos \in Header .. Cap
      BY <1>2 DEF PageArenas
    <3>2. n \in Nat
      BY <1>2
    <3> QED BY <3>1, <3>2, PageAssumption
  <2>2. builder.startIdx = 0 /\ arena.pos - Header = n /\ arena'.pos = arena.pos
    BY <1>2, <1>3
  <2> HIDE DEF n
  <2> QED BY <2>1, <2>2 DEF Pages!Offset
<1>5. left <=> builder.depth # 0
  BY <1>1, <1>2
<1> DEFINE whole == [i \in 1 .. n + 1 |-> memory[i - 1]]
<1>6. ~left => page' = whole
  <2> SUFFICES ASSUME ~left PROVE page' = whole
    OBVIOUS
  <2>1. page' = [i \in 1 .. size |-> memory[builder.startIdx + i - 1]]
    BY <1>1, <1>5
  <2>2. \A i \in 1 .. n + 1 : builder.startIdx + i - 1 = i - 1
    BY <1>2, <1>4
  <2> HIDE DEF size
  <2> QED BY <1>4, <2>1, <2>2
<1>7. left => page' = << >>
  BY <1>1, <1>5
<1> HIDE DEF size
<1>8. /\ whole \in Seq(PageLetters) /\ Len(whole) = n + 1 /\ whole # << >>
      /\ \A i \in 1 .. n : whole[i] = written[i]
  <2> DEFINE S == PageLetters
  <2> HIDE DEF S, n
  <2>1. \A i \in 1 .. n + 1 : i - 1 \in 0 .. Cap - Header
    BY <1>4, PageAssumption
  <2>2. memory \in [0 .. Cap - Header -> S]
    BY <1>2 DEF S
  <2>3. whole \in Seq(S) /\ Len(whole) = n + 1
    BY <1>4, <2>1, <2>2
  <2>4. \A i \in 1 .. n : memory[i - 1] = written[i]
    BY <1>2 DEF n
  <2>5. \A i \in 1 .. n : whole[i] = written[i]
    BY <1>4, <2>4
  <2>6. whole # << >>
    BY <1>4, <2>3
  <2> QED BY <2>3, <2>5, <2>6 DEF S
<1> HIDE DEF whole
<1>9. page' \in Seq(PageLetters) /\ (page' = << >>) = left'
  <2>1. << >> \in Seq(PageLetters)
    OBVIOUS
  <2>2. CASE left
    <3>1. page' = << >> /\ left'
      BY <1>1, <1>7, <2>2
    <3>2. left' \in BOOLEAN
      BY <1>1, <1>2
    <3> QED BY <2>1, <3>1, <3>2
  <2>3. CASE ~left
    <3>1. page' = whole /\ page' # << >> /\ ~left'
      BY <1>1, <1>6, <1>8, <2>3
    <3>2. left' \in BOOLEAN
      BY <1>1, <1>2
    <3> QED BY <1>8, <3>1, <3>2
  <2> QED BY <2>2, <2>3
<1>10. ~left' => /\ OpenAt(written') = << >>
                 /\ Len(page') = Len(written') + 1
                 /\ \A i \in 1 .. Len(written') : page'[i] = written'[i]
  BY <1>1, <1>2, <1>6, <1>8 DEF n
<1>11. builder' \in [depth : Int, startIdx : Int] /\ builder'.depth = -1
  BY <1>1
<1>12. pageAt' = "done" /\ "done" \notin {"start", "body", "crashed"}
       /\ pageAt' \in {"start", "body", "done", "crashed"}
  BY <1>1
<1>13. /\ memory' \in [0 .. Cap - Header -> PageLetters]
       /\ body' \in Seq(Tags) /\ written' \in Seq(PageLetters) /\ body' = << >>
       /\ left' \in BOOLEAN
  BY <1>1, <1>2
<1>14. "done" # "start" /\ "done" # "body"
  OBVIOUS
<1> QED BY <1>3, <1>9, <1>10, <1>11, <1>12, <1>13, <1>14, Zenon DEF PageInv

LEMMA PagesInductive == PagesInv /\ [LibraryNext]_libraryVars => PagesInv'
<1> SUFFICES ASSUME PagesInv, part' = "page", [LibraryNext]_libraryVars
             PROVE  PageInv'
  BY DEF PagesInv
<1>1. part = "page" /\ (Pages!Next \/ UNCHANGED pageVars)
  BY DEF LibraryNext, libraryVars
<1>2. PageInv
  BY <1>1 DEF PagesInv
<1>3. CASE Pages!Start
  BY <1>2, <1>3, PageStarts
<1>4. CASE \E tag \in Tags, attrs \in 0 .. MaxAttrs : Pages!OpenTag(tag, attrs)
  BY <1>2, <1>4, PageOpens, Zenon
<1>5. CASE Pages!CloseTag
  BY <1>2, <1>5, PageCloses
<1>6. CASE Pages!LeaveBlock
  BY <1>2, <1>6, PageLeaves
<1>7. CASE Pages!Text
  BY <1>2, <1>7, PageTexts
<1>8. CASE Pages!Finish
  BY <1>2, <1>8, PageEnds
<1>9. CASE UNCHANGED pageVars
  <2>1. /\ pageAt' = pageAt /\ arena' = arena /\ memory' = memory /\ builder' = builder
        /\ body' = body /\ page' = page /\ written' = written /\ left' = left
    BY <1>9 DEF pageVars
  <2> QED BY <1>2, <2>1, Zenon DEF PageInv
<1> QED BY <1>1, <1>3, <1>4, <1>5, <1>6, <1>7, <1>8, <1>9, Zenon DEF Pages!Next

(* The invariant gives what is claimed of a page.                             *)
LEMMA PageIsNested == PageInv => Pages!TypeOK /\ Pages!PageIsWhole /\ Pages!EmptyIfLeft
<1> SUFFICES ASSUME PageInv PROVE Pages!TypeOK /\ Pages!PageIsWhole /\ Pages!EmptyIfLeft
  OBVIOUS
<1>1. Pages!TypeOK
  <2>1. arena.pos \in Header .. Cap
    BY DEF PageInv, PageArenas
  <2>2. builder.depth >= IF pageAt = "done" THEN -1 ELSE Len(body)
    <3>1. CASE pageAt = "done"
      BY <3>1 DEF PageInv
    <3>2. CASE pageAt # "done"
      BY <3>2 DEF PageInv
    <3> QED BY <3>1, <3>2
  <2>3. /\ pageAt \in {"start", "body", "done", "crashed"}
        /\ memory \in [0 .. Cap - Header -> Pages!Letters]
        /\ body \in Seq(Tags) /\ page \in Seq(Pages!Letters) /\ written \in Seq(Pages!Letters)
        /\ left \in BOOLEAN
    BY DEF PageInv, PageLetters
  <2> QED BY <2>1, <2>2, <2>3, Zenon DEF Pages!TypeOK
<1>2. ASSUME page # << >>
      PROVE  /\ OpenAt(written) = << >>
             /\ Len(page) = Len(written) + 1
             /\ \A i \in 1 .. Len(written) : page[i] = written[i]
  <2>1. pageAt = "done"
    BY <1>2, Zenon DEF PageInv
  <2>2. ~left
    BY <1>2, <2>1 DEF PageInv
  <2> QED BY <2>1, <2>2, Zenon DEF PageInv
<1>3. Pages!PageIsWhole
  <2> SUFFICES ASSUME page # << >>
               PROVE  /\ Pages!WellNested(written)
                      /\ Len(written) <= Len(page)
                      /\ \A i \in DOMAIN written : page[i] = written[i]
    BY Zenon DEF Pages!PageIsWhole
  <2>1. DOMAIN written = 1 .. Len(written) /\ Len(written) \in Nat
    BY DEF PageInv
  <2>2. Pages!WellNested(written)
    BY <1>2, Zenon DEF Pages!WellNested, OpenAt
  <2>3. Len(written) <= Len(page)
    BY <1>2, <2>1
  <2> QED BY <1>2, <2>1, <2>2, <2>3
<1>4. Pages!EmptyIfLeft
  BY DEF PageInv, Pages!EmptyIfLeft
<1> QED BY <1>1, <1>3, <1>4

LEMMA PagesInitial == LibraryInit => PagesInv
BY PageInitial, Zenon DEF LibraryInit, PagesInv

(* html_builderEnd hands out a page that begins with everything that was      *)
(* written, in order and without gaps, and whose tags are properly nested,    *)
(* although the builder only counts them; it hands out nothing exactly if a   *)
(* block was left early.                                                     *)
THEOREM PageSound == LibrarySpec => []PageIsWhole
<1>1. PagesInv => PageIsWhole
  BY PageIsNested, Zenon DEF PagesInv, PageIsWhole
<1> QED BY <1>1, PagesInitial, PagesInductive, PTL DEF LibrarySpec, libraryVars

(* A page that is handed out has one letter more than what was written.       *)
PageIsLonger == part = "page" /\ page # << >> => Len(page) = Len(written) + 1

(* html_builderEnd counts the size of a page from startIdx - 1: whatever is   *)
(* written, the page it hands out has one letter more, so Content-length is   *)
(* never the size of what was written.                                       *)
THEOREM PageLonger == LibrarySpec => []PageIsLonger
<1>1. PagesInv => PageIsLonger
  <2> SUFFICES ASSUME PageInv, page # << >> PROVE Len(page) = Len(written) + 1
    BY DEF PagesInv, PageIsLonger
  <2>1. pageAt = "done"
    BY Zenon DEF PageInv
  <2>2. ~left
    BY <2>1 DEF PageInv
  <2> QED BY <2>1, <2>2, Zenon DEF PageInv
<1> QED BY <1>1, PagesInitial, PagesInductive, PTL DEF LibrarySpec, libraryVars
================================================================================
