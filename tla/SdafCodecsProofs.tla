-------------------------- MODULE SdafCodecsProofs --------------------------
(***************************************************************************)
(* Sample times are exact for every width of the machine word, and what    *)
(* holds of sample times holds of the times in a decoded record.  The two  *)
(* libraries put the fields of a block in the same order, and their        *)
(* readers deliver the same samples.  The transforms are undone, and how a *)
(* record was stored is not seen in its samples.                           *)
(***************************************************************************)
EXTENDS SdafCodecs, FiniteSetTheorems, SequenceTheorems, FunctionTheorems,
  WellFoundedInduction, TLAPS


(* Division with remainder.                                                *)

\* A natural number is its quotient and its remainder.
LEMMA DivisionDef ==
  ASSUME NEW a \in Nat, NEW d \in Nat \ {0}
  PROVE  /\ a \div d \in Nat /\ a % d \in 0 .. d - 1
         /\ a = d * (a \div d) + (a % d)
  BY SMT

\* Products grow with their factors.
LEMMA ProductGrows ==
  ASSUME NEW d \in Nat, NEW x \in Int, NEW y \in Int, x <= y
  PROVE  d * x <= d * y
  BY SMT

\* Only the quotient and the remainder are such numbers.
LEMMA QuotientUnique ==
  ASSUME NEW a \in Nat, NEW d \in Nat \ {0}, NEW q \in Int, NEW r \in 0 .. d - 1,
         a = d * q + r
  PROVE  a \div d = q /\ a % d = r
<1>1. a = d * (a \div d) + (a % d) /\ a \div d \in Nat /\ a % d \in 0 .. d - 1
  BY DivisionDef
<1> DEFINE p == a \div d
<1>2. d * (p - q) = r - (a % d)
  BY <1>1
<1>3. ~(p >= q + 1)
  <2>1. SUFFICES ASSUME p - q >= 1 PROVE FALSE
    BY <1>1
  <2>2. d * (p - q) >= d
    BY <2>1, <1>1
  <2>3. QED BY <2>2, <1>1, <1>2
<1>4. ~(p <= q - 1)
  <2>1. SUFFICES ASSUME p - q <= -1 PROVE FALSE
    BY <1>1
  <2>2. d * (p - q) <= -d
    BY <2>1, <1>1
  <2>3. QED BY <2>2, <1>1, <1>2
<1>5. p = q BY <1>1, <1>3, <1>4
<1>6. QED BY <1>1, <1>5

\* A multiple of d below n numbers smaller than d is at most n times d.
LEMMA SumFits ==
  ASSUME NEW d \in Nat \ {0}, NEW rest \in 0 .. d - 1, NEW n \in Nat,
         NEW x \in Nat, NEW y \in Nat, x * d + y <= n * rest
  PROVE  x <= n
<1>1. SUFFICES ASSUME x >= n + 1 PROVE FALSE
  OBVIOUS
<1>2. d * (n + 1) <= d * x
  BY <1>1, ProductGrows
<1>3. n * rest <= n * d
  BY ProductGrows
<1>4. d * (n + 1) = n * d + d
  OBVIOUS
<1>5. d * x = x * d
  OBVIOUS
<1>6. x * d \in Int /\ n * d \in Int /\ n * rest \in Int
  OBVIOUS
<1>7. QED BY <1>2, <1>3, <1>4, <1>5, <1>6

\* Multiplying quotient and remainder apart loses nothing.
LEMMA PeriodExact ==
  \A n \in Nat, num \in Nat, d \in Nat \ {0}, q \in Nat :
    \A r \in 0 .. d - 1 :
      q * d + r = n * (num % d) => (n * num) \div d = n * (num \div d) + q
<1> TAKE n \in Nat, num \in Nat, d \in Nat \ {0}, q \in Nat
<1> TAKE r \in 0 .. d - 1
<1> HAVE q * d + r = n * (num % d)
<1> DEFINE w == num \div d
           m == num % d
<1>1. num = d * w + m /\ w \in Nat /\ m \in 0 .. d - 1
  BY DivisionDef
<1>2. n * num = n * (d * w) + n * m
  BY <1>1
<1>3. n * (d * w) = d * (n * w) /\ n * w \in Nat
  BY <1>1
<1>4. d * (n * w + q) = d * (n * w) + q * d
  BY <1>3
<1>5. n * num = d * (n * w + q) + r
  BY <1>2, <1>3, <1>4
<1>6. n * num \in Nat /\ n * w + q \in Int
  BY <1>3
<1>7. (n * num) \div d = n * w + q
  BY <1>5, <1>6, QuotientUnique
<1>8. QED BY <1>7

\* The whole units of a period alone are never more than the exact quotient.
LEMMA PeriodAtLeast ==
  ASSUME NEW n \in Nat, NEW num \in Nat, NEW d \in Nat \ {0}
  PROVE  (n * num) \div d \in Nat /\ (n * num) \div d >= n * (num \div d)
<1> DEFINE rest == n * (num % d)
<1>1. rest \in Nat /\ n * num \in Nat
  BY DivisionDef
<1>2. PICK q \in Nat, r \in 0 .. d - 1 : q * d + r = rest
  <2> HIDE DEF rest
  <2>1. /\ rest = d * (rest \div d) + (rest % d)
        /\ rest \div d \in Nat /\ rest % d \in 0 .. d - 1
    BY <1>1, DivisionDef
  <2>2. d * (rest \div d) = (rest \div d) * d
    BY <2>1
  <2>3. QED BY <2>1, <2>2
<1>3. (n * num) \div d = n * (num \div d) + q
  BY <1>2, PeriodExact, ZenonT(60)
<1>4. (n * num) \div d \in Nat
  BY <1>1, DivisionDef
<1>5. n * (num \div d) \in Nat
  BY DivisionDef
<1>6. QED BY <1>3, <1>4, <1>5
-----------------------------------------------------------------------------
(* The invariant.                                                          *)

Fractions ==
  [partQ : Nat, partR : Nat, resultQ : Nat, resultR : Nat, multiplier : Nat]

\* Types, and what BeginPeriodic has checked when the loop runs.
TimeTyped ==
  /\ header \in Headers
  /\ times \in Seq(Ints \cup {NoTime}) /\ Len(times) <= header.count
  /\ fraction \in Fractions
  /\ timing \in {"next", "multiplying", "refused"}
  /\ timing = "multiplying" =>
       /\ header.mode = "periodic" /\ Here < header.count
       /\ Quotient # 0 => Here <= MaxWord \div Quotient

TimeInv == TimeTyped /\ FractionIsKept /\ TimesAreExact

\* What a header promises.
LEMMA HeaderTypes ==
  ASSUME header \in Headers
  PROVE  /\ header.start \in Ints /\ header.numerator \in Nat
         /\ header.denominator \in Nat
         /\ header.count \in Nat /\ header.count <= MaxWord
         /\ header.mode = "periodic" => header.denominator # 0
         /\ header.mode \in {"delta", "explicit"} =>
              \A n \in 0 .. header.count - 1 : header.stamps[n + 1] \in Ints
<1>1. header \in TimeHeaders
  BY HeaderAssumption
<1>2. /\ header.start \in Ints /\ header.numerator \in Words
      /\ header.denominator \in Words /\ header.count \in Words
      /\ header.stamps \in Seq(Ints)
      /\ header.mode = "periodic" => header.denominator # 0
      /\ header.mode \in {"delta", "explicit"} => Len(header.stamps) = header.count
  BY <1>1 DEF TimeHeaders
<1>3. \A w \in Words : w \in Nat /\ w <= MaxWord
  BY WordAssumption DEF Words, MaxWord
<1>4. /\ header.start \in Ints /\ header.numerator \in Nat
      /\ header.denominator \in Nat
      /\ header.count \in Nat /\ header.count <= MaxWord
  BY <1>2, <1>3
<1>5. header.mode \in {"delta", "explicit"} =>
        \A n \in 0 .. header.count - 1 : header.stamps[n + 1] \in Ints
  <2> SUFFICES ASSUME header.mode \in {"delta", "explicit"},
                      NEW n \in 0 .. header.count - 1
               PROVE  header.stamps[n + 1] \in Ints
    OBVIOUS
  <2>1. n + 1 \in 1 .. Len(header.stamps)
    BY <1>2, <1>4
  <2>2. QED BY <1>2, <2>1
<1>6. QED BY <1>2, <1>4, <1>5

\* The quotient and the remainder of a period.
LEMMA PeriodParts ==
  ASSUME header \in Headers, header.mode = "periodic"
  PROVE  /\ header.denominator \in Nat \ {0} /\ header.numerator \in Nat
         /\ Quotient \in Nat /\ Remainder \in 0 .. header.denominator - 1
         /\ Remainder = header.numerator % header.denominator
  BY HeaderTypes, DivisionDef DEF Quotient, Remainder

\* Appending a true time keeps the times exact.
LEMMA DeliverExact ==
  ASSUME TimeInv, Here < header.count, header' = header,
         NEW t \in Ints \cup {NoTime}, Deliver(t),
         t = TrueTime(Here), header.mode # "none" => t \in Ints
  PROVE  /\ times' \in Seq(Ints \cup {NoTime}) /\ Len(times') <= header'.count
         /\ TimesAreExact'
<1>1. /\ times' = Append(times, t) /\ timing' = "next" /\ Len(times) \in Nat
      /\ Len(times') = Len(times) + 1 /\ times' \in Seq(Ints \cup {NoTime})
      /\ \A i \in 1 .. Len(times) : times'[i] = times[i]
      /\ times'[Len(times) + 1] = t
  BY DEF Deliver, TimeInv, TimeTyped
<1>2. Len(times') <= header'.count
  BY <1>1, HeaderTypes DEF TimeInv, TimeTyped, Here
<1>3. ASSUME NEW i \in 1 .. Len(times')
      PROVE  /\ times'[i] = TrueTime(i - 1)'
             /\ header'.mode # "none" => times'[i] \in Ints
  <2>1. TrueTime(i - 1)' = TrueTime(i - 1)
    BY DEF TrueTime
  <2>2. CASE i \in 1 .. Len(times)
    BY <2>1, <2>2, <1>1 DEF TimeInv, TimesAreExact
  <2>3. CASE i = Len(times) + 1
    BY <2>1, <2>3, <1>1 DEF Here
  <2>4. QED BY <2>2, <2>3, <1>1
<1>4. QED BY <1>1, <1>2, <1>3 DEF TimesAreExact, Ints, MinInt, MaxInt
\* A refused record keeps the times it has.
LEMMA RefusalExact ==
  ASSUME TimeInv, header' = header, RefuseTime, TrueTime(Here) \notin Ints
  PROVE  /\ times' \in Seq(Ints \cup {NoTime}) /\ Len(times') <= header'.count
         /\ TimesAreExact'
<1>1. times' = times
  BY DEF RefuseTime
<1>2. TrueTime(Here)' = TrueTime(Here)
      /\ \A i \in 1 .. Len(times) : TrueTime(i - 1)' = TrueTime(i - 1)
  BY <1>1 DEF TrueTime, Here
<1>3. TimesAreExact'
  BY <1>1, <1>2 DEF TimeInv, TimesAreExact
<1>4. QED BY <1>1, <1>3 DEF TimeInv, TimeTyped

\* A step that only moves the loop keeps the times exact.
LEMMA LoopExact ==
  ASSUME TimeInv, header' = header, times' = times, timing' # "refused"
  PROVE  /\ times' \in Seq(Ints \cup {NoTime}) /\ Len(times') <= header'.count
         /\ TimesAreExact'
<1>1. \A i \in 1 .. Len(times) : TrueTime(i - 1)' = TrueTime(i - 1)
  BY DEF TrueTime
<1>2. QED BY <1>1 DEF TimeInv, TimeTyped, TimesAreExact

\* Outside the loop only times and types are at stake.
LEMMA OutsideLoop ==
  ASSUME header' = header, header \in Headers, fraction' \in Fractions,
         times' \in Seq(Ints \cup {NoTime}), Len(times') <= header'.count,
         timing' \in {"next", "refused"}, TimesAreExact'
  PROVE  TimeInv'
BY DEF TimeInv, TimeTyped, FractionIsKept

\* Records without times, with stamps, and with deltas.
LEMMA WithoutTimeKeeps == TimeInv /\ WithoutTime => TimeInv'
<1> SUFFICES ASSUME TimeInv, WithoutTime PROVE TimeInv'
  OBVIOUS
<1>1. NoTime = TrueTime(Here) /\ Here < header.count /\ header' = header
      /\ Deliver(NoTime)
  BY DEF WithoutTime, TrueTime
<1>2. /\ times' \in Seq(Ints \cup {NoTime}) /\ Len(times') <= header'.count
      /\ TimesAreExact'
  BY <1>1, DeliverExact DEF WithoutTime
<1>3. QED
  BY <1>1, <1>2, OutsideLoop DEF WithoutTime, Deliver, TimeInv, TimeTyped

LEMMA StampedKeeps == TimeInv /\ Stamped => TimeInv'
<1> SUFFICES ASSUME TimeInv, Stamped PROVE TimeInv'
  OBVIOUS
<1> DEFINE t == header.stamps[Here + 1]
<1>1. header \in Headers /\ Here \in 0 .. header.count - 1 /\ header' = header
  BY HeaderTypes DEF TimeInv, TimeTyped, Here, Stamped
<1>2. t \in Ints /\ t = TrueTime(Here) /\ Deliver(t)
  BY <1>1, HeaderTypes DEF Stamped, TrueTime
<1>3. /\ times' \in Seq(Ints \cup {NoTime}) /\ Len(times') <= header'.count
      /\ TimesAreExact'
  BY <1>1, <1>2, DeliverExact DEF Stamped
<1>4. QED
  BY <1>1, <1>2, <1>3, OutsideLoop DEF Stamped, Deliver, TimeInv, TimeTyped

LEMMA FromDeltaKeeps == TimeInv /\ FromDelta => TimeInv'
<1> SUFFICES ASSUME TimeInv, FromDelta PROVE TimeInv'
  OBVIOUS
<1> DEFINE delta == header.stamps[Here + 1]
           t == header.start + delta
           beyond == \/ delta > 0 /\ header.start > MaxInt - delta
                     \/ delta < 0 /\ header.start < MinInt - delta
<1>1. /\ header \in Headers /\ Here \in 0 .. header.count - 1 /\ header' = header
      /\ header.mode = "delta" /\ fraction' = fraction
      /\ IF beyond THEN RefuseTime ELSE Deliver(t)
  BY HeaderTypes DEF TimeInv, TimeTyped, Here, FromDelta
<1>2. delta \in Ints /\ header.start \in Ints
  BY <1>1, HeaderTypes
<1>3. beyond <=> t \notin Ints
  BY <1>2, WordAssumption DEF Ints, MinInt, MaxInt
<1>4. t = TrueTime(Here)
  BY <1>1 DEF TrueTime
<1>5. /\ times' \in Seq(Ints \cup {NoTime}) /\ Len(times') <= header'.count
      /\ TimesAreExact'
  <2>1. CASE beyond
    BY <2>1, <1>1, <1>3, <1>4, RefusalExact
  <2>2. CASE ~beyond
    BY <2>2, <1>1, <1>3, <1>4, DeliverExact DEF FromDelta
  <2>3. QED BY <2>1, <2>2
<1>6. timing' \in {"next", "refused"}
  BY <1>1 DEF RefuseTime, Deliver
<1>7. QED
  BY <1>1, <1>5, <1>6, OutsideLoop DEF TimeInv, TimeTyped
-----------------------------------------------------------------------------
(* Periodic times.                                                         *)

\* The first test of sample_time: a product that cannot be represented
\* belongs to a time that cannot.
LEMMA BeginPeriodicKeeps == TimeInv /\ BeginPeriodic => TimeInv'
<1> SUFFICES ASSUME TimeInv, BeginPeriodic PROVE TimeInv'
  OBVIOUS
<1> DEFINE n == Here
           d == header.denominator
           num == header.numerator
           beyond == Quotient # 0 /\ n > MaxWord \div Quotient
<1>1. /\ header \in Headers /\ n \in Nat /\ n < header.count /\ header' = header
      /\ header.mode = "periodic"
      /\ header.start \in Ints /\ header.count <= MaxWord /\ header.count \in Nat
  BY HeaderTypes DEF TimeInv, TimeTyped, Here, BeginPeriodic
<1>2. /\ d \in Nat \ {0} /\ num \in Nat /\ Quotient \in Nat
      /\ Remainder \in 0 .. d - 1 /\ Remainder = num % d
  BY <1>1, PeriodParts
<1>3. CASE beyond
  <2>1. MaxWord \in Nat
    BY WordAssumption DEF MaxWord
  <2> DEFINE w == MaxWord \div Quotient
  <2>2. /\ w \in Nat /\ MaxWord % Quotient \in 0 .. Quotient - 1
        /\ MaxWord = Quotient * w + (MaxWord % Quotient)
    BY <2>1, <1>2, <1>3, DivisionDef
  <2>3. Quotient * (w + 1) <= Quotient * n
    BY <2>2, <1>1, <1>2, <1>3, ProductGrows
  <2>4. Quotient * (w + 1) = Quotient * w + Quotient
    BY <2>2, <1>2
  <2>5. Quotient * n > MaxWord
    <3> DEFINE a == Quotient * n
               b == Quotient * w
    <3>1. a \in Int /\ b \in Int
      BY <1>1, <1>2, <2>2
    <3>2. b + Quotient <= a /\ MaxWord = b + (MaxWord % Quotient)
      BY <2>2, <2>3, <2>4
    <3> HIDE DEF a, b
    <3>3. a > MaxWord
      BY <3>1, <3>2, <2>1, <2>2, <1>2
    <3>4. QED BY <3>3 DEF a
  <2>7. (n * num) \div d \in Nat /\ (n * num) \div d >= n * (num \div d)
    BY <1>1, <1>2, PeriodAtLeast
  <2>8. n * Quotient = Quotient * n /\ Quotient * n \in Int
    BY <1>1, <1>2
  <2>9. (n * num) \div d > MaxWord
    BY <2>1, <2>5, <2>7, <2>8 DEF Quotient
  <2>10. TrueTime(n) = header.start + (n * num) \div d
    BY <1>1 DEF TrueTime
  <2>12. TrueTime(Here) \notin Ints
    BY <2>7, <2>9, <2>10, <1>1, WordAssumption DEF Ints, MinInt, MaxInt, MaxWord
  <2>13. RefuseTime /\ fraction' = fraction
    BY <1>3 DEF BeginPeriodic
  <2>14. /\ times' \in Seq(Ints \cup {NoTime}) /\ Len(times') <= header'.count
         /\ TimesAreExact'
    BY <2>12, <2>13, <1>1, RefusalExact
  <2>15. QED
    BY <2>13, <2>14, <1>1, OutsideLoop DEF RefuseTime, TimeInv, TimeTyped
<1>4. CASE ~beyond
  <2>1. /\ timing' = "multiplying" /\ times' = times
        /\ fraction' = [NoFraction EXCEPT !.partR = Remainder, !.multiplier = n]
    BY <1>4 DEF BeginPeriodic
  <2>2. /\ times' \in Seq(Ints \cup {NoTime}) /\ Len(times') <= header'.count
        /\ TimesAreExact'
    BY <2>1, <1>1, LoopExact
  <2>3. /\ fraction'.partQ = 0 /\ fraction'.resultQ = 0 /\ fraction'.resultR = 0
        /\ fraction'.partR = Remainder /\ fraction'.multiplier = n
        /\ fraction' \in Fractions
    <3>1. fraction' = [partQ |-> 0, partR |-> Remainder, resultQ |-> 0,
                       resultR |-> 0, multiplier |-> n]
      BY <2>1 DEF NoFraction
    <3>2. QED BY <3>1, <1>1, <1>2 DEF Fractions
  <2>4. FractionIsKept'
    <3>1. 0 \in Words
      BY WordAssumption DEF Words, MaxWord
    <3>2. 0 * d + 0 + n * (0 * d + Remainder) = n * Remainder
      BY <1>1, <1>2
    <3>3. Remainder' = Remainder /\ Here' = n
      BY <1>1, <2>1 DEF Remainder, Here
    <3>4. QED
      BY <2>3, <3>1, <3>2, <3>3, <1>1, <1>2 DEF FractionIsKept
  <2>5. TimeTyped'
    <3>1. Here' = Here /\ Quotient' = Quotient
      BY <2>1, <1>1 DEF Here, Quotient
    <3>2. Quotient # 0 => Here <= MaxWord \div Quotient
      <4>1. Quotient # 0 => MaxWord \div Quotient \in Int
        BY <1>2, WordAssumption, DivisionDef DEF MaxWord
      <4>2. QED BY <4>1, <1>1, <1>4
    <3>3. QED
      BY <2>1, <2>2, <2>3, <1>1, <3>1, <3>2 DEF TimeTyped
  <2>6. QED BY <2>2, <2>4, <2>5 DEF TimeInv
<1>5. QED BY <1>3, <1>4

\* What an addition modulo d does to a number kept in two.
LEMMA AddedValue ==
  ASSUME NEW d \in Nat \ {0}, NEW q \in Nat, NEW r \in 0 .. d - 1,
         NEW pq \in Nat, NEW pr \in 0 .. d - 1, NEW c, NEW s,
         c = IF r >= d - pr THEN 1 ELSE 0,
         s = IF c = 1 THEN r - (d - pr) ELSE r + pr
  PROVE  /\ c \in {0, 1} /\ s \in 0 .. d - 1
         /\ (q + pq + c) * d + s = (q * d + r) + (pq * d + pr)
<1>1. c \in {0, 1} /\ s \in 0 .. d - 1 /\ c * d + s = r + pr
  <2>1. CASE r >= d - pr BY <2>1
  <2>2. CASE ~(r >= d - pr) BY <2>2
  <2>3. QED BY <2>1, <2>2
<1>2. (q + pq + c) * d = q * d + pq * d + c * d
  BY <1>1
<1>3. q * d \in Int /\ pq * d \in Int /\ c * d \in Int
  BY <1>1
<1>4. QED BY <1>1, <1>2, <1>3
\* What is left to multiply, and what has been added up.
Part(f) == f.partQ * header.denominator + f.partR
Result(f) == f.resultQ * header.denominator + f.resultR

\* A fraction with n * remainder in it.
Holds(f, n) ==
  /\ f \in Fractions
  /\ f.partR < header.denominator /\ f.resultR < header.denominator
  /\ {f.partQ, f.resultQ} \subseteq Words
  /\ Result(f) + f.multiplier * Part(f) = n * Remainder

\* "result += part" does not overflow while the part is still wanted.
LEMMA AddKeeps ==
  ASSUME header \in Headers, header.mode = "periodic",
         NEW n \in Nat, n <= MaxWord, NEW f, Holds(f, n), f.multiplier # 0
  PROVE  /\ ~AddOverflows(f)
         /\ AddPart(f) = [f EXCEPT !.resultQ = AddPart(f).resultQ,
                                   !.resultR = AddPart(f).resultR]
         /\ AddPart(f).resultQ \in Words
         /\ AddPart(f).resultR \in 0 .. header.denominator - 1
         /\ Result(AddPart(f)) = Result(f) + Part(f)
<1> DEFINE d == header.denominator
           c == Carry(f.resultR, f.partR)
           s == IF c = 1 THEN f.resultR - (d - f.partR) ELSE f.resultR + f.partR
<1>1. /\ d \in Nat \ {0} /\ Remainder \in 0 .. d - 1
      /\ f.partQ \in Nat /\ f.resultQ \in Nat /\ f.multiplier \in Nat
      /\ f.partR \in 0 .. d - 1 /\ f.resultR \in 0 .. d - 1
  BY PeriodParts DEF Holds, Fractions
<1>2. /\ c \in {0, 1} /\ s \in 0 .. d - 1
      /\ (f.resultQ + f.partQ + c) * d + s = Result(f) + Part(f)
  <2>1. c = IF f.resultR >= d - f.partR THEN 1 ELSE 0
    BY DEF Carry
  <2>2. QED BY <1>1, <2>1, AddedValue DEF Result, Part
<1>3. Result(f) \in Nat /\ Part(f) \in Nat
  BY <1>1 DEF Result, Part
<1>4. Result(f) + Part(f) <= n * Remainder
  <2> DEFINE m == f.multiplier
             v == Part(f)
  <2>1. m * v >= v
    <3> HIDE DEF m, v
    <3>1. m \in Nat /\ m # 0 /\ v \in Nat => m * v >= v
      <4>1. m \in Nat /\ m # 0 /\ v \in Nat => v * 1 <= v * m
        BY ProductGrows
      <4>2. QED BY <4>1
    <3>2. QED BY <3>1, <1>1, <1>3 DEF m, v
  <2>2. Result(f) + m * v = n * Remainder /\ m * v \in Nat
    BY <1>1, <1>3 DEF Holds
  <2>3. QED BY <2>1, <2>2, <1>3
<1>5. f.resultQ + f.partQ + c <= n
  <2> DEFINE x == f.resultQ + f.partQ + c
  <2>1. x \in Nat /\ x * d + s <= n * Remainder /\ s \in Nat
    BY <1>1, <1>2, <1>4
  <2> HIDE DEF x, s, d
  <2>2. x <= n
    BY <2>1, <1>1, SumFits
  <2>3. QED BY <2>2 DEF x
<1>6. MaxWord \in Nat
  BY WordAssumption DEF MaxWord
<1>7. ~AddOverflows(f)
  BY <1>1, <1>2, <1>5, <1>6 DEF AddOverflows
<1>8. /\ AddPart(f) = [f EXCEPT !.resultQ = f.resultQ + f.partQ + c, !.resultR = s]
      /\ AddPart(f).resultQ = f.resultQ + f.partQ + c /\ AddPart(f).resultR = s
  BY DEF AddPart, Holds, Fractions
<1>9. QED BY <1>1, <1>2, <1>5, <1>6, <1>7, <1>8 DEF Result, Words
\* "part *= 2" does not overflow while twice the part is still wanted.
LEMMA DoubleKeeps ==
  ASSUME header \in Headers, header.mode = "periodic",
         NEW n \in Nat, n <= MaxWord, NEW f, f \in Fractions,
         f.partR < header.denominator,
         2 * Part(f) <= n * Remainder
  PROVE  /\ ~DoubleOverflows(f)
         /\ DoublePart(f).partQ \in Words
         /\ DoublePart(f).partR \in 0 .. header.denominator - 1
         /\ DoublePart(f) = [f EXCEPT !.partQ = DoublePart(f).partQ,
                                      !.partR = DoublePart(f).partR]
         /\ Part(DoublePart(f)) = 2 * Part(f)
<1> DEFINE d == header.denominator
           c == Carry(f.partR, f.partR)
           s == IF c = 1 THEN f.partR - (d - f.partR) ELSE f.partR + f.partR
<1>1. /\ d \in Nat \ {0} /\ Remainder \in 0 .. d - 1
      /\ f.partQ \in Nat /\ f.partR \in 0 .. d - 1
  BY PeriodParts DEF Fractions
<1>2. /\ c \in {0, 1} /\ s \in 0 .. d - 1
      /\ (f.partQ + f.partQ + c) * d + s = Part(f) + Part(f)
  <2>1. c = IF f.partR >= d - f.partR THEN 1 ELSE 0
    BY DEF Carry
  <2>2. QED BY <1>1, <2>1, AddedValue DEF Part
<1>3. Part(f) \in Nat
  BY <1>1 DEF Part
<1>4. f.partQ + f.partQ + c <= n
  <2> DEFINE x == f.partQ + f.partQ + c
  <2>1. x \in Nat /\ x * d + s <= n * Remainder /\ s \in Nat
    BY <1>1, <1>2, <1>3
  <2> HIDE DEF x, s, d
  <2>2. x <= n
    BY <2>1, <1>1, SumFits
  <2>3. QED BY <2>2 DEF x
<1>5. MaxWord \in Nat
  BY WordAssumption DEF MaxWord
<1>6. ~DoubleOverflows(f)
  BY <1>1, <1>2, <1>4, <1>5 DEF DoubleOverflows
<1>7. /\ DoublePart(f) = [f EXCEPT !.partQ = 2 * f.partQ + c, !.partR = s]
      /\ DoublePart(f).partQ = 2 * f.partQ + c /\ DoublePart(f).partR = s
  <2>1. s = IF c = 1 THEN f.partR - (d - f.partR) ELSE 2 * f.partR
    BY <1>1
  <2>2. DoublePart(f) = [f EXCEPT !.partQ = 2 * f.partQ + c, !.partR = s]
    BY <2>1, Zenon DEF DoublePart
  <2> HIDE DEF c, s
  <2>3. QED BY <2>2 DEF Fractions
<1>8. 2 * f.partQ + c = f.partQ + f.partQ + c
  BY <1>1, <1>2
<1>9. QED BY <1>1, <1>2, <1>3, <1>4, <1>5, <1>6, <1>7, <1>8 DEF Part, Words

\* One turn of the loop never overflows and keeps n * remainder.
LEMMA TurnKeeps ==
  ASSUME header \in Headers, header.mode = "periodic",
         NEW n \in Nat, n <= MaxWord, NEW f, Holds(f, n), f.multiplier # 0
  PROVE  ~TurnOverflows(f) /\ Holds(Turn(f), n)
<1> DEFINE m == f.multiplier
           a == Added(f)
           g == [a EXCEPT !.multiplier = m \div 2]
           t == n * Remainder
<1>1. /\ header.denominator \in Nat \ {0} /\ Remainder \in Nat
      /\ f \in Fractions /\ m \in Nat \ {0} /\ MaxWord \in Nat
      /\ Part(f) \in Nat /\ Result(f) \in Nat /\ t \in Nat
  BY PeriodParts, WordAssumption DEF Holds, Fractions, MaxWord, Part, Result
<1>2. Result(f) + m * Part(f) = t
  BY DEF Holds
<1>3. m \div 2 \in Nat /\ m % 2 \in {0, 1} /\ m = 2 * (m \div 2) + (m % 2)
  <2> HIDE DEF m
  <2>1. QED BY <1>1
<1>4. m % 2 = 1 => ~AddOverflows(f)
  BY <1>1, AddKeeps
<1>5. /\ a \in Fractions /\ a.multiplier = m
      /\ a.partQ = f.partQ /\ a.partR = f.partR
      /\ a.resultQ \in Words /\ a.resultR < header.denominator
      /\ Result(a) = Result(f) + (m % 2) * Part(f)
  <2>1. CASE m % 2 = 1
    <3>1. a = AddPart(f)
      BY <2>1 DEF Added
    <3>2. /\ a = [f EXCEPT !.resultQ = a.resultQ, !.resultR = a.resultR]
          /\ a.resultQ \in Words /\ a.resultR \in 0 .. header.denominator - 1
          /\ Result(a) = Result(f) + Part(f)
      BY <3>1, AddKeeps
    <3>3. (m % 2) * Part(f) = Part(f)
      BY <2>1, <1>1
    <3> HIDE DEF a, m
    <3>4. a.resultQ \in Nat /\ a.resultR \in Nat
      BY <3>2, <1>1 DEF Words
    <3>5. a \in Fractions /\ a.multiplier = f.multiplier
          /\ a.partQ = f.partQ /\ a.partR = f.partR
      BY <3>2, <3>4, <1>1 DEF Fractions
    <3>6. QED BY <3>2, <3>3, <3>5, <1>1 DEF m
  <2>2. CASE m % 2 = 0
    <3>1. a = f
      BY <2>2 DEF Added
    <3>2. QED BY <2>2, <3>1, <1>1 DEF Holds
  <2>3. QED BY <2>1, <2>2, <1>3
<1>6. /\ g \in Fractions /\ g.multiplier = m \div 2
      /\ g.partQ = f.partQ /\ g.partR = f.partR
      /\ g.resultQ = a.resultQ /\ g.resultR = a.resultR
      /\ Part(g) = Part(f) /\ Result(g) = Result(a)
  BY <1>3, <1>5 DEF Fractions, Part, Result
<1>7. Turn(f) = IF m \div 2 # 0 THEN DoublePart(g) ELSE g
  <2>1. [a EXCEPT !.multiplier = a.multiplier \div 2] = g
    BY <1>5
  <2>2. Turn(f) = IF g.multiplier # 0 THEN DoublePart(g) ELSE g
    BY <2>1, Zenon DEF Turn
  <2>3. QED BY <2>2, <1>6
<1>8. Result(g) + (m \div 2) * (2 * Part(f)) = t
  <2> DEFINE v == Part(f)
             h == m \div 2
             o == m % 2
  <2>1. h \in Nat /\ o \in Nat /\ v \in Nat /\ m = 2 * h + o
    BY <1>1, <1>3
  <2>2. m * v = h * (2 * v) + o * v
    <3> HIDE DEF m, v, h, o
    <3>1. QED BY <2>1
  <2>3. h * (2 * v) \in Nat /\ o * v \in Nat
    BY <2>1
  <2>4. QED BY <2>2, <2>3, <1>1, <1>2, <1>5, <1>6
<1>9. CASE m \div 2 = 0
  <2>1. Turn(f) = g
    BY <1>7, <1>9
  <2>2. ~TurnOverflows(f)
    BY <1>4, <1>9 DEF TurnOverflows
  <2>3. Result(g) + g.multiplier * Part(g) = t
    BY <1>1, <1>6, <1>8, <1>9
  <2>4. QED BY <2>1, <2>2, <2>3, <1>5, <1>6 DEF Holds
<1>10. CASE m \div 2 # 0
  <2> DEFINE e == DoublePart(g)
  <2>1. 2 * Part(f) <= t
    <3> DEFINE h == m \div 2
               v == 2 * Part(f)
    <3>1. h \in Nat /\ h >= 1 /\ v \in Nat /\ Result(g) \in Nat
      <4>1. Result(g) \in Nat
        BY <1>1, <1>3, <1>5, <1>6
      <4>2. QED BY <4>1, <1>1, <1>3, <1>10
    <3>2. v * 1 <= v * h
      BY <3>1, ProductGrows
    <3>3. h * v = v * h /\ v * h \in Nat
      BY <3>1
    <3>4. QED BY <3>1, <3>2, <3>3, <1>8, <1>1
  <2>2. /\ ~DoubleOverflows(g) /\ ~DoubleOverflows(f)
        /\ e.partQ \in Words /\ e.partR \in 0 .. header.denominator - 1
        /\ e = [g EXCEPT !.partQ = e.partQ, !.partR = e.partR]
        /\ Part(e) = 2 * Part(f)
    <3>1. g.partR < header.denominator /\ 2 * Part(g) <= n * Remainder
      BY <2>1, <1>6 DEF Holds
    <3>2. DoubleOverflows(g) <=> DoubleOverflows(f)
      BY <1>6 DEF DoubleOverflows
    <3> HIDE DEF g
    <3>3. QED BY <3>1, <3>2, <1>6, DoubleKeeps
  <2>3. Turn(f) = e
    BY <1>7, <1>10
  <2>4. ~TurnOverflows(f)
    BY <2>2, <1>4 DEF TurnOverflows
  <2>5. /\ e \in Fractions /\ e.multiplier = m \div 2
        /\ e.resultQ = g.resultQ /\ e.resultR = g.resultR
    <3> HIDE DEF g, e, m
    <3>1. e.partQ \in Nat /\ e.partR \in Nat
      BY <2>2, <1>1 DEF Words
    <3>2. QED BY <3>1, <2>2, <1>6 DEF Fractions
  <2>6. Result(e) = Result(g)
    BY <2>5 DEF Result
  <2>7. Result(e) + e.multiplier * Part(e) = t
    BY <2>2, <2>5, <2>6, <1>8
  <2>8. e.partR < header.denominator
    BY <2>2, <1>1
  <2>9. QED BY <2>2, <2>3, <2>4, <2>5, <2>7, <2>8, <1>5, <1>6 DEF Holds
<1>11. QED BY <1>9, <1>10
\* The invariant says what the loop holds.
LEMMA LoopHolds ==
  ASSUME TimeInv, timing = "multiplying"
  PROVE  /\ Holds(fraction, Here) /\ header.mode = "periodic"
         /\ header \in Headers /\ Here \in Nat /\ Here <= MaxWord
         /\ Here < header.count
<1>1. Holds(fraction, Here)
  BY DEF TimeInv, TimeTyped, FractionIsKept, Holds, Result, Part
<1>2. /\ header \in Headers /\ header.mode = "periodic" /\ Here \in Nat
      /\ Here < header.count
  BY DEF TimeInv, TimeTyped, Here
<1>3. QED
  BY <1>1, <1>2, HeaderTypes, WordAssumption DEF MaxWord

LEMMA MultiplyFractionKeeps == TimeInv /\ MultiplyFraction => TimeInv'
<1> SUFFICES ASSUME TimeInv, MultiplyFraction PROVE TimeInv'
  OBVIOUS
<1>1. /\ timing = "multiplying" /\ header' = header /\ fraction.multiplier # 0
      /\ Holds(fraction, Here) /\ header.mode = "periodic" /\ header \in Headers
      /\ Here \in Nat /\ Here <= MaxWord /\ Here < header.count
  BY LoopHolds DEF MultiplyFraction
<1>2. ~TurnOverflows(fraction) /\ Holds(Turn(fraction), Here)
  BY <1>1, TurnKeeps
<1>3. fraction' = Turn(fraction) /\ times' = times /\ timing' = timing
  BY <1>2 DEF MultiplyFraction
<1>4. /\ times' \in Seq(Ints \cup {NoTime}) /\ Len(times') <= header'.count
      /\ TimesAreExact'
  BY <1>1, <1>3, LoopExact
<1>5. Here' = Here /\ Quotient' = Quotient /\ Remainder' = Remainder
  BY <1>1, <1>3 DEF Here, Quotient, Remainder
<1>6. FractionIsKept'
  BY <1>1, <1>2, <1>3, <1>5 DEF FractionIsKept, Holds, Result, Part
<1>7. TimeTyped'
  BY <1>1, <1>2, <1>3, <1>4, <1>5 DEF TimeInv, TimeTyped, Holds
<1>8. QED BY <1>4, <1>6, <1>7 DEF TimeInv

\* A product that fits is not changed by the width of the word.
LEMMA TicksUnwrapped ==
  ASSUME NEW n \in Nat, NEW q \in Nat, q # 0 => n <= MaxWord \div q
  PROVE  n * q \in 0 .. MaxWord /\ (n * q) % (MaxWord + 1) = n * q
<1>1. MaxWord \in Nat
  BY WordAssumption DEF MaxWord
<1>2. n * q \in Nat /\ n * q <= MaxWord
  <2>1. CASE q = 0
    BY <2>1, <1>1
  <2>2. CASE q # 0
    <3> DEFINE w == MaxWord \div q
    <3>1. w \in Nat /\ MaxWord % q \in Nat /\ MaxWord = q * w + (MaxWord % q)
      BY <1>1, <2>2, DivisionDef
    <3>2. q * n <= q * w
      BY <2>2, <3>1, ProductGrows
    <3>3. q * n \in Nat /\ q * w \in Nat /\ n * q = q * n
      BY <3>1
    <3> HIDE DEF w
    <3>4. QED BY <1>1, <3>1, <3>2, <3>3
  <2>3. QED BY <2>1, <2>2
<1>3. (n * q) % (MaxWord + 1) = n * q
  <2> DEFINE a == n * q
             d == MaxWord + 1
  <2>1. a \in Nat /\ d \in Nat \ {0} /\ a \in 0 .. d - 1 /\ a = d * 0 + a
    BY <1>1, <1>2
  <2> HIDE DEF a, d
  <2>2. a % d = a
    BY <2>1, QuotientUnique
  <2>3. QED BY <2>2 DEF a, d
<1>4. QED BY <1>1, <1>2, <1>3

LEMMA EndPeriodicKeeps == TimeInv /\ EndPeriodic => TimeInv'
<1> SUFFICES ASSUME TimeInv, EndPeriodic PROVE TimeInv'
  OBVIOUS
<1> DEFINE n == Here
           d == header.denominator
           num == header.numerator
           ticks == n * Quotient
           t == header.start + ticks + fraction.resultQ
           beyond == \/ ticks > MaxWord - fraction.resultQ
                     \/ ~TicksFit(header.start, ticks + fraction.resultQ)
<1>1. /\ timing = "multiplying" /\ header' = header /\ fraction.multiplier = 0
      /\ Holds(fraction, n) /\ header.mode = "periodic" /\ header \in Headers
      /\ n \in Nat /\ n <= MaxWord /\ n < header.count
      /\ fraction' = NoFraction
  BY LoopHolds DEF EndPeriodic
<1>2. /\ d \in Nat \ {0} /\ num \in Nat /\ Quotient \in Nat
      /\ Remainder = num % d /\ header.start \in Ints
  BY <1>1, PeriodParts, HeaderTypes
<1>3. ticks \in 0 .. MaxWord /\ ticks % (MaxWord + 1) = ticks
  BY <1>1, <1>2, TicksUnwrapped DEF TimeInv, TimeTyped
<1>4. IF beyond THEN RefuseTime ELSE Deliver(t)
  BY <1>3 DEF EndPeriodic
<1>5. /\ fraction.resultQ \in Nat /\ fraction.resultR \in 0 .. d - 1
      /\ fraction.resultQ * d + fraction.resultR = n * (num % d)
  <2>1. /\ fraction.resultQ \in Nat /\ fraction.resultR \in Nat
        /\ fraction.partQ \in Nat /\ fraction.partR \in Nat
    BY <1>1 DEF Holds, Fractions
  <2>2. fraction.multiplier * Part(fraction) = 0 /\ Result(fraction) \in Nat
    BY <2>1, <1>1, <1>2 DEF Part, Result
  <2>3. Result(fraction) = n * Remainder
    BY <2>2, <1>1 DEF Holds
  <2>4. QED BY <2>1, <2>3, <1>1, <1>2 DEF Holds, Result
<1>6. TrueTime(n) = t
  <2>1. TrueTime(n) = header.start + (n * num) \div d
    BY <1>1 DEF TrueTime
  <2>2. (n * num) \div d = n * (num \div d) + fraction.resultQ
    <3> DEFINE q == fraction.resultQ
               r == fraction.resultR
    <3>1. /\ n \in Nat /\ num \in Nat /\ d \in Nat \ {0}
          /\ q \in Nat /\ r \in 0 .. d - 1 /\ q * d + r = n * (num % d)
      BY <1>1, <1>2, <1>5
    <3> HIDE DEF n, num, d, q, r
    <3>2. (n * num) \div d = n * (num \div d) + q
      BY <3>1, PeriodExact, ZenonT(60)
    <3>3. QED BY <3>2 DEF q
  <2>3. (n * num) \div d = ticks + fraction.resultQ
    BY <2>2 DEF Quotient
  <2>4. QED BY <2>1, <2>3, <1>2, <1>3, <1>5 DEF Ints, MinInt, MaxInt
<1>7. beyond <=> t \notin Ints
  <2> DEFINE r == fraction.resultQ
             st == header.start
  <2>1. r \in Nat /\ st \in Ints /\ ticks \in 0 .. MaxWord
    BY <1>2, <1>3, <1>5
  <2> HIDE DEF ticks
  <2>2. QED
    BY <2>1, WordAssumption DEF TicksFit, Ints, MinInt, MaxInt, MaxWord
<1>8. /\ times' \in Seq(Ints \cup {NoTime}) /\ Len(times') <= header'.count
      /\ TimesAreExact'
  <2> HIDE DEF t, beyond
  <2>1. CASE beyond
    BY <2>1, <1>1, <1>4, <1>6, <1>7, RefusalExact
  <2>2. CASE ~beyond
    BY <2>2, <1>1, <1>4, <1>6, <1>7, DeliverExact
  <2>3. QED BY <2>1, <2>2
<1>9. timing' \in {"next", "refused"} /\ fraction' \in Fractions
  <2>1. timing' \in {"next", "refused"}
    BY <1>4 DEF RefuseTime, Deliver
  <2>2. QED BY <2>1, <1>1 DEF NoFraction, Fractions
<1>10. QED
  BY <1>1, <1>8, <1>9, OutsideLoop
-----------------------------------------------------------------------------
(* The theorems.                                                           *)

LEMMA TimeInvStarts == TimeInit => TimeInv
<1> SUFFICES ASSUME TimeInit PROVE TimeInv
  OBVIOUS
<1>1. header \in Headers /\ times = << >> /\ Len(times) = 0 /\ timing = "next"
      /\ fraction = NoFraction
  BY DEF TimeInit, TimeStart
<1>2. TimeTyped
  BY <1>1, HeaderTypes DEF TimeTyped, NoFraction, Fractions
<1>3. QED BY <1>1, <1>2 DEF TimeInv, FractionIsKept, TimesAreExact

LEMMA TimeInvSteps == TimeInv /\ [TimeNext]_timeVars => TimeInv'
<1> SUFFICES ASSUME TimeInv, [TimeNext]_timeVars PROVE TimeInv'
  OBVIOUS
<1>1. CASE WithoutTime
  BY <1>1, WithoutTimeKeeps
<1>2. CASE FromDelta
  BY <1>2, FromDeltaKeeps
<1>3. CASE Stamped
  BY <1>3, StampedKeeps
<1>4. CASE BeginPeriodic
  BY <1>4, BeginPeriodicKeeps
<1>5. CASE MultiplyFraction
  BY <1>5, MultiplyFractionKeeps
<1>6. CASE EndPeriodic
  BY <1>6, EndPeriodicKeeps
<1>7. CASE UNCHANGED timeVars
  BY <1>7 DEF timeVars, TimeInv, TimeTyped, FractionIsKept, TimesAreExact,
    TrueTime, Here, Quotient, Remainder
<1>8. QED BY <1>1, <1>2, <1>3, <1>4, <1>5, <1>6, <1>7 DEF TimeNext

(***************************************************************************)
(* sample_time keeps its invariant, for words of any width and headers of  *)
(* any kind: no step of the loop overflows, and what it holds is the       *)
(* product it is to divide.                                                *)
(***************************************************************************)
THEOREM TimeInvariant == SampleTimeSpec => []TimeInv
<1>1. QED BY TimeInvStarts, TimeInvSteps, PTL DEF SampleTimeSpec

(***************************************************************************)
(* The four numbers of mul_div_fraction hold sample number times remainder *)
(* throughout, each within a word.                                         *)
(***************************************************************************)
THEOREM FractionStaysKept == SampleTimeSpec => []FractionIsKept
<1>1. TimeInv => FractionIsKept
  BY DEF TimeInv
<1>2. QED BY <1>1, TimeInvariant, PTL

(***************************************************************************)
(* Sample times are exact: each is the one the format gives, and a record  *)
(* is refused only for a time that no int64_t can hold.                    *)
(***************************************************************************)
THEOREM TimesStayExact == SampleTimeSpec => []TimesAreExact
<1>1. TimeInv => TimesAreExact
  BY DEF TimeInv
<1>2. QED BY <1>1, TimeInvariant, PTL

-----------------------------------------------------------------------------
(* The times of a decoded record. *)

LEMMA CodecTimeStarts == CodecsInit => TimeInit
  BY BlockAssumption DEF CodecsInit, CodecInit, TimeInit, BlockOK

\* Only TimeSample moves the times.
LEMMA CodecTimeSteps == [CodecsNext]_allVars => [TimeNext]_timeVars
<1> SUFFICES ASSUME [CodecsNext]_allVars PROVE [TimeNext]_timeVars
  OBVIOUS
<1>1. CASE WriteInC
  BY <1>1 DEF WriteInC
<1>2. CASE WriteInNet
  BY <1>2 DEF WriteInNet
<1>3. CASE ReadInC
  <2>1. CASE DecodeTransforms
    BY <2>1 DEF DecodeTransforms
  <2>2. CASE RefuseIndexes
    BY <2>2 DEF RefuseIndexes
  <2>3. CASE TimeSample
    BY <2>3 DEF TimeSample
  <2>4. CASE RefuseTimes
    BY <2>4 DEF RefuseTimes
  <2>5. CASE DecodeValues
    BY <2>5 DEF DecodeValues
  <2>6. QED BY <1>3, <2>1, <2>2, <2>3, <2>4, <2>5 DEF ReadInC
<1>4. CASE ReadInNet
  BY <1>4 DEF ReadInNet, codecVars
<1>5. CASE UNCHANGED allVars
  BY <1>5 DEF allVars, codecVars
<1>6. QED BY <1>1, <1>2, <1>3, <1>4, <1>5 DEF CodecsNext

(***************************************************************************)
(* Reading a record, whatever it holds and whoever wrote it, times its     *)
(* samples as sample_time does.                                            *)
(***************************************************************************)
THEOREM CodecTimesSamples == CodecsSpec => SampleTimeSpec
<1>1. QED BY CodecTimeStarts, CodecTimeSteps, PTL DEF CodecsSpec, SampleTimeSpec

(***************************************************************************)
(* The times of every decoded record are exact, and none is refused for a  *)
(* time that could be represented.                                         *)
(***************************************************************************)
THEOREM RecordTimesExact == CodecsSpec => []TimesAreExact
<1>1. QED BY CodecTimesSamples, TimesStayExact, PTL


IsSeq(s) == \E S : s \in Seq(S)

(***************************************************************************)
(* Induction over the natural numbers, for a set.                          *)
(***************************************************************************)
LEMMA SetInduction ==
  ASSUME NEW S, 0 \in S, \A n \in Nat : n \in S => n + 1 \in S
  PROVE  \A n \in Nat : n \in S
<1> DEFINE T == {n \in Nat : n \notin S}
<1>1. SUFFICES T = {}
  OBVIOUS
<1>2. SUFFICES ASSUME T # {} PROVE FALSE
  OBVIOUS
<1>3. T \subseteq Nat
  OBVIOUS
<1>4. PICK x \in T : \A y \in T : <<y, x>> \notin OpToRel(<, Nat)
  BY <1>2, <1>3, NatLessThanWellFounded, WFMin
<1>5. \A y \in T : ~(y < x)
  BY <1>3, <1>4 DEF OpToRel
<1>6. x # 0 /\ x \in Nat
  OBVIOUS
<1>7. x - 1 \in Nat /\ x - 1 < x
  BY <1>6
<1>8. x - 1 \in S
  BY <1>5, <1>7
<1>9. x \in S
  BY <1>6, <1>7, <1>8
<1> QED
  BY <1>9

\* A function on 1 .. n is a sequence of length n.
LEMMA IsSeqFunction ==
  ASSUME NEW n \in Nat, NEW F, F = [i \in 1 .. n |-> F[i]]
  PROVE  IsSeq(F) /\ Len(F) = n
<1> DEFINE S == {F[i] : i \in 1 .. n}
<1>1. F \in [1 .. n -> S]
  OBVIOUS
<1>2. F \in Seq(S)
  BY <1>1
<1>3. Len(F) = n
  BY <1>1, <1>2
<1> QED
  BY <1>2, <1>3 DEF IsSeq

\* Two sequences one after the other.
LEMMA ConcatIsSeq ==
  ASSUME NEW a, NEW b, IsSeq(a), IsSeq(b)
  PROVE  /\ IsSeq(a \o b)
         /\ Len(a) \in Nat /\ Len(b) \in Nat
         /\ Len(a \o b) = Len(a) + Len(b)
         /\ \A i \in 1 .. Len(a) + Len(b) :
              (a \o b)[i] = IF i <= Len(a) THEN a[i] ELSE b[i - Len(a)]
<1>1. PICK S : a \in Seq(S)
  BY DEF IsSeq
<1>2. PICK T : b \in Seq(T)
  BY DEF IsSeq
<1>3. a \in Seq(S \cup T) /\ b \in Seq(S \cup T)
  BY <1>1, <1>2, SeqMonotonic, S \subseteq S \cup T, T \subseteq S \cup T
<1>4. a \o b \in Seq(S \cup T)
  BY <1>3, ConcatProperties
<1> QED
  BY <1>3, <1>4, ConcatProperties DEF IsSeq

\* Flattening is appending one part after the other.
LEMMA FlattenByTurns ==
  ASSUME NEW n \in Nat \ {0}, NEW F, F = [i \in 1 .. n |-> F[i]]
  PROVE  \E f : /\ f[1] = F[1]
                /\ \A i \in 2 .. n : f[i] = f[i - 1] \o F[i]
                /\ FlattenSeq(F) = f[n]
<1> DEFINE Step(f, i) == IF i = 1 THEN F[i] ELSE f[i - 1] \o F[i]
           Upto(k, f) == f = [i \in 1 .. k |-> Step(f, i)]
           S == {k \in Nat : \E f : Upto(k, f)}
<1>1. 0 \in S
  <2>1. Upto(0, <<>>)
    OBVIOUS
  <2> QED
    BY <2>1
<1>2. ASSUME NEW k \in Nat, k \in S PROVE k + 1 \in S
  <2>1. PICK f : Upto(k, f)
    BY <1>2
  <2> DEFINE next == IF k = 0 THEN F[1] ELSE f[k] \o F[k + 1]
             g == [i \in 1 .. k + 1 |-> IF i = k + 1 THEN next ELSE f[i]]
  <2>2. ASSUME NEW i \in 1 .. k + 1 PROVE g[i] = Step(g, i)
    <3>1. CASE i = k + 1 /\ k = 0
      BY <3>1
    <3>2. CASE i = k + 1 /\ k # 0
      <4>1. k \in 1 .. k + 1 /\ k # k + 1 /\ i # 1 /\ i - 1 = k
        BY <3>2
      <4>2. g[k] = f[k]
        BY <4>1
      <4> QED
        BY <3>2, <4>1, <4>2
    <3>3. CASE i # k + 1
      <4>1. i \in 1 .. k
        BY <3>3
      <4>2. f[i] = Step(f, i)
        BY <2>1, <4>1
      <4>3. i # 1 => i - 1 \in 1 .. k /\ i - 1 # k + 1
        BY <4>1
      <4>4. i # 1 => g[i - 1] = f[i - 1]
        BY <4>3
      <4> HIDE DEF g
      <4> QED
        BY <3>3, <4>2, <4>4 DEF g
    <3> QED
      BY <3>1, <3>2, <3>3
  <2>3. Upto(k + 1, g)
    BY <2>2
  <2> HIDE DEF g, Upto
  <2> QED
    BY <2>3
<1>3. n \in S
  <2> HIDE DEF S
  <2> QED
    BY <1>1, <1>2, SetInduction
<1>4. Len(F) = n /\ n # 0
  BY IsSeqFunction
<1> DEFINE flat == CHOOSE f : f = [i \in 1 .. Len(F) |-> Step(f, i)]
<1>5. FlattenSeq(F) = flat[Len(F)]
  BY <1>4 DEF FlattenSeq
<1>6. flat = [i \in 1 .. Len(F) |-> Step(flat, i)]
  BY <1>3, <1>4
<1>7. flat = [i \in 1 .. n |-> Step(flat, i)]
  BY <1>4, <1>6
<1> HIDE DEF flat
<1>8. flat[1] = F[1]
  BY <1>7
<1>9. ASSUME NEW i \in 2 .. n PROVE flat[i] = flat[i - 1] \o F[i]
  <2>1. i \in 1 .. n /\ i # 1
    OBVIOUS
  <2>2. flat[i] = Step(flat, i)
    BY <1>7, <2>1
  <2> QED
    BY <2>1, <2>2
<1> QED
  BY <1>4, <1>5, <1>8, <1>9


-----------------------------------------------------------------------------
(* Sums. *)

\* The function that Total defines, as far as n.
AddsUp(total, w, n) ==
  total = [k \in 0 .. n |-> IF k = 0 THEN 0 ELSE total[k - 1] + w[k]]

\* The partial sums exist.
LEMMA TotalExists ==
  ASSUME NEW w
  PROVE  \A n \in Nat : \E total : AddsUp(total, w, n)
<1> DEFINE S == {n \in Nat : \E total : AddsUp(total, w, n)}
<1>1. 0 \in S
  <2>1. AddsUp([k \in 0 .. 0 |-> 0], w, 0)
    BY DEF AddsUp
  <2>2. QED BY <2>1
<1>2. ASSUME NEW n \in Nat, n \in S PROVE n + 1 \in S
  <2>1. PICK f : AddsUp(f, w, n)
    BY <1>2
  <2> DEFINE g == [k \in 0 .. n + 1 |-> IF k = n + 1 THEN f[n] + w[n + 1] ELSE f[k]]
  <2>2. ASSUME NEW k \in 0 .. n + 1
        PROVE  g[k] = IF k = 0 THEN 0 ELSE g[k - 1] + w[k]
    <3>1. CASE k = n + 1
      <4>1. k - 1 = n /\ k - 1 \in 0 .. n + 1 /\ k - 1 # n + 1 /\ k # 0
        BY <3>1
      <4>2. g[k - 1] = f[n]
        BY <4>1
      <4>3. QED BY <3>1, <4>1, <4>2
    <3>2. CASE k # n + 1
      <4>1. k \in 0 .. n /\ (k # 0 => k - 1 \in 0 .. n /\ k - 1 # n + 1 /\ k - 1 \in 0 .. n + 1)
        BY <3>2
      <4>2. g[k] = f[k] /\ (k # 0 => g[k - 1] = f[k - 1])
        BY <3>2, <4>1
      <4>3. f[k] = IF k = 0 THEN 0 ELSE f[k - 1] + w[k]
        BY <2>1, <4>1 DEF AddsUp
      <4> HIDE DEF g
      <4>4. QED BY <4>2, <4>3
    <3>3. QED BY <3>1, <3>2
  <2>3. AddsUp(g, w, n + 1)
    BY <2>2 DEF AddsUp
  <2> HIDE DEF g
  <2>4. QED BY <2>3
<1> HIDE DEF S
<1>3. \A n \in Nat : n \in S
  BY <1>1, <1>2, SetInduction
<1>4. QED BY <1>3 DEF S

\* Nothing else grows by the same numbers.
LEMMA TotalUnique ==
  ASSUME NEW w, NEW f, NEW g, NEW n \in Nat, NEW m \in Nat, n <= m,
         AddsUp(f, w, n), AddsUp(g, w, m)
  PROVE  f[n] = g[n]
<1> DEFINE S == {k \in Nat : k <= n => f[k] = g[k]}
<1>1. 0 \in S
  BY DEF AddsUp
<1>2. ASSUME NEW k \in Nat, k \in S PROVE k + 1 \in S
  <2>1. CASE k + 1 <= n
    <3>1. k + 1 \in 0 .. n /\ k + 1 \in 0 .. m /\ k + 1 # 0 /\ (k + 1) - 1 = k
      BY <2>1
    <3>2. f[k + 1] = f[k] + w[k + 1]
      BY <3>1 DEF AddsUp
    <3>3. g[k + 1] = g[k] + w[k + 1]
      BY <3>1 DEF AddsUp
    <3>4. QED BY <3>1, <3>2, <3>3, <1>2
  <2>2. QED BY <2>1
<1> HIDE DEF S
<1>3. \A k \in Nat : k \in S
  BY <1>1, <1>2, SetInduction
<1>4. QED BY <1>3 DEF S

\* The sum to n is where the function that adds up ends.
LEMMA TotalIs ==
  ASSUME NEW w, NEW n \in Nat
  PROVE  \E f : AddsUp(f, w, n) /\ Total(w, n) = f[n]
<1>1. \E total : AddsUp(total, w, n)
  BY TotalExists
<1> DEFINE f == CHOOSE total : AddsUp(total, w, n)
<1>2. AddsUp(f, w, n)
  BY <1>1
<1>3. Total(w, n) = f[n]
  BY DEF Total, AddsUp
<1> HIDE DEF f
<1>4. QED BY <1>2, <1>3

\* A sum grows by one number at a time.
LEMMA TotalStep ==
  ASSUME NEW w
  PROVE  /\ Total(w, 0) = 0
         /\ \A n \in Nat : Total(w, n + 1) = Total(w, n) + w[n + 1]
<1>1. Total(w, 0) = 0
  BY TotalIs DEF AddsUp
<1>2. ASSUME NEW n \in Nat PROVE Total(w, n + 1) = Total(w, n) + w[n + 1]
  <2>1. PICK f : AddsUp(f, w, n) /\ Total(w, n) = f[n]
    BY TotalIs
  <2>2. PICK g : AddsUp(g, w, n + 1) /\ Total(w, n + 1) = g[n + 1]
    BY TotalIs
  <2>3. f[n] = g[n]
    BY <2>1, <2>2, TotalUnique
  <2>4. n + 1 \in 0 .. n + 1 /\ n + 1 # 0 /\ (n + 1) - 1 = n
    OBVIOUS
  <2>5. g[n + 1] = g[n] + w[n + 1]
    BY <2>2, <2>4 DEF AddsUp
  <2>6. QED BY <2>1, <2>2, <2>3, <2>5
<1>3. QED BY <1>1, <1>2

\* Sums of natural numbers are natural numbers, and grow.
LEMMA TotalIsNat ==
  ASSUME NEW w, NEW n \in Nat, \A k \in 1 .. n : w[k] \in Nat
  PROVE  /\ \A m \in 0 .. n : Total(w, m) \in Nat
         /\ \A m \in 1 .. n : Total(w, m) = Total(w, m - 1) + w[m]
         /\ Total(w, 0) = 0
<1> DEFINE S == {m \in Nat : m <= n => Total(w, m) \in Nat}
<1>1. 0 \in S
  BY TotalStep
<1>2. ASSUME NEW m \in Nat, m \in S PROVE m + 1 \in S
  <2>1. CASE m + 1 <= n
    <3>1. Total(w, m + 1) = Total(w, m) + w[m + 1]
      BY TotalStep
    <3>2. w[m + 1] \in Nat /\ Total(w, m) \in Nat
      BY <2>1, <1>2
    <3>3. QED BY <3>1, <3>2
  <2>2. QED BY <2>1
<1> HIDE DEF S
<1>3. \A m \in Nat : m \in S
  BY <1>1, <1>2, SetInduction
<1>4. \A m \in 0 .. n : Total(w, m) \in Nat
  BY <1>3 DEF S
<1>5. ASSUME NEW m \in 1 .. n PROVE Total(w, m) = Total(w, m - 1) + w[m]
  <2>1. m - 1 \in Nat /\ (m - 1) + 1 = m
    OBVIOUS
  <2>2. Total(w, (m - 1) + 1) = Total(w, m - 1) + w[(m - 1) + 1]
    BY <2>1, TotalStep
  <2>3. QED BY <2>1, <2>2
<1>6. QED BY <1>4, <1>5, TotalStep

\* A longer sum is no smaller.
LEMMA TotalGrows ==
  ASSUME NEW w, NEW n \in Nat, \A k \in 1 .. n : w[k] \in Nat,
         NEW i \in 0 .. n, NEW j \in 0 .. n, i <= j
  PROVE  Total(w, i) <= Total(w, j)
<1> DEFINE S == {m \in Nat : i <= m /\ m <= n => Total(w, i) <= Total(w, m)}
<1>1. 0 \in S
  BY TotalIsNat
<1>2. ASSUME NEW m \in Nat, m \in S PROVE m + 1 \in S
  <2>1. CASE i <= m /\ m + 1 <= n
    <3>1. m + 1 \in 1 .. n /\ m \in 0 .. n /\ (m + 1) - 1 = m
      BY <2>1
    <3>2. /\ Total(w, m + 1) = Total(w, m) + w[m + 1] /\ w[m + 1] \in Nat
          /\ Total(w, m) \in Nat /\ Total(w, i) \in Nat
      BY <3>1, TotalIsNat
    <3>3. Total(w, i) <= Total(w, m)
      BY <2>1, <1>2
    <3>4. QED BY <3>2, <3>3
  <2>2. CASE i = m + 1 /\ m + 1 <= n
    <3>1. Total(w, i) \in Nat
      BY TotalIsNat
    <3>2. QED BY <2>2, <3>1
  <2>3. QED BY <2>1, <2>2
<1> HIDE DEF S
<1>3. \A m \in Nat : m \in S
  BY <1>1, <1>2, SetInduction
<1>4. QED BY <1>3 DEF S

\* Only the numbers added count.
LEMMA TotalSame ==
  ASSUME NEW v, NEW w, NEW n \in Nat, \A k \in 1 .. n : v[k] = w[k]
  PROVE  Total(v, n) = Total(w, n)
<1> DEFINE S == {m \in Nat : m <= n => Total(v, m) = Total(w, m)}
<1>1. 0 \in S
  BY TotalStep
<1>2. ASSUME NEW m \in Nat, m \in S PROVE m + 1 \in S
  <2>1. CASE m + 1 <= n
    <3>1. /\ Total(v, m + 1) = Total(v, m) + v[m + 1]
          /\ Total(w, m + 1) = Total(w, m) + w[m + 1]
      BY TotalStep
    <3>2. v[m + 1] = w[m + 1] /\ Total(v, m) = Total(w, m)
      BY <2>1, <1>2
    <3>3. QED BY <3>1, <3>2
  <2>2. QED BY <2>1
<1> HIDE DEF S
<1>3. \A m \in Nat : m \in S
  BY <1>1, <1>2, SetInduction
<1>4. QED BY <1>3 DEF S

\* Every place below the sum lies in exactly one summand.
LEMMA PlaceInTotal ==
  ASSUME NEW w, NEW n \in Nat, \A k \in 1 .. n : w[k] \in Nat
  PROVE  \A place \in Nat : place < Total(w, n) =>
           \E k \in 1 .. n : Total(w, k - 1) <= place /\ place < Total(w, k)
<1> TAKE place \in Nat
<1> DEFINE S == {m \in Nat : m <= n /\ place < Total(w, m) =>
             \E k \in 1 .. n : Total(w, k - 1) <= place /\ place < Total(w, k)}
<1>1. 0 \in S
  BY TotalIsNat
<1>2. ASSUME NEW m \in Nat, m \in S PROVE m + 1 \in S
  <2>1. CASE m + 1 <= n /\ place < Total(w, m + 1)
    <3>1. CASE place < Total(w, m)
      BY <2>1, <3>1, <1>2
    <3>2. CASE ~(place < Total(w, m))
      <4>1. m + 1 \in 1 .. n /\ (m + 1) - 1 = m /\ m \in 0 .. n
        BY <2>1
      <4>2. Total(w, m) \in Nat
        BY <4>1, TotalIsNat
      <4>3. Total(w, (m + 1) - 1) <= place /\ place < Total(w, m + 1)
        BY <2>1, <3>2, <4>1, <4>2
      <4>4. QED BY <4>1, <4>3
    <3>3. QED BY <3>1, <3>2
  <2>2. QED BY <2>1
<1> HIDE DEF S
<1>3. \A m \in Nat : m \in S
  BY <1>1, <1>2, SetInduction
<1>4. QED BY <1>3 DEF S


-----------------------------------------------------------------------------
(* Powers of two. *)

\* 2 ^ n is a number: the functions on n places with two values.
LEMMA PowIsCard ==
  ASSUME NEW n \in Nat
  PROVE  /\ IsFiniteSet(SUBSET (1 .. n)) /\ Cardinality(SUBSET (1 .. n)) = 2 ^ n
         /\ 2 ^ n \in Nat
<1>1. IsFiniteSet(1 .. n) /\ Cardinality(1 .. n) = n
  BY FS_Interval
<1>2. IsFiniteSet(SUBSET (1 .. n)) /\ Cardinality(SUBSET (1 .. n)) = 2 ^ Cardinality(1 .. n)
  BY <1>1, FS_SUBSET
<1>3. Cardinality(SUBSET (1 .. n)) \in Nat
  BY <1>2, FS_CardinalityType
<1>4. QED BY <1>1, <1>2, <1>3

\* The powers begin with one.
LEMMA PowZero == 2 ^ 0 = 1
<1>1. 1 .. 0 = {} /\ SUBSET {} = {{}}
  OBVIOUS
<1>2. Cardinality({{}}) = 1
  BY FS_Singleton
<1>3. Cardinality(SUBSET (1 .. 0)) = 2 ^ 0
  BY PowIsCard
<1>4. QED BY <1>1, <1>2, <1>3

\* A set of numbers up to n + 1 has the last of them or not.
LEMMA PowDouble == \A n \in Nat : 2 ^ (n + 1) = 2 * 2 ^ n
<1> TAKE n \in Nat
<1> DEFINE A == SUBSET (1 .. n)
           B == {T \in SUBSET (1 .. n + 1) : n + 1 \in T}
           f == [T \in A |-> T \cup {n + 1}]
<1>1. /\ IsFiniteSet(A) /\ Cardinality(A) = 2 ^ n /\ 2 ^ n \in Nat
      /\ IsFiniteSet(SUBSET (1 .. n + 1))
      /\ Cardinality(SUBSET (1 .. n + 1)) = 2 ^ (n + 1)
  <2>1. n + 1 \in Nat
    OBVIOUS
  <2>2. QED BY <2>1, PowIsCard
<1>2. A \cup B = SUBSET (1 .. n + 1)
  <2>1. ASSUME NEW T \in SUBSET (1 .. n + 1), n + 1 \notin T PROVE T \in A
    <3>1. \A x \in T : x \in 1 .. n + 1 /\ x # n + 1
      BY <2>1
    <3>2. \A x \in T : x \in 1 .. n
      BY <3>1
    <3>3. QED BY <3>2
  <2>2. 1 .. n \subseteq 1 .. n + 1
    OBVIOUS
  <2>3. QED BY <2>1, <2>2
<1>3. A \cap B = {}
  BY SMT
<1>4. f \in Bijection(A, B)
  <2>1. ASSUME NEW T \in A PROVE T \cup {n + 1} \in B
    <3>1. 1 .. n \subseteq 1 .. n + 1 /\ n + 1 \in 1 .. n + 1
      OBVIOUS
    <3>2. QED BY <3>1
  <2>2. f \in [A -> B]
    BY <2>1
  <2>3. n + 1 \notin 1 .. n
    OBVIOUS
  <2>4. ASSUME NEW T \in A, NEW U \in A, f[T] = f[U] PROVE T = U
    <3>1. T \cup {n + 1} = U \cup {n + 1}
      BY <2>4
    <3>2. n + 1 \notin T /\ n + 1 \notin U
      BY <2>3
    <3>3. QED BY <3>1, <3>2
  <2>5. ASSUME NEW U \in B PROVE \E T \in A : f[T] = U
    <3> DEFINE T == U \ {n + 1}
    <3>1. \A x \in T : x \in 1 .. n
      <4>1. \A x \in T : x \in 1 .. n + 1 /\ x # n + 1
        OBVIOUS
      <4>2. QED BY <4>1
    <3>2. T \in A
      BY <3>1
    <3>3. f[T] = T \cup {n + 1}
      BY <3>2
    <3>4. T \cup {n + 1} = U
      OBVIOUS
    <3>5. QED BY <3>2, <3>3, <3>4
  <2> HIDE DEF f, A, B
  <2>6. QED BY <2>2, <2>4, <2>5, Fun_IsBij
<1>5. IsFiniteSet(B) /\ Cardinality(B) = Cardinality(A)
  <2> HIDE DEF f, A, B
  <2>1. ExistsBijection(A, B)
    BY <1>4, Fun_ExistsBij
  <2>2. QED BY <1>1, <2>1, FS_Bijection
<1>6. Cardinality(A \cup B) = Cardinality(A) + Cardinality(B) - Cardinality(A \cap B)
  <2> HIDE DEF A, B
  <2>1. QED BY <1>1, <1>5, FS_Union
<1>7. Cardinality(A \cap B) = 0
  <2> HIDE DEF A, B
  <2>1. QED BY <1>3, FS_EmptySet
<1> DEFINE a == 2 ^ n
           b == 2 ^ (n + 1)
<1>8. a \in Nat /\ Cardinality(A) = a /\ Cardinality(A \cup B) = b
  BY <1>1, <1>2
<1> HIDE DEF A, B, a, b
<1>9. b = 2 * a
  BY <1>5, <1>6, <1>7, <1>8
<1>10. QED BY <1>9 DEF a, b

\* A power of two is a positive number.
LEMMA PowNat ==
  /\ 2 ^ 0 = 1 /\ \A n \in Nat : 2 ^ n \in Nat \ {0} /\ 2 ^ (n + 1) = 2 * 2 ^ n
<1> DEFINE S == {n \in Nat : 2 ^ n \in Nat \ {0}}
<1>1. 0 \in S
  BY PowZero
<1>2. ASSUME NEW n \in Nat, n \in S PROVE n + 1 \in S
  <2>1. 2 ^ (n + 1) = 2 * 2 ^ n
    BY PowDouble
  <2>2. 2 ^ n \in Nat \ {0}
    BY <1>2
  <2>3. QED BY <2>1, <2>2
<1> HIDE DEF S
<1>3. \A n \in Nat : n \in S
  BY <1>1, <1>2, SetInduction
<1>4. QED BY <1>3, PowZero, PowDouble DEF S

\* Exponents add up.
LEMMA PowAdd ==
  ASSUME NEW m \in Nat
  PROVE  \A n \in Nat : 2 ^ (m + n) = 2 ^ m * 2 ^ n
<1> DEFINE S == {n \in Nat : 2 ^ (m + n) = 2 ^ m * 2 ^ n}
<1>1. 0 \in S
  <2>1. m + 0 = m /\ 2 ^ m \in Nat
    BY PowNat
  <2>2. 2 ^ m * 1 = 2 ^ m
    BY <2>1
  <2>3. QED BY <2>1, <2>2, PowNat
<1>2. ASSUME NEW n \in Nat, n \in S PROVE n + 1 \in S
  <2>1. m + (n + 1) = (m + n) + 1 /\ m + n \in Nat
    OBVIOUS
  <2>2. 2 ^ ((m + n) + 1) = 2 * 2 ^ (m + n) /\ 2 ^ (n + 1) = 2 * 2 ^ n
    BY <2>1, PowNat
  <2> DEFINE a == 2 ^ m
             b == 2 ^ n
  <2>3. a \in Nat /\ b \in Nat /\ 2 ^ (m + n) = a * b
    BY <1>2, PowNat
  <2>4. 2 * (a * b) = a * (2 * b)
    <3> HIDE DEF a, b
    <3>1. QED BY <2>3
  <2>5. QED BY <2>1, <2>2, <2>3, <2>4
<1> HIDE DEF S
<1>3. \A n \in Nat : n \in S
  BY <1>1, <1>2, SetInduction
<1>4. QED BY <1>3 DEF S

\* A power divides every higher one.
LEMMA PowParts ==
  ASSUME NEW m \in Nat, NEW n \in Nat, m <= n
  PROVE  /\ 2 ^ n = 2 ^ m * 2 ^ (n - m) /\ 2 ^ (n - m) \in Nat \ {0}
         /\ 2 ^ m <= 2 ^ n
<1>1. n - m \in Nat /\ m + (n - m) = n
  OBVIOUS
<1>2. 2 ^ (m + (n - m)) = 2 ^ m * 2 ^ (n - m)
  BY <1>1, PowAdd
<1>3. 2 ^ (n - m) \in Nat \ {0} /\ 2 ^ m \in Nat
  BY <1>1, PowNat
<1>4. 2 ^ m * 1 <= 2 ^ m * 2 ^ (n - m)
  <2> DEFINE a == 2 ^ m
             b == 2 ^ (n - m)
  <2> HIDE DEF a, b
  <2>1. a \in Nat /\ b \in Nat \ {0} => a * 1 <= a * b
    <3>1. SUFFICES ASSUME a \in Nat, b \in Nat \ {0} PROVE a * 1 <= a * b
      OBVIOUS
    <3>2. 1 <= b /\ b \in Int
      BY <3>1
    <3>3. QED BY <3>1, <3>2, ProductGrows
  <2>2. QED BY <2>1, <1>3 DEF a, b
<1>5. QED BY <1>1, <1>2, <1>3, <1>4


-----------------------------------------------------------------------------
(* Numbers and their bits. *)

\* One more bit of a number.
LEMMA OneMoreBit ==
  ASSUME NEW v \in Nat, NEW a \in Nat \ {0}
  PROVE  /\ v % (2 * a) = (v % a) + (IF (v \div a) % 2 = 1 THEN a ELSE 0)
         /\ v \div (2 * a) = (v \div a) \div 2
<1> DEFINE q == v \div a
           r == v % a
           h == q \div 2
           o == q % 2
<1>1. q \in Nat /\ r \in 0 .. a - 1 /\ v = a * q + r
  BY DivisionDef
<1>2. h \in Nat /\ o \in 0 .. 1 /\ q = 2 * h + o
  <2> HIDE DEF q
  <2>1. QED BY <1>1, DivisionDef
<1> HIDE DEF q, r, h, o
<1> DEFINE s == IF o = 1 THEN a ELSE 0
<1>3. a * q = (2 * a) * h + s
  <2>1. CASE o = 1
    <3>1. a * (2 * h + 1) = (2 * a) * h + a
      BY <1>2
    <3>2. QED BY <2>1, <3>1, <1>2
  <2>2. CASE o = 0
    <3>1. a * (2 * h) = (2 * a) * h
      BY <1>2
    <3>2. QED BY <2>2, <3>1, <1>2
  <2>3. QED BY <2>1, <2>2, <1>2
<1>4. s + r \in 0 .. 2 * a - 1
  BY <1>1
<1>5. (2 * a) * h \in Nat /\ s \in Nat /\ a * q \in Nat
  BY <1>1, <1>2
<1> HIDE DEF s
<1>6. v = (2 * a) * h + (s + r)
  BY <1>1, <1>3, <1>5
<1>7. v \div (2 * a) = h /\ v % (2 * a) = s + r
  <2>1. 2 * a \in Nat \ {0}
    OBVIOUS
  <2> DEFINE d == 2 * a
             t == s + r
  <2> HIDE DEF d, t
  <2>2. d \in Nat \ {0} /\ t \in 0 .. d - 1 /\ h \in Int /\ v = d * h + t
    BY <2>1, <1>2, <1>4, <1>6 DEF d, t
  <2>3. v \div d = h /\ v % d = t
    BY <2>2, QuotientUnique
  <2>4. QED BY <2>3 DEF d, t
<1>8. QED BY <1>1, <1>5, <1>7 DEF q, r, h, o, s

\* One more place of a number.
LEMMA NumberStep ==
  ASSUME NEW bits
  PROVE  /\ Number(bits, 0) = 0
         /\ \A n \in Nat : Number(bits, n + 1)
              = Number(bits, n) + (IF n \in bits THEN 2 ^ n ELSE 0)
<1> DEFINE w(n) == [i \in 1 .. n |-> IF i - 1 \in bits THEN 2 ^ (i - 1) ELSE 0]
<1>1. Number(bits, 0) = 0
  BY TotalStep DEF Number
<1>2. ASSUME NEW n \in Nat
      PROVE  Number(bits, n + 1) = Number(bits, n) + (IF n \in bits THEN 2 ^ n ELSE 0)
  <2>1. Total(w(n + 1), n + 1) = Total(w(n + 1), n) + w(n + 1)[n + 1]
    BY TotalStep
  <2>2. Total(w(n + 1), n) = Total(w(n), n)
    <3>1. \A k \in 1 .. n : w(n + 1)[k] = w(n)[k]
      OBVIOUS
    <3> HIDE DEF w
    <3>2. QED BY <3>1, TotalSame
  <2>3. w(n + 1)[n + 1] = IF n \in bits THEN 2 ^ n ELSE 0
    <3>1. n + 1 \in 1 .. n + 1 /\ (n + 1) - 1 = n
      OBVIOUS
    <3>2. QED BY <3>1
  <2>4. Number(bits, n + 1) = Total(w(n + 1), n + 1) /\ Number(bits, n) = Total(w(n), n)
    BY DEF Number
  <2> HIDE DEF w
  <2>5. QED BY <2>1, <2>2, <2>3, <2>4
<1>3. QED BY <1>1, <1>2

\* n bits make a number below 2 ^ n.
LEMMA NumberBound ==
  ASSUME NEW bits
  PROVE  \A n \in Nat : Number(bits, n) \in 0 .. 2 ^ n - 1
<1> DEFINE S == {n \in Nat : Number(bits, n) \in 0 .. 2 ^ n - 1}
<1>1. 0 \in S
  BY NumberStep, PowNat
<1>2. ASSUME NEW n \in Nat, n \in S PROVE n + 1 \in S
  <2> DEFINE a == 2 ^ n
             b == 2 ^ (n + 1)
             v == Number(bits, n)
             u == Number(bits, n + 1)
  <2>1. a \in Nat /\ b = 2 * a /\ v \in 0 .. a - 1
    BY <1>2, PowNat
  <2>2. u = v + (IF n \in bits THEN a ELSE 0)
    BY NumberStep
  <2> HIDE DEF a, b, v, u
  <2>3. u \in 0 .. b - 1
    BY <2>1, <2>2
  <2>4. QED BY <2>3 DEF b, u
<1> HIDE DEF S
<1>3. \A n \in Nat : n \in S
  BY <1>1, <1>2, SetInduction
<1>4. QED BY <1>3 DEF S

\* The number of the lowest bits of a number is its remainder.
LEMMA NumberOfBits ==
  ASSUME NEW v \in Nat, NEW m \in Nat
  PROVE  \A n \in Nat : n <= m => Number(Bits(v, m), n) = v % 2 ^ n
<1> DEFINE S == {n \in Nat : n <= m => Number(Bits(v, m), n) = v % 2 ^ n}
<1>1. 0 \in S
  BY NumberStep, PowNat
<1>2. ASSUME NEW n \in Nat, n \in S PROVE n + 1 \in S
  <2>1. SUFFICES ASSUME n + 1 <= m
                 PROVE  Number(Bits(v, m), n + 1) = v % 2 ^ (n + 1)
    OBVIOUS
  <2>2. Number(Bits(v, m), n) = v % 2 ^ n
    BY <1>2, <2>1
  <2>3. Number(Bits(v, m), n + 1)
          = Number(Bits(v, m), n) + (IF n \in Bits(v, m) THEN 2 ^ n ELSE 0)
    BY NumberStep
  <2>4. n \in Bits(v, m) <=> (v \div 2 ^ n) % 2 = 1
    BY <2>1 DEF Bits
  <2>5. 2 ^ n \in Nat \ {0} /\ 2 ^ (n + 1) = 2 * 2 ^ n
    BY PowNat
  <2>6. v % (2 * 2 ^ n) = (v % 2 ^ n) + (IF (v \div 2 ^ n) % 2 = 1 THEN 2 ^ n ELSE 0)
    BY <2>5, OneMoreBit
  <2> DEFINE a == 2 ^ n
             b == 2 ^ (n + 1)
             r == v % 2 ^ n
             c == (v \div 2 ^ n) % 2 = 1
  <2>7. QED BY <2>2, <2>3, <2>4, <2>5, <2>6, Zenon
<1> HIDE DEF S
<1>3. \A n \in Nat : n \in S
  BY <1>1, <1>2, SetInduction
<1>4. QED BY <1>3 DEF S

\* A multiple of a power of two above the bit leaves the bit alone.
LEMMA BitBelow ==
  ASSUME NEW v \in Nat, NEW i \in Nat, NEW n \in Nat, i < n
  PROVE  /\ (v + 2 ^ n) \div 2 ^ i = (v \div 2 ^ i) + 2 * 2 ^ ((n - i) - 1)
         /\ ((v + 2 ^ n) \div 2 ^ i) % 2 = (v \div 2 ^ i) % 2
         /\ 2 ^ ((n - i) - 1) \in Nat
<1>1. (n - i) - 1 \in Nat /\ ((n - i) - 1) + 1 = n - i
  OBVIOUS
<1> DEFINE a == 2 ^ i
           b == 2 ^ ((n - i) - 1)
           q == v \div a
           r == v % a
<1>2. a \in Nat \ {0} /\ b \in Nat /\ 2 ^ n = a * (2 * b)
  <2>1. 2 ^ (((n - i) - 1) + 1) = 2 * b
    BY <1>1, PowNat
  <2>2. 2 ^ (n - i) = 2 * b
    BY <1>1, <2>1
  <2>3. 2 ^ n = a * 2 ^ (n - i)
    BY PowParts
  <2>4. QED BY <1>1, <2>2, <2>3, PowNat
<1> DEFINE p == 2 ^ n
<1> HIDE DEF a, b, p
<1>3. q \in Nat /\ r \in 0 .. a - 1 /\ v = a * q + r
  BY <1>2, DivisionDef
<1> HIDE DEF q, r
<1>4. a * (q + 2 * b) = a * q + a * (2 * b) /\ a * q \in Nat /\ a * (2 * b) \in Nat
  BY <1>2, <1>3
<1>5. v + p = a * (q + 2 * b) + r /\ v + p \in Nat /\ q + 2 * b \in Int
  BY <1>2, <1>3, <1>4 DEF p
<1>6. (v + p) \div a = q + 2 * b
  BY <1>2, <1>3, <1>5, QuotientUnique
<1>7. (q + 2 * b) % 2 = q % 2
  BY <1>2, <1>3
<1>8. QED BY <1>2, <1>6, <1>7 DEF a, b, p, q

\* A number below the divisor is its own remainder.
LEMMA SmallQuotient ==
  ASSUME NEW d \in Nat \ {0}, NEW v \in 0 .. d - 1
  PROVE  /\ v \div d = 0 /\ v % d = v
         /\ (v + d) \div d = 1 /\ (v + d) % d = v
<1>1. v = d * 0 + v /\ v + d = d * 1 + v /\ v \in Nat /\ v + d \in Nat
  OBVIOUS
<1>2. v \div d = 0 /\ v % d = v
  BY <1>1, QuotientUnique
<1>3. (v + d) \div d = 1 /\ (v + d) % d = v
  <2> DEFINE u == v + d
  <2>1. u \in Nat /\ u = d * 1 + v
    BY <1>1
  <2> HIDE DEF u
  <2>2. u \div d = 1 /\ u % d = v
    BY <2>1, QuotientUnique
  <2>3. QED BY <2>2 DEF u
<1>4. QED BY <1>2, <1>3

\* The bits of the number that some bits make are these bits.
LEMMA BitOfNumber ==
  ASSUME NEW bits, NEW i \in Nat
  PROVE  \A n \in Nat : i < n => ((Number(bits, n) \div 2 ^ i) % 2 = 1 <=> i \in bits)
<1> DEFINE S == {n \in Nat :
                   i < n => ((Number(bits, n) \div 2 ^ i) % 2 = 1 <=> i \in bits)}
<1>1. 0 \in S
  OBVIOUS
<1>2. ASSUME NEW n \in Nat, n \in S PROVE n + 1 \in S
  <2> DEFINE v == Number(bits, n)
             u == Number(bits, n + 1)
  <2>1. v \in Nat /\ v \in 0 .. 2 ^ n - 1 /\ 2 ^ n \in Nat \ {0}
    BY NumberBound, PowNat
  <2>2. u = v + (IF n \in bits THEN 2 ^ n ELSE 0)
    BY NumberStep
  <2> HIDE DEF v, u
  <2>3. CASE i < n
    <3>1. (v \div 2 ^ i) % 2 = 1 <=> i \in bits
      BY <1>2, <2>3 DEF v
    <3>2. ((v + 2 ^ n) \div 2 ^ i) % 2 = (v \div 2 ^ i) % 2
      BY <2>1, <2>3, BitBelow
    <3>3. u = v \/ u = v + 2 ^ n
      BY <2>1, <2>2
    <3>4. (u \div 2 ^ i) % 2 = 1 <=> i \in bits
      BY <3>1, <3>2, <3>3, Zenon
    <3>5. QED BY <3>4 DEF u
  <2>4. CASE i = n
    <3>1. v \div 2 ^ n = 0 /\ (v + 2 ^ n) \div 2 ^ n = 1
      BY <2>1, SmallQuotient
    <3>2. CASE n \in bits
      <4>1. u \div 2 ^ n = 1
        BY <2>2, <3>1, <3>2, Zenon
      <4>2. QED BY <4>1, <2>4, <3>2 DEF u
    <3>3. CASE n \notin bits
      <4>1. u = v
        BY <2>1, <2>2, <3>3
      <4>2. u \div 2 ^ n = 0
        BY <4>1, <3>1
      <4>3. QED BY <4>2, <2>4, <3>3 DEF u
    <3>4. QED BY <3>2, <3>3
  <2>5. QED BY <2>3, <2>4 DEF u
<1> HIDE DEF S
<1>3. \A n \in Nat : n \in S
  BY <1>1, <1>2, SetInduction
<1>4. QED BY <1>3 DEF S

\* The bits a number was made of.
LEMMA BitsOfNumber ==
  ASSUME NEW n \in Nat, NEW bits \in SUBSET (0 .. n - 1)
  PROVE  Bits(Number(bits, n), n) = bits
<1>1. \A i \in 0 .. n - 1 : (Number(bits, n) \div 2 ^ i) % 2 = 1 <=> i \in bits
  BY BitOfNumber
<1>2. QED BY <1>1 DEF Bits


-----------------------------------------------------------------------------
(* What is where in a sequence put together from parts. *)

\* S[k] is the length of the first k sequences of F.
LengthsAre(F, n, S) ==
  /\ F = [k \in 1 .. n |-> F[k]]
  /\ S[0] = 0
  /\ \A k \in 1 .. n :
       IsSeq(F[k]) /\ S[k - 1] \in Nat /\ S[k] = S[k - 1] + Len(F[k])

\* The first j of them, one after the other.
Joined(s, F, j, S) ==
  /\ IsSeq(s) /\ Len(s) = S[j] /\ S[j] \in Nat
  /\ \A k \in 1 .. j : \A e \in 1 .. Len(F[k]) :
       S[k - 1] + e \in 1 .. S[j] /\ s[S[k - 1] + e] = F[k][e]

\* Where the elements of a part end up.
LEMMA FlattenAt ==
  ASSUME NEW n \in Nat, NEW F, NEW S, LengthsAre(F, n, S)
  PROVE  Joined(FlattenSeq(F), F, n, S)
<1>1. F = [k \in 1 .. n |-> F[k]] /\ S[0] = 0 /\ IsSeq(F) /\ Len(F) = n
  BY IsSeqFunction DEF LengthsAre
<1>2. CASE n = 0
  <2>1. FlattenSeq(F) = F
    BY <1>1, <1>2 DEF FlattenSeq
  <2>2. QED BY <2>1, <1>1, <1>2 DEF Joined
<1>3. CASE n # 0
  <2>1. PICK f : /\ f[1] = F[1]
                 /\ \A i \in 2 .. n : f[i] = f[i - 1] \o F[i]
                 /\ FlattenSeq(F) = f[n]
    <3>1. n \in Nat \ {0}
      BY <1>3
    <3>2. F = [i \in 1 .. n |-> F[i]]
      BY <1>1
    <3>3. QED BY <3>1, <3>2, FlattenByTurns, Zenon
  <2> DEFINE T == {j \in Nat : j + 1 <= n => Joined(f[j + 1], F, j + 1, S)}
  <2>2. 0 \in T
    <3>1. 1 \in 1 .. n /\ 1 - 1 = 0
      BY <1>3
    <3>2. IsSeq(F[1]) /\ S[1] = S[0] + Len(F[1])
      BY <3>1 DEF LengthsAre
    <3>3. Len(F[1]) \in Nat
      BY <3>2 DEF IsSeq
    <3>4. S[1] = Len(F[1])
      BY <1>1, <3>2, <3>3
    <3>5. \A k \in 1 .. 1 : \A e \in 1 .. Len(F[k]) :
            S[k - 1] + e \in 1 .. S[1] /\ f[1][S[k - 1] + e] = F[k][e]
      <4> SUFFICES ASSUME NEW k \in 1 .. 1, NEW e \in 1 .. Len(F[k])
                   PROVE  S[k - 1] + e \in 1 .. S[1] /\ f[1][S[k - 1] + e] = F[k][e]
        OBVIOUS
      <4>1. k = 1 /\ k - 1 = 0 /\ 0 + e = e
        BY <3>3
      <4>2. QED BY <4>1, <1>1, <2>1, <3>3, <3>4
    <3>6. Joined(f[1], F, 1, S)
      BY <2>1, <3>2, <3>3, <3>4, <3>5 DEF Joined
    <3>7. QED BY <3>6
  <2>3. ASSUME NEW j \in Nat, j \in T PROVE j + 1 \in T
    <3>1. SUFFICES ASSUME (j + 1) + 1 <= n
                   PROVE  Joined(f[(j + 1) + 1], F, (j + 1) + 1, S)
      OBVIOUS
    <3> DEFINE i == j + 1
               m == (j + 1) + 1
    <3>2. i \in 1 .. n /\ m \in 2 .. n /\ m \in 1 .. n /\ m - 1 = i
      BY <3>1
    <3>3. Joined(f[i], F, i, S)
      BY <2>3, <3>2
    <3> HIDE DEF i, m
    <3>4. /\ f[m] = f[i] \o F[m]
          /\ IsSeq(F[m]) /\ S[i] \in Nat /\ S[m] = S[i] + Len(F[m])
      BY <2>1, <3>2 DEF LengthsAre
    <3>5. /\ IsSeq(f[m]) /\ Len(f[i]) = S[i] /\ Len(F[m]) \in Nat
          /\ Len(f[m]) = S[i] + Len(F[m])
          /\ \A x \in 1 .. S[i] + Len(F[m]) :
               f[m][x] = IF x <= S[i] THEN f[i][x] ELSE F[m][x - S[i]]
      <4>1. IsSeq(f[i]) /\ Len(f[i]) = S[i]
        BY <3>3 DEF Joined
      <4> DEFINE a == f[i]
                 c == F[m]
                 u == f[m]
      <4>2. IsSeq(a) /\ IsSeq(c) /\ u = a \o c /\ Len(a) = S[i]
        BY <4>1, <3>4
      <4> HIDE DEF a, c, u
      <4>3. /\ IsSeq(u) /\ Len(a) \in Nat /\ Len(c) \in Nat
            /\ Len(u) = Len(a) + Len(c)
            /\ \A x \in 1 .. Len(a) + Len(c) :
                 u[x] = IF x <= Len(a) THEN a[x] ELSE c[x - Len(a)]
        BY <4>2, ConcatIsSeq
      <4>4. QED BY <4>2, <4>3 DEF a, c, u
    <3>6. ASSUME NEW k \in 1 .. m, NEW e \in 1 .. Len(F[k])
          PROVE  S[k - 1] + e \in 1 .. S[m] /\ f[m][S[k - 1] + e] = F[k][e]
      <4>1. CASE k = m
        <5>1. k - 1 = i
          BY <4>1, <3>2
        <5>2. /\ S[i] + e \in 1 .. S[i] + Len(F[m]) /\ ~(S[i] + e <= S[i])
              /\ (S[i] + e) - S[i] = e
          <6> DEFINE x == S[i]
                     y == Len(F[m])
          <6>1. x \in Nat /\ y \in Nat /\ e \in 1 .. y
            BY <4>1, <3>4, <3>5
          <6> HIDE DEF x, y
          <6>2. x + e \in 1 .. x + y /\ ~(x + e <= x) /\ (x + e) - x = e
            BY <6>1
          <6>3. QED BY <6>2 DEF x, y
        <5>3. f[m][S[i] + e] = F[m][(S[i] + e) - S[i]]
          BY <5>2, <3>5
        <5>4. QED BY <4>1, <5>1, <5>2, <5>3, <3>4
      <4>2. CASE k # m
        <5>1. k \in 1 .. i
          BY <4>2, <3>2
        <5>2. S[k - 1] + e \in 1 .. S[i] /\ f[i][S[k - 1] + e] = F[k][e]
          BY <5>1, <3>3 DEF Joined
        <5>3. S[k - 1] + e \in 1 .. S[i] + Len(F[m]) /\ S[k - 1] + e <= S[i]
          <6> DEFINE x == S[i]
                     y == Len(F[m])
                     z == S[k - 1] + e
          <6>1. x \in Nat /\ y \in Nat /\ z \in 1 .. x
            BY <5>2, <3>4, <3>5
          <6> HIDE DEF x, y, z
          <6>2. z \in 1 .. x + y /\ z <= x
            BY <6>1
          <6>3. QED BY <6>2 DEF x, y, z
        <5>4. QED BY <5>2, <5>3, <3>4, <3>5
      <4>3. QED BY <4>1, <4>2
    <3>7. Joined(f[m], F, m, S)
      <4>1. IsSeq(f[m]) /\ Len(f[m]) = S[m] /\ S[m] \in Nat
        BY <3>4, <3>5
      <4>2. QED BY <4>1, <3>6 DEF Joined
    <3>8. QED BY <3>7 DEF m
  <2> HIDE DEF T
  <2>4. \A j \in Nat : j \in T
    BY <2>2, <2>3, SetInduction
  <2>5. n - 1 \in Nat /\ (n - 1) + 1 = n
    BY <1>3
  <2>6. Joined(f[(n - 1) + 1], F, (n - 1) + 1, S)
    BY <2>4, <2>5 DEF T
  <2>7. QED BY <2>1, <2>5, <2>6
<1>4. QED BY <1>2, <1>3

\* The same for parts of one length.
PartsAre(F, n, w) ==
  F = [k \in 1 .. n |-> F[k]] /\ \A k \in 1 .. n : IsSeq(F[k]) /\ Len(F[k]) = w

InTurn(s, F, n, w) ==
  /\ IsSeq(s) /\ Len(s) = n * w
  /\ \A k \in 1 .. n : \A e \in 1 .. w : s[(k - 1) * w + e] = F[k][e]

\* A sequence is flattened parts if it has their elements in turn.
LEMMA FlattenEqual ==
  ASSUME NEW n \in Nat, NEW F, NEW w \in Nat, PartsAre(F, n, w)
  PROVE  InTurn(FlattenSeq(F), F, n, w)
<1> DEFINE S == [k \in 0 .. n |-> k * w]
<1>1. LengthsAre(F, n, S)
  <2>1. ASSUME NEW k \in 1 .. n
        PROVE  S[k - 1] \in Nat /\ S[k] = S[k - 1] + w
    <3>1. k \in 0 .. n /\ k - 1 \in 0 .. n /\ (k - 1) * w \in Nat
      OBVIOUS
    <3>2. k * w = (k - 1) * w + w
      BY <3>1
    <3>3. QED BY <3>1, <3>2
  <2>2. S[0] = 0
    OBVIOUS
  <2> HIDE DEF S
  <2>3. QED BY <2>1, <2>2 DEF LengthsAre, PartsAre
<1>2. Joined(FlattenSeq(F), F, n, S)
  <2> HIDE DEF S
  <2>1. QED BY <1>1, FlattenAt
<1>3. S[n] = n * w /\ \A k \in 1 .. n : S[k - 1] = (k - 1) * w
  OBVIOUS
<1> HIDE DEF S
<1>4. QED BY <1>2, <1>3 DEF Joined, InTurn, PartsAre


-----------------------------------------------------------------------------
(* The order of the fields. *)

\* The channels of a block.
ChannelsOK(channels) ==
  /\ channels \in Seq(Channels) /\ channels # << >>
  /\ \A c \in DOMAIN channels : ValidChannel(channels[c])

\* The channels of a block.
LEMMA ChannelsAre ==
  ASSUME NEW channels, ChannelsOK(channels)
  PROVE  /\ DOMAIN channels = 1 .. Len(channels) /\ Len(channels) \in Nat \ {0}
         /\ \A c \in 1 .. Len(channels) :
              /\ channels[c] \in Channels /\ ValidChannel(channels[c])
              /\ channels[c].elements \in Nat \ {0}
<1>1. channels \in Seq(Channels) /\ channels # << >>
  BY DEF ChannelsOK
<1>2. DOMAIN channels = 1 .. Len(channels) /\ Len(channels) \in Nat /\ Len(channels) # 0
  BY <1>1
<1>3. \A c \in 1 .. Len(channels) : channels[c] \in Channels /\ ValidChannel(channels[c])
  BY <1>1, <1>2 DEF ChannelsOK
<1>4. \A c \in 1 .. Len(channels) : channels[c].elements \in Nat \ {0}
  BY <1>3 DEF ValidChannel
<1>5. QED BY <1>2, <1>3, <1>4

\* The lanes where the channels start.
LEMMA Starts ==
  ASSUME NEW channels, ChannelsOK(channels)
  PROVE  /\ Start(channels, 1) = 0
         /\ \A c \in 1 .. Len(channels) :
              /\ Start(channels, c) \in Nat
              /\ Start(channels, c + 1) = Start(channels, c) + channels[c].elements
         /\ LaneCount(channels) \in Nat \ {0}
         /\ \A c \in 1 .. Len(channels) + 1, d \in 1 .. Len(channels) + 1 :
              c <= d => Start(channels, c) <= Start(channels, d)
         /\ \A place \in Nat : place < LaneCount(channels) =>
              \E c \in 1 .. Len(channels) :
                Start(channels, c) <= place /\ place < Start(channels, c + 1)
<1> DEFINE n == Len(channels)
           w == [k \in DOMAIN channels |-> channels[k].elements]
<1>1. n \in Nat \ {0} /\ \A k \in 1 .. n : w[k] = channels[k].elements /\ w[k] \in Nat \ {0}
  BY ChannelsAre
<1>2. \A c : Start(channels, c) = Total(w, c - 1)
  BY DEF Start
<1> HIDE DEF w
<1>3. /\ \A m \in 0 .. n : Total(w, m) \in Nat
      /\ \A m \in 1 .. n : Total(w, m) = Total(w, m - 1) + w[m]
      /\ Total(w, 0) = 0
  BY <1>1, TotalIsNat
<1>4. Start(channels, 1) = 0
  BY <1>2, <1>3
<1>5. ASSUME NEW c \in 1 .. n
      PROVE  /\ Start(channels, c) \in Nat
             /\ Start(channels, c + 1) = Start(channels, c) + channels[c].elements
  <2>1. (c + 1) - 1 = c /\ c - 1 \in 0 .. n
    BY <1>1
  <2>2. Start(channels, c + 1) = Total(w, c) /\ Start(channels, c) = Total(w, c - 1)
    BY <1>2, <2>1
  <2>3. QED BY <1>1, <1>3, <2>1, <2>2
<1>6. ASSUME NEW c \in 1 .. n + 1, NEW d \in 1 .. n + 1, c <= d
      PROVE  Start(channels, c) <= Start(channels, d)
  <2>1. c - 1 \in 0 .. n /\ d - 1 \in 0 .. n /\ c - 1 <= d - 1
    BY <1>1, <1>6
  <2>2. Total(w, c - 1) <= Total(w, d - 1)
    BY <1>1, <2>1, TotalGrows
  <2>3. QED BY <1>2, <2>2
<1>7. LaneCount(channels) = Total(w, n)
  <2>1. (n + 1) - 1 = n
    BY <1>1
  <2>2. QED BY <1>2, <2>1 DEF LaneCount
<1>8. LaneCount(channels) \in Nat \ {0}
  <2>1. /\ Total(w, n) = Total(w, n - 1) + w[n] /\ Total(w, n) \in Nat
        /\ Total(w, n - 1) \in Nat /\ w[n] \in Nat \ {0}
    <3>1. n \in 1 .. n /\ n \in 0 .. n /\ n - 1 \in 0 .. n
      BY <1>1
    <3>2. QED BY <3>1, <1>1, <1>3
  <2>2. QED BY <2>1, <1>7
<1>9. ASSUME NEW place \in Nat, place < LaneCount(channels)
      PROVE  \E c \in 1 .. n :
               Start(channels, c) <= place /\ place < Start(channels, c + 1)
  <2>1. PICK c \in 1 .. n : Total(w, c - 1) <= place /\ place < Total(w, c)
    BY <1>1, <1>7, <1>9, PlaceInTotal
  <2>2. (c + 1) - 1 = c
    BY <1>1
  <2>3. Start(channels, c) <= place /\ place < Start(channels, c + 1)
    BY <1>2, <2>1, <2>2
  <2>4. QED BY <2>3
<1>10. QED BY <1>4, <1>5, <1>6, <1>8, <1>9

\* The channel of a place is the one whose places it is among.
LEMMA ChannelAtIs ==
  ASSUME NEW channels, ChannelsOK(channels), NEW scale \in Nat \ {0},
         NEW place \in Nat, NEW c \in 1 .. Len(channels),
         scale * Start(channels, c) <= place,
         place < scale * Start(channels, c + 1)
  PROVE  ChannelAt(channels, place, scale) = c
<1> DEFINE n == Len(channels)
           In(d) == /\ scale * Start(channels, d) <= place
                    /\ place < scale * Start(channels, d + 1)
<1>1. DOMAIN channels = 1 .. n /\ n \in Nat
  BY ChannelsAre
<1>2. \A d \in 1 .. n + 1 : Start(channels, d) \in Nat
  <2> SUFFICES ASSUME NEW d \in 1 .. n + 1 PROVE Start(channels, d) \in Nat
    OBVIOUS
  <2>1. CASE d = n + 1
    BY <2>1, Starts DEF LaneCount
  <2>2. CASE d # n + 1
    <3>1. d \in 1 .. n
      BY <1>1, <2>2
    <3>2. QED BY <3>1, Starts
  <2>3. QED BY <2>1, <2>2
<1>3. ASSUME NEW d \in 1 .. n, NEW e \in 1 .. n, In(d), In(e), d < e PROVE FALSE
  <2>1. d + 1 \in 1 .. n + 1 /\ e \in 1 .. n + 1 /\ d + 1 <= e
    BY <1>1, <1>3
  <2>2. Start(channels, d + 1) <= Start(channels, e)
    BY <2>1, Starts
  <2> DEFINE a == Start(channels, d + 1)
             b == Start(channels, e)
  <2>3. a \in Nat /\ b \in Nat /\ a <= b
    BY <1>2, <2>1, <2>2
  <2> HIDE DEF a, b
  <2>4. scale * a <= scale * b /\ scale * a \in Nat /\ scale * b \in Nat
    BY <2>3, ProductGrows
  <2>5. place < scale * a /\ scale * b <= place
    BY <1>3 DEF a, b
  <2>6. QED BY <2>4, <2>5
<1>4. In(c)
  OBVIOUS
<1>5. ASSUME NEW d \in 1 .. n, In(d) PROVE d = c
  <2>1. ~(d < c) /\ ~(c < d)
    BY <1>3, <1>4, <1>5
  <2>2. QED BY <2>1, <1>1
<1>6. ChannelAt(channels, place, scale) = CHOOSE d \in 1 .. n : In(d)
  BY <1>1 DEF ChannelAt
<1> HIDE DEF In
<1>7. QED BY <1>4, <1>5, <1>6


\* The fields of one channel in one sample.
FieldsOf(channels, s, c) ==
  [e \in 1 .. channels[c].elements |->
     [sample |-> s - 1, channel |-> c, lane |-> Start(channels, c) + e - 1]]

\* The enumeration is made of the fields of the channels.
LEMMA EnumerationParts ==
  ASSUME NEW b, NEW n \in Nat
  PROVE  EnumerateOrder(b, n) =
           IF b.layout = "interleaved"
             THEN FlattenSeq([s \in 1 .. n |->
                    FlattenSeq([c \in DOMAIN b.channels |-> FieldsOf(b.channels, s, c)])])
             ELSE FlattenSeq([c \in DOMAIN b.channels |->
                    FlattenSeq([s \in 1 .. n |-> FieldsOf(b.channels, s, c)])])
  BY DEF EnumerateOrder, FieldsOf

\* The fields of a channel in one sample.
LEMMA FieldsAreSeq ==
  ASSUME NEW channels, ChannelsOK(channels), NEW s, NEW c \in 1 .. Len(channels)
  PROVE  /\ IsSeq(FieldsOf(channels, s, c))
         /\ Len(FieldsOf(channels, s, c)) = channels[c].elements
         /\ \A e \in 1 .. channels[c].elements : FieldsOf(channels, s, c)[e] =
              [sample |-> s - 1, channel |-> c, lane |-> Start(channels, c) + e - 1]
<1> DEFINE f == FieldsOf(channels, s, c)
<1>1. channels[c].elements \in Nat
  BY ChannelsAre
<1>2. f = [e \in 1 .. channels[c].elements |-> f[e]]
  BY DEF FieldsOf
<1>3. \A e \in 1 .. channels[c].elements : f[e] =
        [sample |-> s - 1, channel |-> c, lane |-> Start(channels, c) + e - 1]
  BY DEF FieldsOf
<1> HIDE DEF f
<1>4. IsSeq(f) /\ Len(f) = channels[c].elements
  BY <1>1, <1>2, IsSeqFunction
<1>5. QED BY <1>3, <1>4 DEF f

\* One sample of an interleaved block: the channels one after the other.
LEMMA SampleParts ==
  ASSUME NEW channels, ChannelsOK(channels), NEW s, NEW g,
         g = FlattenSeq([c \in DOMAIN channels |-> FieldsOf(channels, s, c)])
  PROVE  /\ IsSeq(g) /\ Len(g) = LaneCount(channels)
         /\ \A c \in 1 .. Len(channels) : \A e \in 1 .. channels[c].elements :
              g[Start(channels, c) + e] =
                [sample |-> s - 1, channel |-> c, lane |-> Start(channels, c) + e - 1]
<1> DEFINE n == Len(channels)
           F == [c \in 1 .. n |-> FieldsOf(channels, s, c)]
           S == [k \in 0 .. n |-> Start(channels, k + 1)]
<1>1. DOMAIN channels = 1 .. n /\ n \in Nat
      /\ \A c \in 1 .. n : channels[c].elements \in Nat
  BY ChannelsAre
<1>2. /\ F = [c \in 1 .. n |-> F[c]]
      /\ \A c \in 1 .. n : F[c] = FieldsOf(channels, s, c)
  OBVIOUS
<1>3. /\ S[0] = 0 /\ S[n] = LaneCount(channels)
      /\ \A k \in 1 .. n : /\ S[k - 1] = Start(channels, k) /\ S[k - 1] \in Nat
                           /\ S[k] = S[k - 1] + channels[k].elements
  <2>1. S[0] = Start(channels, 1)
    BY <1>1
  <2>2. S[n] = LaneCount(channels)
    BY <1>1 DEF LaneCount
  <2>3. ASSUME NEW k \in 1 .. n
        PROVE  S[k - 1] = Start(channels, k) /\ S[k] = Start(channels, k + 1)
    <3>1. k - 1 \in 0 .. n /\ k \in 0 .. n /\ (k - 1) + 1 = k
      BY <1>1
    <3>2. QED BY <3>1
  <2> HIDE DEF S
  <2>4. QED BY <2>1, <2>2, <2>3, Starts
<1>4. g = FlattenSeq(F)
  BY <1>1
<1> HIDE DEF F, S
<1>5. LengthsAre(F, n, S)
  BY <1>2, <1>3, FieldsAreSeq DEF LengthsAre
<1>6. Joined(g, F, n, S)
  BY <1>1, <1>4, <1>5, FlattenAt
<1>7. IsSeq(g) /\ Len(g) = LaneCount(channels)
  BY <1>3, <1>6 DEF Joined
<1>8. ASSUME NEW c \in 1 .. n, NEW e \in 1 .. channels[c].elements
      PROVE  g[Start(channels, c) + e] =
               [sample |-> s - 1, channel |-> c, lane |-> Start(channels, c) + e - 1]
  <2>1. Len(F[c]) = channels[c].elements /\ F[c] = FieldsOf(channels, s, c)
    BY <1>2, FieldsAreSeq
  <2>2. g[S[c - 1] + e] = F[c][e]
    BY <2>1, <1>6 DEF Joined
  <2>3. QED BY <2>1, <2>2, <1>3, FieldsAreSeq
<1>9. QED BY <1>7, <1>8

\* Where a place below the lane count is.
LEMMA LaneOfPlace ==
  ASSUME NEW channels, ChannelsOK(channels), NEW within \in Nat,
         within < LaneCount(channels)
  PROVE  \E c \in 1 .. Len(channels) : \E e \in 1 .. channels[c].elements :
           /\ within = Start(channels, c) + e - 1 /\ within + 1 = Start(channels, c) + e
           /\ ChannelAt(channels, within, 1) = c
<1>1. PICK c \in 1 .. Len(channels) :
        Start(channels, c) <= within /\ within < Start(channels, c + 1)
  BY Starts
<1> DEFINE a == Start(channels, c)
           z == Start(channels, c + 1)
           e == within - a + 1
<1>2. a \in Nat /\ z = a + channels[c].elements /\ channels[c].elements \in Nat
  BY Starts, ChannelsAre
<1>3. 1 * a <= within /\ within < 1 * z
  BY <1>1, <1>2
<1>4. ChannelAt(channels, within, 1) = c
  <2>1. 1 \in Nat \ {0}
    OBVIOUS
  <2>2. QED BY <1>3, <2>1, ChannelAtIs
<1>5. e \in 1 .. channels[c].elements /\ within = a + e - 1 /\ within + 1 = a + e
  <2> DEFINE n == channels[c].elements
  <2>1. a \in Nat /\ n \in Nat /\ within \in Nat /\ a <= within /\ within < a + n
    BY <1>2, <1>3
  <2> HIDE DEF a, n
  <2>2. within - a + 1 \in 1 .. n
    BY <2>1
  <2>3. within = a + (within - a + 1) - 1 /\ within + 1 = a + (within - a + 1)
    BY <2>1
  <2>4. QED BY <2>2, <2>3 DEF n
<1>6. QED BY <1>4, <1>5

\* In an interleaved block the two orders are the same.
LEMMA InterleavedIsEnumerated ==
  ASSUME NEW channels, ChannelsOK(channels), NEW n \in Nat
  PROVE  [p \in 1 .. n * LaneCount(channels) |-> Interleaved(channels, p - 1)]
           = FlattenSeq([s \in 1 .. n |->
               FlattenSeq([c \in DOMAIN channels |-> FieldsOf(channels, s, c)])])
<1> DEFINE L == LaneCount(channels)
           G(s) == FlattenSeq([c \in DOMAIN channels |-> FieldsOf(channels, s, c)])
           F == [s \in 1 .. n |-> G(s)]
           flat == FlattenSeq(F)
           lhs == [p \in 1 .. n * L |-> Interleaved(channels, p - 1)]
<1>1. L \in Nat \ {0}
  BY Starts
<1>2. \A s \in 1 .. n : IsSeq(G(s)) /\ Len(G(s)) = L
  <2> TAKE s \in 1 .. n
  <2> DEFINE g == G(s)
  <2>1. g = G(s)
    OBVIOUS
  <2>2. IsSeq(g) /\ Len(g) = L
    <3> HIDE DEF g
    <3>1. QED BY <2>1, SampleParts
  <2>3. QED BY <2>2
<1>3. F = [s \in 1 .. n |-> F[s]] /\ \A s \in 1 .. n : F[s] = G(s)
  <2> HIDE DEF G
  <2>1. QED OBVIOUS
<1> HIDE DEF F
<1>4. InTurn(flat, F, n, L)
  <2>1. \A s \in 1 .. n : IsSeq(F[s]) /\ Len(F[s]) = L
    <3> HIDE DEF G, L
    <3>1. QED BY <1>2, <1>3
  <2>2. L \in Nat
    BY <1>1
  <2>3. PartsAre(F, n, L)
    BY <1>3, <2>1 DEF PartsAre
  <2> HIDE DEF G, L
  <2>4. QED BY <2>2, <2>3, FlattenEqual
<1>5. ASSUME NEW p \in 1 .. n * L PROVE lhs[p] = flat[p]
  <2> DEFINE q == (p - 1) \div L
             r == (p - 1) % L
  <2>1. p - 1 \in Nat /\ q \in Nat /\ r \in 0 .. L - 1 /\ p - 1 = L * q + r
    <3>1. n * L \in Nat
      BY <1>1
    <3>2. p - 1 \in Nat
      BY <3>1
    <3> HIDE DEF L
    <3>3. QED BY <3>2, <1>1, DivisionDef
  <2> HIDE DEF q, r
  <2>2. q + 1 \in 1 .. n
    <3>1. SUFFICES ASSUME q >= n PROVE FALSE
      BY <2>1
    <3> HIDE DEF L
    <3>2. L * n <= L * q
      BY <3>1, <2>1, <1>1, ProductGrows
    <3>3. L * n = n * L /\ L * n \in Nat /\ L * q \in Nat
      BY <1>1, <2>1
    <3>4. QED BY <3>2, <3>3, <2>1
  <2>3. PICK c \in 1 .. Len(channels) : \E e \in 1 .. channels[c].elements :
          /\ r = Start(channels, c) + e - 1 /\ r + 1 = Start(channels, c) + e
          /\ ChannelAt(channels, r, 1) = c
    <3>1. r \in Nat /\ r < LaneCount(channels)
      BY <2>1, <1>1
    <3>2. QED BY <3>1, LaneOfPlace
  <2>4. PICK e \in 1 .. channels[c].elements :
          /\ r = Start(channels, c) + e - 1 /\ r + 1 = Start(channels, c) + e
          /\ ChannelAt(channels, r, 1) = c
    BY <2>3
  <2>5. flat[((q + 1) - 1) * L + (r + 1)] = F[q + 1][r + 1]
    <3>1. r + 1 \in 1 .. L
      BY <2>1, <1>1
    <3> HIDE DEF L, flat
    <3>2. QED BY <3>1, <2>2, <1>4 DEF InTurn
  <2>6. ((q + 1) - 1) * L + (r + 1) = p
    <3> HIDE DEF L
    <3>1. (q + 1) - 1 = q /\ q * L = L * q /\ q * L \in Nat
      BY <2>1, <1>1
    <3>2. q * L + (r + 1) = p
      BY <3>1, <2>1
    <3>3. QED BY <3>1, <3>2
  <2>7. F[q + 1][r + 1] =
          [sample |-> (q + 1) - 1, channel |-> c, lane |-> Start(channels, c) + e - 1]
    <3> DEFINE g == G(q + 1)
    <3>1. g = G(q + 1)
      OBVIOUS
    <3>2. g[Start(channels, c) + e] =
            [sample |-> (q + 1) - 1, channel |-> c, lane |-> Start(channels, c) + e - 1]
      <4> HIDE DEF g
      <4>1. QED BY <3>1, SampleParts
    <3>3. F[q + 1] = g
      BY <1>3, <2>2
    <3> HIDE DEF g
    <3>4. QED BY <3>2, <3>3, <2>4
  <2>8. Interleaved(channels, p - 1) = [sample |-> q, channel |-> c, lane |-> r]
    BY <2>4 DEF Interleaved, q, r
  <2>9. (q + 1) - 1 = q
    BY <2>1
  <2>10. flat[p] = [sample |-> q, channel |-> c, lane |-> r]
    <3> HIDE DEF flat, L
    <3>1. flat[p] = F[q + 1][r + 1]
      BY <2>5, <2>6
    <3>2. QED BY <3>1, <2>4, <2>7, <2>9
  <2>11. QED BY <2>8, <2>10
<1>6. flat = [p \in 1 .. n * L |-> flat[p]]
  <2> HIDE DEF flat, L
  <2>1. QED BY <1>4 DEF IsSeq, InTurn
<1>7. lhs = flat
  <2> HIDE DEF flat, L
  <2>1. lhs = [p \in 1 .. n * L |-> lhs[p]]
    OBVIOUS
  <2> HIDE DEF lhs
  <2>2. QED BY <1>5, <1>6, <2>1
<1>8. QED BY <1>7 DEF F


\* One channel of a planar block: its samples one after the other.
LEMMA ChannelParts ==
  ASSUME NEW channels, ChannelsOK(channels), NEW n \in Nat,
         NEW c \in 1 .. Len(channels), NEW g,
         g = FlattenSeq([s \in 1 .. n |-> FieldsOf(channels, s, c)])
  PROVE  /\ IsSeq(g) /\ Len(g) = n * channels[c].elements
         /\ \A s \in 1 .. n : \A e \in 1 .. channels[c].elements :
              g[(s - 1) * channels[c].elements + e] =
                [sample |-> s - 1, channel |-> c, lane |-> Start(channels, c) + e - 1]
<1> DEFINE F == [s \in 1 .. n |-> FieldsOf(channels, s, c)]
           w == channels[c].elements
<1>1. w \in Nat
  BY ChannelsAre
<1>2. /\ F = [s \in 1 .. n |-> F[s]]
      /\ \A s \in 1 .. n : F[s] = FieldsOf(channels, s, c)
  OBVIOUS
<1>3. g = FlattenSeq(F)
  OBVIOUS
<1> HIDE DEF F
<1>4. PartsAre(F, n, w)
  BY <1>2, FieldsAreSeq DEF PartsAre
<1>5. InTurn(g, F, n, w)
  <2> HIDE DEF w
  <2>1. QED BY <1>1, <1>3, <1>4, FlattenEqual
<1>6. ASSUME NEW s \in 1 .. n, NEW e \in 1 .. w
      PROVE  g[(s - 1) * w + e] =
               [sample |-> s - 1, channel |-> c, lane |-> Start(channels, c) + e - 1]
  <2>1. g[(s - 1) * w + e] = F[s][e]
    <3> HIDE DEF w
    <3>1. QED BY <1>5 DEF InTurn
  <2>2. F[s][e] = FieldsOf(channels, s, c)[e]
    BY <1>2
  <2> HIDE DEF F
  <2>3. QED BY <2>1, <2>2, FieldsAreSeq
<1>7. IsSeq(g) /\ Len(g) = n * w
  BY <1>5 DEF InTurn
<1>8. QED BY <1>6, <1>7

\* Where a position of a planar block is.
LEMMA PlaceOfPosition ==
  ASSUME NEW channels, ChannelsOK(channels), NEW n \in Nat, NEW place \in Nat,
         place < n * LaneCount(channels)
  PROVE  \E c \in 1 .. Len(channels) : \E s \in 1 .. n :
           \E e \in 1 .. channels[c].elements :
             /\ place + 1 = n * Start(channels, c)
                              + ((s - 1) * channels[c].elements + e)
             /\ (s - 1) * channels[c].elements + e \in 1 .. n * channels[c].elements
             /\ Planar(channels, n, place) =
                  [sample |-> s - 1, channel |-> c, lane |-> Start(channels, c) + e - 1]
<1> DEFINE L == LaneCount(channels)
           q == place \div n
           r == place % n
<1>1. n \in Nat \ {0} /\ L \in Nat \ {0}
  <2>1. L \in Nat \ {0}
    BY Starts
  <2>2. n # 0
    <3>1. 0 * L = 0
      BY <2>1
    <3>2. QED BY <3>1
  <2>3. QED BY <2>1, <2>2
<1>2. q \in Nat /\ r \in 0 .. n - 1 /\ place = n * q + r
  BY <1>1, DivisionDef
<1> HIDE DEF q, r
<1>3. q < L
  <2>1. SUFFICES ASSUME q >= L PROVE FALSE
    BY <1>1, <1>2
  <2>2. place < n * L
    OBVIOUS
  <2> HIDE DEF L
  <2>3. n * L <= n * q
    BY <2>1, <1>1, <1>2, ProductGrows
  <2>4. n * L \in Nat /\ n * q \in Nat
    BY <1>1, <1>2
  <2>5. QED BY <2>2, <2>3, <2>4, <1>2
<1>4. PICK c \in 1 .. Len(channels) :
        Start(channels, c) <= q /\ q < Start(channels, c + 1)
  BY <1>2, <1>3, Starts
<1> DEFINE a == Start(channels, c)
           z == Start(channels, c + 1)
           w == channels[c].elements
           rel == place - n * a
<1>5. a \in Nat /\ z = a + w /\ w \in Nat \ {0} /\ z \in Nat /\ a <= q /\ q + 1 <= z
  BY <1>2, <1>4, Starts, ChannelsAre
<1>6. n * a <= place /\ place < n * z /\ rel \in Nat /\ rel < n * w
  <2> HIDE DEF a, z, w
  <2>1. n * a <= n * q /\ n * (q + 1) <= n * z
    BY <1>1, <1>2, <1>5, ProductGrows
  <2>2. /\ n * (q + 1) = n * q + n /\ n * q \in Nat /\ n * a \in Nat
        /\ n * z = n * a + n * w /\ n * w \in Nat
    BY <1>1, <1>2, <1>5
  <2>3. QED BY <2>1, <2>2, <1>1, <1>2
<1>7. ChannelAt(channels, place, n) = c
  BY <1>1, <1>6, ChannelAtIs
<1> DEFINE s == (rel \div w) + 1
           e == (rel % w) + 1
<1>8. /\ s - 1 = rel \div w /\ e - 1 = rel % w /\ e \in 1 .. w /\ s - 1 \in Nat
      /\ rel = w * (s - 1) + (e - 1) /\ s \in Nat /\ e \in Nat
  <2> DEFINE x == rel \div w
             y == rel % w
  <2> HIDE DEF rel, w
  <2>1. x \in Nat /\ y \in 0 .. w - 1 /\ rel = w * x + y
    BY <1>5, <1>6, DivisionDef
  <2> HIDE DEF x, y
  <2>2. (x + 1) - 1 = x /\ (y + 1) - 1 = y /\ y + 1 \in 1 .. w
        /\ x + 1 \in Nat /\ y + 1 \in Nat
    BY <2>1, <1>5
  <2>3. QED BY <2>1, <2>2 DEF x, y
<1>9. Planar(channels, n, place) = [sample |-> s - 1, channel |-> c, lane |-> a + e - 1]
  <2>1. Planar(channels, n, place) =
          [sample |-> rel \div w, channel |-> c, lane |-> a + (rel % w)]
    BY <1>7 DEF Planar
  <2>2. a + (rel % w) = a + e - 1
    <3>1. e - 1 = rel % w /\ a \in Nat /\ e \in Nat
      BY <1>5, <1>8
    <3> HIDE DEF a, e, rel, w
    <3>2. QED BY <3>1
  <2>3. rel \div w = s - 1
    BY <1>8
  <2> HIDE DEF a, e, s, rel, w
  <2>4. QED BY <2>1, <2>2, <2>3
<1>10. s \in 1 .. n
  <2> HIDE DEF a, e, s, rel, w
  <2>1. SUFFICES ASSUME s - 1 >= n PROVE FALSE
    BY <1>1, <1>8
  <2>2. w * n <= w * (s - 1)
    BY <2>1, <1>1, <1>5, <1>8, ProductGrows
  <2>3. w * n = n * w /\ n * w \in Nat /\ w * (s - 1) \in Nat
    BY <1>1, <1>5, <1>8
  <2>4. QED BY <2>2, <2>3, <1>6, <1>8
<1>11. /\ place + 1 = n * a + ((s - 1) * w + e)
       /\ (s - 1) * w + e \in 1 .. n * w
  <2>1. rel = place - n * a /\ n * a \in Nat /\ n * w \in Nat
    BY <1>1, <1>5
  <2> HIDE DEF a, e, s, rel, w
  <2>2. (s - 1) * w = w * (s - 1) /\ (s - 1) * w \in Nat
    BY <1>5, <1>8
  <2>3. (s - 1) * w + e = rel + 1
    BY <2>2, <1>8
  <2>4. QED BY <2>1, <2>3, <1>6
<1> HIDE DEF s, e
<1>12. QED BY <1>8, <1>9, <1>10, <1>11

\* In a planar block the two orders are the same.
LEMMA PlanarIsEnumerated ==
  ASSUME NEW channels, ChannelsOK(channels), NEW n \in Nat
  PROVE  [p \in 1 .. n * LaneCount(channels) |-> Planar(channels, n, p - 1)]
           = FlattenSeq([c \in DOMAIN channels |->
               FlattenSeq([s \in 1 .. n |-> FieldsOf(channels, s, c)])])
<1> DEFINE L == LaneCount(channels)
           m == Len(channels)
           G(c) == FlattenSeq([s \in 1 .. n |-> FieldsOf(channels, s, c)])
           F == [c \in 1 .. m |-> G(c)]
           S == [k \in 0 .. m |-> n * Start(channels, k + 1)]
           flat == FlattenSeq(F)
           lhs == [p \in 1 .. n * L |-> Planar(channels, n, p - 1)]
<1>1. DOMAIN channels = 1 .. m /\ m \in Nat /\ L \in Nat
      /\ \A c \in 1 .. m : channels[c].elements \in Nat
  BY ChannelsAre, Starts
<1>2. \A c \in 1 .. m :
        /\ IsSeq(G(c)) /\ Len(G(c)) = n * channels[c].elements
        /\ \A s \in 1 .. n : \A e \in 1 .. channels[c].elements :
             G(c)[(s - 1) * channels[c].elements + e] =
               [sample |-> s - 1, channel |-> c, lane |-> Start(channels, c) + e - 1]
  <2> TAKE c \in 1 .. m
  <2> DEFINE g == G(c)
  <2>1. g = G(c)
    OBVIOUS
  <2>2. /\ IsSeq(g) /\ Len(g) = n * channels[c].elements
        /\ \A s \in 1 .. n : \A e \in 1 .. channels[c].elements :
             g[(s - 1) * channels[c].elements + e] =
               [sample |-> s - 1, channel |-> c, lane |-> Start(channels, c) + e - 1]
    <3> HIDE DEF g
    <3>1. QED BY <2>1, ChannelParts
  <2>3. QED BY <2>2
<1>3. F = [c \in 1 .. m |-> F[c]] /\ \A c \in 1 .. m : F[c] = G(c)
  <2> HIDE DEF G
  <2>1. QED OBVIOUS
<1>4. /\ S[0] = 0 /\ S[m] = n * L
      /\ \A k \in 1 .. m : /\ S[k - 1] = n * Start(channels, k) /\ S[k - 1] \in Nat
                           /\ S[k] = S[k - 1] + n * channels[k].elements
  <2>1. S[0] = 0
    <3>1. S[0] = n * Start(channels, 1)
      BY <1>1
    <3>2. QED BY <3>1, Starts
  <2>2. S[m] = n * L
    BY <1>1 DEF LaneCount
  <2>3. ASSUME NEW k \in 1 .. m
        PROVE  /\ S[k - 1] = n * Start(channels, k) /\ S[k - 1] \in Nat
               /\ S[k] = S[k - 1] + n * channels[k].elements
    <3>1. k - 1 \in 0 .. m /\ k \in 0 .. m /\ (k - 1) + 1 = k
      BY <1>1
    <3>2. S[k - 1] = n * Start(channels, k) /\ S[k] = n * Start(channels, k + 1)
      BY <3>1
    <3> DEFINE a == Start(channels, k)
               w == channels[k].elements
    <3>3. a \in Nat /\ w \in Nat /\ Start(channels, k + 1) = a + w
      BY <1>1, Starts
    <3> HIDE DEF a, w
    <3>4. n * (a + w) = n * a + n * w /\ n * a \in Nat
      BY <3>3
    <3> HIDE DEF S
    <3>5. QED BY <3>2, <3>3, <3>4 DEF a, w
  <2>4. QED BY <2>1, <2>2, <2>3
<1> HIDE DEF F, S
<1>5. LengthsAre(F, m, S)
  <2> HIDE DEF G
  <2>1. QED BY <1>2, <1>3, <1>4 DEF LengthsAre
<1>6. Joined(flat, F, m, S)
  BY <1>1, <1>5, FlattenAt
<1>7. ASSUME NEW p \in 1 .. n * L PROVE lhs[p] = flat[p]
  <2>1. n * L \in Nat /\ p - 1 \in Nat /\ p - 1 < n * L /\ (p - 1) + 1 = p
    <3>1. n * L \in Nat
      BY <1>1
    <3> HIDE DEF L
    <3>2. QED BY <3>1
  <2>2. PICK c \in 1 .. m : \E s \in 1 .. n : \E e \in 1 .. channels[c].elements :
          /\ (p - 1) + 1 = n * Start(channels, c) + ((s - 1) * channels[c].elements + e)
          /\ (s - 1) * channels[c].elements + e \in 1 .. n * channels[c].elements
          /\ Planar(channels, n, p - 1) =
               [sample |-> s - 1, channel |-> c, lane |-> Start(channels, c) + e - 1]
    BY <2>1, PlaceOfPosition
  <2>3. PICK s \in 1 .. n : \E e \in 1 .. channels[c].elements :
          /\ (p - 1) + 1 = n * Start(channels, c) + ((s - 1) * channels[c].elements + e)
          /\ (s - 1) * channels[c].elements + e \in 1 .. n * channels[c].elements
          /\ Planar(channels, n, p - 1) =
               [sample |-> s - 1, channel |-> c, lane |-> Start(channels, c) + e - 1]
    BY <2>2
  <2>4. PICK e \in 1 .. channels[c].elements :
          /\ (p - 1) + 1 = n * Start(channels, c) + ((s - 1) * channels[c].elements + e)
          /\ (s - 1) * channels[c].elements + e \in 1 .. n * channels[c].elements
          /\ Planar(channels, n, p - 1) =
               [sample |-> s - 1, channel |-> c, lane |-> Start(channels, c) + e - 1]
    BY <2>3
  <2> DEFINE x == (s - 1) * channels[c].elements + e
  <2>5. G(c)[x] = [sample |-> s - 1, channel |-> c, lane |-> Start(channels, c) + e - 1]
    <3> HIDE DEF G
    <3>1. QED BY <1>2
  <2>6. flat[S[c - 1] + x] = F[c][x]
    <3>1. x \in 1 .. Len(F[c])
      <4>1. F[c] = G(c) /\ Len(G(c)) = n * channels[c].elements
        BY <1>2, <1>3
      <4> HIDE DEF G
      <4>2. QED BY <4>1, <2>4
    <3> HIDE DEF x, flat
    <3>2. QED BY <3>1, <1>6 DEF Joined
  <2>7. S[c - 1] + x = p
    <3>1. S[c - 1] = n * Start(channels, c)
      BY <1>4
    <3> HIDE DEF x
    <3>2. QED BY <3>1, <2>1, <2>4 DEF x
  <2>8. lhs[p] = Planar(channels, n, p - 1)
    OBVIOUS
  <2>9. flat[p] = G(c)[x]
    <3> HIDE DEF G, flat, x
    <3>1. QED BY <1>3, <2>6, <2>7
  <2> HIDE DEF G, flat, x, lhs
  <2>10. QED BY <2>4, <2>5, <2>8, <2>9
<1>8. flat = [p \in 1 .. n * L |-> flat[p]]
  <2> HIDE DEF flat, L
  <2>1. Len(flat) = n * L /\ IsSeq(flat)
    BY <1>4, <1>6 DEF Joined
  <2>2. QED BY <2>1 DEF IsSeq
<1>9. lhs = flat
  <2> HIDE DEF flat, L
  <2>1. lhs = [p \in 1 .. n * L |-> lhs[p]]
    OBVIOUS
  <2> HIDE DEF lhs
  <2>2. QED BY <1>7, <1>8, <2>1
<1>10. F = [c \in DOMAIN channels |-> G(c)]
  BY <1>1 DEF F
<1>11. QED BY <1>9, <1>10

\* Both libraries visit the fields in one order.
LEMMA OneOrder ==
  ASSUME NEW b, ChannelsOK(b.channels), b.layout \in {"interleaved", "planar"},
         NEW n \in Nat
  PROVE  Order(b, n) = EnumerateOrder(b, n)
<1>1. CASE b.layout = "interleaved"
  <2>1. \A p : OrderItem(b, n, p) = Interleaved(b.channels, p)
    BY <1>1 DEF OrderItem
  <2>2. Order(b, n) =
          [p \in 1 .. n * LaneCount(b.channels) |-> Interleaved(b.channels, p - 1)]
    BY <2>1 DEF Order
  <2>3. QED BY <1>1, <2>2, InterleavedIsEnumerated, EnumerationParts
<1>2. CASE b.layout = "planar"
  <2>1. \A p : OrderItem(b, n, p) = Planar(b.channels, n, p)
    BY <1>2 DEF OrderItem
  <2>2. Order(b, n) =
          [p \in 1 .. n * LaneCount(b.channels) |-> Planar(b.channels, n, p - 1)]
    BY <2>1 DEF Order
  <2>3. EnumerateOrder(b, n) = FlattenSeq([c \in DOMAIN b.channels |->
          FlattenSeq([s \in 1 .. n |-> FieldsOf(b.channels, s, c)])])
    BY <1>2, EnumerationParts
  <2>4. QED BY <2>2, <2>3, PlanarIsEnumerated
<1>3. QED BY <1>1, <1>2


-----------------------------------------------------------------------------
(* What the codecs know of the record at hand. *)

\* The payload is what one of the libraries makes of the sample area.
StoredRight ==
  CASE block.profile = "none" -> stored = given
    [] block.profile = "numeric" ->
         /\ IntegersOfOneWidth(block)
         /\ \/ stored = Shuffled(NumericWords(ExtractRaw(order), order))
            \/ stored = Shuffled(NumericWords(ReadRawInOrder(netOrder), netOrder))
    [] block.profile = "bitwise" ->
         /\ FloatsOfOneWidth(block)
         /\ \/ stored = Shuffled(BitwiseWords(ExtractRaw(order), order))
            \/ stored = Shuffled(BitwiseWords(ReadRawInOrder(netOrder), netOrder))

Recorded ==
  /\ block \in Blocks /\ header = block.header
  /\ coding = "stored" \/ (reading = "waiting" /\ netReading = "waiting")
  /\ coding = "stored" => StoredRight

SamplesRead ==
  Samples(order, [s \in 1 .. count |-> block.first + s - 1], times,
    [p \in DOMAIN order |->
       MakeValue(Read(block, order, canonical, p), ChannelOf(order, p))])

\* Why the C reader is where it is.
ReadingRight ==
  /\ reading \in {"waiting", "decoded", "done", "failed"}
  /\ reading \in {"decoded", "done"} =>
       ~NetRefusesWords /\ canonical = NetDecodeTransforms(order)
  /\ reading = "done" =>
       /\ IndexesFit /\ TimesDone /\ FieldsValid(canonical, order)
       /\ samples = SamplesRead
  /\ reading = "failed" =>
       \/ NetRefusesWords \/ ~IndexesFit \/ timing = "refused"
       \/ ~FieldsValid(NetDecodeTransforms(order), order)

\* Why the .NET reader is where it is.
NetReadingRight ==
  /\ netReading \in {"waiting", "done", "failed"}
  /\ netReading = "done" =>
       /\ ~NetRefusesWords /\ netCanonical = NetDecodeTransforms(netOrder)
       /\ NetAccepts(netCanonical, netOrder)
       /\ netSamples = NetDecodeSamples(netCanonical, netOrder)
  /\ netReading = "failed" =>
       \/ NetRefusesWords
       \/ ~NetAccepts(NetDecodeTransforms(netOrder), netOrder)

RecordInv == Recorded /\ ReadingRight /\ NetReadingRight

\* A record keeps its header, its area and, once stored, its payload.
RecordKept == block' = block /\ header' = header /\ given' = given /\ stored' = stored

\* What depends on the record only is kept with it.
LEMMA PayloadKept ==
  ASSUME RecordKept
  PROVE  /\ StoredRight' <=> StoredRight
         /\ order' = order /\ netOrder' = netOrder
         /\ NetRefusesWords' <=> NetRefusesWords
         /\ IndexesFit' <=> IndexesFit
<1>1. StoredRight' <=> StoredRight
  BY DEF RecordKept, StoredRight, Shuffled, NumericWords, BitwiseWords, ExtractRaw,
    ReadRawInOrder, order, netOrder, count, ZigzagDelta, RawBefore, WidthOfAll, ChannelOf
<1>2. order' = order /\ netOrder' = netOrder
  BY DEF RecordKept, order, netOrder, count
<1>3. NetRefusesWords' <=> NetRefusesWords
  BY DEF RecordKept, NetRefusesWords, WordsFit, order, count, Unshuffled, WidthOfAll
<1>4. IndexesFit' <=> IndexesFit
  BY DEF RecordKept, IndexesFit, count
<1>5. QED BY <1>1, <1>2, <1>3, <1>4

\* So is what the transforms yield.
LEMMA AreaKept ==
  ASSUME RecordKept
  PROVE  /\ NetDecodeTransforms(order)' = NetDecodeTransforms(order)
         /\ NetDecodeTransforms(netOrder)' = NetDecodeTransforms(netOrder)
<1>1. NetDecodeTransforms(order)' = NetDecodeTransforms(order)
  BY DEF RecordKept, NetDecodeTransforms, order, count, NumericRaw, BitwiseRaw,
    Unshuffled, WidthOfAll, AddDelta
<1>2. NetDecodeTransforms(netOrder)' = NetDecodeTransforms(netOrder)
  BY DEF RecordKept, NetDecodeTransforms, netOrder, count, NumericRaw, BitwiseRaw,
    Unshuffled, WidthOfAll, AddDelta
<1>3. QED BY <1>1, <1>2

\* The invariant holds of a record before it is written.
LEMMA RecordedStarts == CodecsInit => RecordInv
<1> SUFFICES ASSUME CodecsInit PROVE RecordInv
  OBVIOUS
<1>1. /\ block \in Blocks /\ header = block.header /\ coding = "given"
      /\ reading = "waiting" /\ netReading = "waiting"
  BY DEF CodecsInit, CodecInit
<1>2. QED BY <1>1 DEF RecordInv, Recorded, ReadingRight, NetReadingRight

\* A writer stores the payload.
LEMMA WritesKeep ==
  ASSUME RecordInv, (WriteInC /\ UNCHANGED netCodecVars) \/ WriteInNet
  PROVE  RecordInv'
<1>1. /\ coding = "given" /\ block' = block /\ header' = header /\ given' = given
      /\ reading' = reading /\ netReading' = netReading
  BY DEF WriteInC, WriteInNet, netCodecVars, timeVars
<1>2. reading' = "waiting" /\ netReading' = "waiting"
  BY <1>1 DEF RecordInv, Recorded
<1>3. ReadingRight' /\ NetReadingRight'
  BY <1>2 DEF ReadingRight, NetReadingRight
<1>4. coding' = "stored" => StoredRight'
  <2>1. SUFFICES ASSUME coding' = "stored" PROVE StoredRight'
    OBVIOUS
  <2>2. \/ EncodePlain \/ EncodeNumeric \/ EncodeBitwise
        \/ NetEncodeNumeric \/ NetEncodeBitwise
    BY <2>1 DEF WriteInC, WriteInNet, RefuseProfile
  <2>3. CASE EncodePlain
    BY <2>3, <1>1 DEF EncodePlain, Keep, StoredRight
  <2>4. CASE EncodeNumeric
    <3>1. /\ block'.profile = "numeric" /\ IntegersOfOneWidth(block')
          /\ stored' = Shuffled(NumericWords(ExtractRaw(order), order))
      BY <2>4, <1>1 DEF EncodeNumeric, Keep
    <3>2. Shuffled(NumericWords(ExtractRaw(order), order))'
            = Shuffled(NumericWords(ExtractRaw(order), order))
      BY <1>1 DEF Shuffled, NumericWords, ExtractRaw, order, count, ZigzagDelta,
        RawBefore, WidthOfAll, ChannelOf
    <3>3. QED BY <3>1, <3>2 DEF StoredRight
  <2>5. CASE EncodeBitwise
    <3>1. /\ block'.profile = "bitwise" /\ FloatsOfOneWidth(block')
          /\ stored' = Shuffled(BitwiseWords(ExtractRaw(order), order))
      BY <2>5, <1>1 DEF EncodeBitwise, Keep
    <3>2. Shuffled(BitwiseWords(ExtractRaw(order), order))'
            = Shuffled(BitwiseWords(ExtractRaw(order), order))
      BY <1>1 DEF Shuffled, BitwiseWords, ExtractRaw, order, count,
        RawBefore, WidthOfAll, ChannelOf
    <3>3. QED BY <3>1, <3>2 DEF StoredRight
  <2>6. CASE NetEncodeNumeric
    <3>1. /\ block'.profile = "numeric" /\ IntegersOfOneWidth(block')
          /\ stored' = Shuffled(NumericWords(ReadRawInOrder(netOrder), netOrder))
      BY <2>6, <1>1 DEF NetEncodeNumeric, Keep
    <3>2. Shuffled(NumericWords(ReadRawInOrder(netOrder), netOrder))'
            = Shuffled(NumericWords(ReadRawInOrder(netOrder), netOrder))
      BY <1>1 DEF Shuffled, NumericWords, ReadRawInOrder, netOrder, count, ZigzagDelta,
        RawBefore, WidthOfAll, ChannelOf
    <3>3. QED BY <3>1, <3>2 DEF StoredRight
  <2>7. CASE NetEncodeBitwise
    <3>1. /\ block'.profile = "bitwise" /\ FloatsOfOneWidth(block')
          /\ stored' = Shuffled(BitwiseWords(ReadRawInOrder(netOrder), netOrder))
      BY <2>7, <1>1 DEF NetEncodeBitwise, Keep
    <3>2. Shuffled(BitwiseWords(ReadRawInOrder(netOrder), netOrder))'
            = Shuffled(BitwiseWords(ReadRawInOrder(netOrder), netOrder))
      BY <1>1 DEF Shuffled, BitwiseWords, ReadRawInOrder, netOrder, count,
        RawBefore, WidthOfAll, ChannelOf
    <3>3. QED BY <3>1, <3>2 DEF StoredRight
  <2>8. QED BY <2>2, <2>3, <2>4, <2>5, <2>6, <2>7
<1>5. Recorded'
  BY <1>1, <1>2, <1>4 DEF RecordInv, Recorded
<1>6. QED BY <1>3, <1>5 DEF RecordInv

\* What a reader does leaves the record and the other reader alone.
LEMMA RecordStays ==
  ASSUME RecordInv, RecordKept, coding' = coding,
         coding = "stored" \/ (reading' = reading /\ netReading' = netReading)
  PROVE  Recorded'
  BY PayloadKept DEF RecordInv, Recorded, RecordKept

\* The .NET reader stays right while others move.
LEMMA NetReadingStays ==
  ASSUME RecordInv, RecordKept, UNCHANGED netCodecVars
  PROVE  NetReadingRight'
<1>1. /\ netReading' = netReading /\ netCanonical' = netCanonical
      /\ netSamples' = netSamples
  BY DEF netCodecVars
<1>2. NetRefusesWords' <=> NetRefusesWords
  BY PayloadKept
<1>3. NetDecodeTransforms(netOrder)' = NetDecodeTransforms(netOrder)
  BY AreaKept
<1>4. NetAccepts(netCanonical, netOrder)' <=> NetAccepts(netCanonical, netOrder)
  BY <1>1 DEF RecordKept, NetAccepts, FieldsValid, NetTimeFits, netOrder, count, ChannelOf
<1>5. NetAccepts(NetDecodeTransforms(netOrder), netOrder)'
        <=> NetAccepts(NetDecodeTransforms(netOrder), netOrder)
  <2>1. order' = order /\ netOrder' = netOrder
    BY PayloadKept
  <2> DEFINE a == NetDecodeTransforms(netOrder)
  <2>2. a' = a
    BY <1>3
  <2> HIDE DEF a
  <2>3. NetAccepts(a, netOrder)' <=> NetAccepts(a, netOrder)
    BY <2>2 DEF RecordKept, NetAccepts, FieldsValid, NetTimeFits, netOrder, count, ChannelOf
  <2>4. QED BY <2>3 DEF a
<1>6. NetDecodeSamples(netCanonical, netOrder)' = NetDecodeSamples(netCanonical, netOrder)
  BY <1>1 DEF RecordKept, NetDecodeSamples, Samples, NetTime, TrueTime, NetValue, ToValue,
    netOrder, count, ChannelOf
<1>7. QED
  BY <1>1, <1>2, <1>3, <1>4, <1>5, <1>6 DEF RecordInv, NetReadingRight


\* The samples read are kept with what they were read from.
LEMMA SamplesKept ==
  ASSUME RecordKept, canonical' = canonical
  PROVE  /\ FieldsValid(canonical, order)' <=> FieldsValid(canonical, order)
         /\ times' = times => SamplesRead' = SamplesRead
         /\ FieldsValid(NetDecodeTransforms(order), order)'
              <=> FieldsValid(NetDecodeTransforms(order), order)
<1>1. FieldsValid(canonical, order)' <=> FieldsValid(canonical, order)
  BY DEF RecordKept, FieldsValid, order, count, ChannelOf
<1>2. times' = times => SamplesRead' = SamplesRead
  BY DEF RecordKept, SamplesRead, Samples, order, count, ChannelOf
<1>3. FieldsValid(NetDecodeTransforms(order), order)'
        <=> FieldsValid(NetDecodeTransforms(order), order)
  <2> DEFINE a == NetDecodeTransforms(order)
  <2>1. a' = a
    BY AreaKept
  <2> HIDE DEF a
  <2>2. FieldsValid(a, order)' <=> FieldsValid(a, order)
    BY <2>1 DEF RecordKept, FieldsValid, order, count, ChannelOf
  <2>3. QED BY <2>2 DEF a
<1>4. QED BY <1>1, <1>2, <1>3

\* The profile decides what the transforms yield.
LEMMA AreaByProfile ==
  /\ block.profile = "none" => NetDecodeTransforms(order) = stored
  /\ block.profile = "numeric" =>
       NetDecodeTransforms(order) = WriteCanonical(block, order, NumericRaw(Unshuffled, order))
  /\ block.profile = "bitwise" =>
       NetDecodeTransforms(order) = WriteCanonical(block, order, BitwiseRaw(Unshuffled, order))
  BY DEF NetDecodeTransforms

\* The C reader undoes the transforms.
LEMMA DecodeKeeps ==
  ASSUME RecordInv, DecodeTransforms, UNCHANGED netCodecVars
  PROVE  RecordInv'
<1>1. RecordKept /\ coding' = coding /\ coding = "stored"
  BY DEF DecodeTransforms, RecordKept, timeVars
<1>2. Recorded' /\ NetReadingRight'
  BY <1>1, RecordStays, NetReadingStays DEF RecordInv
<1>3. /\ NetDecodeTransforms(order)' = NetDecodeTransforms(order)
      /\ NetRefusesWords' <=> NetRefusesWords
  BY <1>1, AreaKept, PayloadKept
<1>4. \/ /\ reading' = "decoded" /\ ~NetRefusesWords
         /\ canonical' = NetDecodeTransforms(order)
      \/ reading' = "failed" /\ NetRefusesWords
  BY AreaByProfile DEF DecodeTransforms, NetRefusesWords
<1>5. ReadingRight'
  BY <1>3, <1>4 DEF ReadingRight
<1>6. QED BY <1>2, <1>5 DEF RecordInv

\* Any step of the C reader.
LEMMA ReadInCKeeps ==
  ASSUME RecordInv, ReadInC, UNCHANGED netCodecVars
  PROVE  RecordInv'
<1>1. CASE DecodeTransforms
  BY <1>1, DecodeKeeps
<1>2. CASE RefuseIndexes \/ TimeSample \/ RefuseTimes \/ DecodeValues
  <2>1. /\ RecordKept /\ coding' = coding /\ reading = "decoded"
        /\ canonical' = canonical
    <3>1. header' = header
      BY <1>2 DEF RefuseIndexes, TimeSample, RefuseTimes, DecodeValues, timeVars,
        TimeNext, WithoutTime, FromDelta, Stamped, BeginPeriodic, MultiplyFraction,
        EndPeriodic
    <3>2. QED
      BY <3>1, <1>2 DEF RefuseIndexes, TimeSample, RefuseTimes, DecodeValues, RecordKept
  <2>2. coding = "stored"
    BY <2>1 DEF RecordInv, Recorded
  <2>3. Recorded' /\ NetReadingRight'
    BY <2>1, <2>2, RecordStays, NetReadingStays
  <2>4. SUFFICES ReadingRight'
    BY <2>3 DEF RecordInv
  <2>5. ~NetRefusesWords /\ canonical = NetDecodeTransforms(order)
    BY <2>1 DEF RecordInv, ReadingRight
  <2>6. ~NetRefusesWords' /\ canonical' = NetDecodeTransforms(order)'
    BY <2>1, <2>5, AreaKept, PayloadKept
  <2>7. /\ IndexesFit' <=> IndexesFit
        /\ FieldsValid(canonical, order)' <=> FieldsValid(canonical, order)
    BY <2>1, PayloadKept, SamplesKept
  <2>8. CASE RefuseIndexes
    BY <2>8, <2>7 DEF RefuseIndexes, ReadingRight, RecordInv, timeVars
  <2>9. CASE TimeSample
    BY <2>9, <2>1, <2>6 DEF TimeSample, ReadingRight
  <2>10. CASE RefuseTimes
    BY <2>10 DEF RefuseTimes, ReadingRight, timeVars
  <2>11. CASE DecodeValues
    <3>1. IndexesFit /\ TimesDone /\ UNCHANGED timeVars
      BY <2>11 DEF DecodeValues
    <3>2. TimesDone' /\ times' = times
      BY <3>1, <2>1 DEF TimesDone, timeVars, Here, count
    <3>3. CASE FieldsValid(canonical, order)
      <4>1. reading' = "done" /\ samples' = SamplesRead
        BY <2>11, <3>3 DEF DecodeValues, SamplesRead
      <4>2. SamplesRead' = SamplesRead
        BY <2>1, <3>2, SamplesKept
      <4>3. QED BY <4>1, <4>2, <3>1, <3>2, <3>3, <2>6, <2>7 DEF ReadingRight
    <3>4. CASE ~FieldsValid(canonical, order)
      <4>1. reading' = "failed"
        BY <2>11, <3>4 DEF DecodeValues
      <4>2. ~FieldsValid(NetDecodeTransforms(order), order)
        BY <3>4, <2>5
      <4>3. ~FieldsValid(NetDecodeTransforms(order), order)'
        BY <4>2, <2>1, SamplesKept
      <4>4. QED BY <4>1, <4>3 DEF ReadingRight
    <3>5. QED BY <3>3, <3>4
  <2>12. QED BY <1>2, <2>8, <2>9, <2>10, <2>11
<1>3. QED BY <1>1, <1>2 DEF ReadInC

\* The C reader stays right while others move.
LEMMA ReadingStays ==
  ASSUME RecordInv, RecordKept, reading' = reading, canonical' = canonical,
         samples' = samples, times' = times, timing' = timing
  PROVE  ReadingRight'
<1>1. /\ NetRefusesWords' <=> NetRefusesWords
      /\ IndexesFit' <=> IndexesFit
      /\ NetDecodeTransforms(order)' = NetDecodeTransforms(order)
      /\ FieldsValid(canonical, order)' <=> FieldsValid(canonical, order)
      /\ SamplesRead' = SamplesRead
      /\ FieldsValid(NetDecodeTransforms(order), order)'
           <=> FieldsValid(NetDecodeTransforms(order), order)
  BY PayloadKept, AreaKept, SamplesKept
<1>2. TimesDone' <=> TimesDone
  BY DEF TimesDone, Here, count, RecordKept
<1>3. QED BY <1>1, <1>2 DEF RecordInv, ReadingRight

\* The .NET reader reads the record.
LEMMA ReadInNetKeeps ==
  ASSUME RecordInv, ReadInNet
  PROVE  RecordInv'
<1>1. /\ RecordKept /\ coding' = coding /\ coding = "stored"
      /\ reading' = reading /\ canonical' = canonical
      /\ samples' = samples /\ times' = times /\ timing' = timing
  BY DEF ReadInNet, codecVars, timeVars, RecordKept
<1>2. Recorded' /\ ReadingRight'
  BY <1>1, RecordStays, ReadingStays
<1>3. netOrder' = netOrder /\ (NetRefusesWords' <=> NetRefusesWords)
      /\ NetDecodeTransforms(netOrder)' = NetDecodeTransforms(netOrder)
  BY <1>1, PayloadKept, AreaKept
<1> DEFINE area == NetDecodeTransforms(netOrder)
<1>4. area' = area
  BY <1>3
<1>5. CASE NetRefusesWords
  <2>1. netReading' = "failed"
    BY <1>5 DEF ReadInNet
  <2>2. QED BY <2>1, <1>2, <1>3, <1>5 DEF NetReadingRight, RecordInv
<1>6. CASE ~NetRefusesWords /\ NetAccepts(area, netOrder)
  <2>1. /\ netCanonical' = area /\ netReading' = "done"
        /\ netSamples' = NetDecodeSamples(area, netOrder)
    BY <1>6 DEF ReadInNet
  <2> HIDE DEF area
  <2>2. NetAccepts(netCanonical', netOrder') /\ netCanonical' = area'
    BY <2>1, <1>3, <1>4, <1>6
  <2>3. NetAccepts(netCanonical, netOrder)' <=> NetAccepts(area, netOrder)
    BY <2>1, <1>1 DEF RecordKept, NetAccepts, FieldsValid, NetTimeFits, netOrder, count, ChannelOf
  <2>4. NetDecodeSamples(netCanonical, netOrder)' = NetDecodeSamples(area, netOrder)
    <3> DEFINE values == [p \in DOMAIN netOrder |->
                 NetValue(Read(block, netOrder, netCanonical, p), ChannelOf(netOrder, p))]
               same == [p \in DOMAIN netOrder |->
                 NetValue(Read(block, netOrder, area, p), ChannelOf(netOrder, p))]
    <3>1. values' = same
      BY <2>1, <1>1 DEF RecordKept, NetValue, ToValue, netOrder, count, ChannelOf
    <3>2. /\ NetDecodeSamples(area, netOrder) =
               Samples(netOrder, [s \in 1 .. count |-> (block.first + s - 1) % (MaxWord + 1)],
                 [s \in 1 .. count |-> NetTime(s - 1)], same)
          /\ NetDecodeSamples(netCanonical, netOrder)' =
               Samples(netOrder, [s \in 1 .. count |-> (block.first + s - 1) % (MaxWord + 1)],
                 [s \in 1 .. count |-> NetTime(s - 1)], values)'
      BY DEF NetDecodeSamples
    <3> HIDE DEF values, same
    <3>3. QED
      BY <3>1, <3>2, <1>1 DEF RecordKept, Samples, NetTime, TrueTime, netOrder, count
  <2>5. QED
    BY <2>1, <2>2, <2>3, <2>4, <1>2, <1>3, <1>6 DEF NetReadingRight, RecordInv, area
<1>7. CASE ~NetRefusesWords /\ ~NetAccepts(area, netOrder)
  <2>1. netReading' = "failed"
    BY <1>7 DEF ReadInNet
  <2> HIDE DEF area
  <2>2. NetAccepts(area, netOrder)' <=> NetAccepts(area, netOrder)
    BY <1>1, <1>4 DEF RecordKept, NetAccepts, FieldsValid, NetTimeFits, netOrder, count, ChannelOf
  <2>3. QED BY <2>1, <2>2, <1>2, <1>7 DEF NetReadingRight, RecordInv, area
<1>8. QED BY <1>5, <1>6, <1>7

\* Every step keeps the invariant.
LEMMA RecordInvSteps == RecordInv /\ [CodecsNext]_allVars => RecordInv'
<1> SUFFICES ASSUME RecordInv, [CodecsNext]_allVars PROVE RecordInv'
  OBVIOUS
<1>1. CASE WriteInC /\ UNCHANGED netCodecVars
  BY <1>1, WritesKeep
<1>2. CASE WriteInNet
  BY <1>2, WritesKeep
<1>3. CASE ReadInC /\ UNCHANGED netCodecVars
  BY <1>3, ReadInCKeeps
<1>4. CASE ReadInNet
  BY <1>4, ReadInNetKeeps
<1>5. CASE UNCHANGED allVars
  <2>1. /\ RecordKept /\ coding' = coding /\ UNCHANGED netCodecVars
        /\ reading' = reading /\ canonical' = canonical /\ netReading' = netReading
        /\ samples' = samples /\ times' = times /\ timing' = timing
    BY <1>5 DEF allVars, codecVars, netCodecVars, timeVars, RecordKept
  <2>2. QED BY <2>1, RecordStays, ReadingStays, NetReadingStays DEF RecordInv
<1>6. QED BY <1>1, <1>2, <1>3, <1>4, <1>5 DEF CodecsNext

(***************************************************************************)
(* Throughout a record's way through the codecs, its payload is what one   *)
(* of the libraries made of the sample area, and each reader has got as    *)
(* far, or failed for the reason, that its code gives.                     *)
(***************************************************************************)
THEOREM RecordInvariant == CodecsSpec => []RecordInv
<1>1. QED BY RecordedStarts, RecordInvSteps, PTL DEF CodecsSpec


-----------------------------------------------------------------------------
(* The readers agree. *)

\* What is known of the record at hand.
LEMMA BlockFacts ==
  ASSUME block \in Blocks, header = block.header
  PROVE  /\ ChannelsOK(block.channels) /\ header \in Headers
         /\ block.layout \in {"interleaved", "planar"}
         /\ block.packing \in {"dense", "aligned"}
         /\ block.profile \in {"none", "numeric", "bitwise"}
         /\ block.first \in Words /\ count \in Nat
         /\ netOrder = order
<1>1. BlockOK(block)
  BY BlockAssumption
<1>2. ChannelsOK(block.channels) /\ header \in Headers
  BY <1>1 DEF BlockOK, ChannelsOK
<1>3. count \in Nat
  BY <1>2, HeaderTypes DEF count
<1>4. block.layout \in {"interleaved", "planar"} /\ block.first \in Words
      /\ block.packing \in {"dense", "aligned"}
      /\ block.profile \in {"none", "numeric", "bitwise"}
  BY <1>1 DEF BlockOK
<1>5. netOrder = order
  <2>1. Order(block, count) = EnumerateOrder(block, count)
    BY <1>2, <1>3, <1>4, OneOrder
  <2>2. QED BY <2>1 DEF netOrder, order
<1>6. QED BY <1>2, <1>3, <1>4, <1>5

\* The widths of a channel.
LEMMA ChannelBits ==
  ASSUME NEW c \in Channels, ValidChannel(c)
  PROVE  /\ c.logical \in Nat \ {0} /\ c.storage \in Nat \ {0}
         /\ c.logical <= c.storage
         /\ c.type \notin IntegerTypes => c.logical = c.storage
         /\ c.type \in {"unsigned", "signed", "float", "boolean", "fixed bytes"}
         /\ c.type = "float" => c.logical \in FloatBits
<1> DEFINE l == c.logical
           s == c.storage
           t == c.type
<1>1. /\ t \in {"unsigned", "signed", "float", "boolean", "fixed bytes"}
      /\ l \in Nat /\ s \in Nat
  BY DEF Channels, IntegerTypes
<1>n. l \in Nat /\ s \in Nat
  BY <1>1
<1>2. t \in IntegerTypes => 1 <= l /\ l <= s
  BY DEF ValidChannel, IntegerTypes
<1>3. t = "float" => l \in FloatBits /\ s = l
  BY DEF ValidChannel, IntegerTypes
<1>4. t = "boolean" => l = 1 /\ s = 1
  BY DEF ValidChannel, IntegerTypes
<1>5. t = "fixed bytes" => s > 0 /\ l = s
  BY DEF ValidChannel, IntegerTypes
<1>6. \A f \in FloatBits : f \in Nat \ {0}
  BY AreaAssumption
<1> HIDE DEF l, s, t
<1>7. l \in Nat \ {0} /\ s \in Nat \ {0} /\ l <= s
  <2>1. CASE t \in IntegerTypes
    <3>1. 1 <= l /\ l <= s
      BY <2>1, <1>2
    <3>2. QED BY <3>1, <1>n
  <2>2. CASE t = "float"
    <3>1. l \in Nat \ {0} /\ s = l
      BY <2>2, <1>3, <1>6
    <3>2. QED BY <3>1
  <2>3. CASE t = "boolean"
    <3>1. l = 1 /\ s = 1
      BY <2>3, <1>4
    <3>2. QED BY <3>1
  <2>4. CASE t = "fixed bytes"
    <3>1. s > 0 /\ l = s
      BY <2>4, <1>5
    <3>2. QED BY <3>1, <1>n
  <2>5. QED BY <2>1, <2>2, <2>3, <2>4, <1>1, Zenon DEF IntegerTypes
<1>8. t \notin IntegerTypes => l = s
  <2>1. CASE t = "float"
    BY <2>1, <1>3
  <2>2. CASE t = "boolean"
    BY <2>2, <1>4
  <2>3. CASE t = "fixed bytes"
    BY <2>3, <1>5
  <2>4. QED BY <2>1, <2>2, <2>3, <1>1, Zenon DEF IntegerTypes
<1>9. QED BY <1>1, <1>3, <1>7, <1>8 DEF l, s, t

\* Every field of the order is one of a channel, in one of the samples.
LEMMA OrderFields ==
  ASSUME NEW b, ChannelsOK(b.channels), b.layout \in {"interleaved", "planar"},
         NEW n \in Nat
  PROVE  /\ Len(Order(b, n)) = n * LaneCount(b.channels)
         /\ Len(Order(b, n)) \in Nat
         /\ DOMAIN Order(b, n) = 1 .. Len(Order(b, n))
         /\ \A p \in DOMAIN Order(b, n) :
              /\ Order(b, n)[p].channel \in 1 .. Len(b.channels)
              /\ b.channels[Order(b, n)[p].channel] \in Channels
              /\ ValidChannel(b.channels[Order(b, n)[p].channel])
<1> DEFINE o == Order(b, n)
           channels == b.channels
           L == LaneCount(channels)
<1>1. L \in Nat \ {0} /\ n * L \in Nat
  <2>1. L \in Nat \ {0}
    BY Starts
  <2> HIDE DEF L
  <2>2. QED BY <2>1
<1>2. o = [p \in 1 .. n * L |-> OrderItem(b, n, p - 1)]
  BY DEF Order
<1>3. DOMAIN o = 1 .. n * L /\ Len(o) = n * L
  <2>1. o = [p \in 1 .. n * L |-> o[p]]
    BY <1>2
  <2> HIDE DEF o, L
  <2>2. Len(o) = n * L
    BY <1>1, <2>1, IsSeqFunction
  <2>3. QED BY <2>1, <2>2
<1>4. ASSUME NEW p \in 1 .. n * L PROVE o[p].channel \in 1 .. Len(channels)
  <2>1. o[p] = OrderItem(b, n, p - 1)
    BY <1>2
  <2>2. p - 1 \in Nat /\ p - 1 < n * L
    <3> HIDE DEF L
    <3>1. QED BY <1>1
  <2>3. CASE b.layout = "interleaved"
    <3> DEFINE w == (p - 1) % L
    <3>1. w \in Nat /\ w < L
      <4> HIDE DEF L
      <4>1. (p - 1) % L \in 0 .. L - 1
        BY <1>1, <2>2, DivisionDef
      <4>2. QED BY <4>1, <1>1
    <3>2. o[p].channel = ChannelAt(channels, w, 1)
      BY <2>1, <2>3 DEF OrderItem, Interleaved
    <3> HIDE DEF w
    <3>3. ChannelAt(channels, w, 1) \in 1 .. Len(channels)
      BY <3>1, LaneOfPlace
    <3>4. QED BY <3>2, <3>3
  <2>4. CASE b.layout = "planar"
    <3>1. o[p] = Planar(channels, n, p - 1)
      BY <2>1, <2>4 DEF OrderItem
    <3> HIDE DEF o
    <3>2. QED BY <3>1, <2>2, PlaceOfPosition
  <2>5. QED BY <2>3, <2>4
<1> HIDE DEF o, L
<1>5. QED BY <1>1, <1>3, <1>4, ChannelsAre DEF o, L

\* A field is read as a natural number, within its width.
LEMMA WidthIsNat ==
  ASSUME NEW b, NEW item, b.channels[item.channel] \in Channels
  PROVE  FieldWidth(b, item) \in Nat
<1> DEFINE s == b.channels[item.channel].storage
<1>1. s \in Nat
  BY DEF Channels
<1> HIDE DEF s
<1>2. BytesOf(s) * ByteBits \in Nat
  <2>1. s + ByteBits - 1 \in Nat /\ ByteBits \in Nat \ {0}
    BY <1>1, AreaAssumption
  <2>2. BytesOf(s) \in Nat
    BY <2>1, DivisionDef DEF BytesOf
  <2>3. QED BY <2>1, <2>2
<1>3. QED BY <1>1, <1>2 DEF FieldWidth, s

\* A field is read within its width.
LEMMA ReadBound ==
  ASSUME NEW b, NEW o, NEW area, NEW p, FieldWidth(b, o[p]) \in Nat
  PROVE  Read(b, o, area, p) \in 0 .. 2 ^ FieldWidth(b, o[p]) - 1
         /\ Read(b, o, area, p) \in Nat
  BY NumberBound, PowNat DEF Read

\* The two libraries make the same value of a field without stray bits.
LEMMA SameValue ==
  ASSUME NEW c \in Channels, ValidChannel(c), NEW v \in Nat, v < 2 ^ c.storage
  PROVE  MakeValue(v, c) = NetValue(v, c)
<1>1. CASE c.type = "fixed bytes"
  BY <1>1 DEF NetValue
<1>2. CASE c.type # "fixed bytes"
  <2> DEFINE l == c.logical
             low == v % 2 ^ l
             raw == IF c.storage > l THEN low ELSE v
  <2>1. l \in Nat \ {0} /\ c.storage \in Nat /\ l <= c.storage
    BY ChannelBits
  <2>2. raw = low
    <3>1. CASE c.storage > l
      BY <3>1
    <3>2. CASE ~(c.storage > l)
      <4>1. c.storage = l
        BY <2>1, <3>2
      <4>2. v \in 0 .. 2 ^ l - 1 /\ 2 ^ l \in Nat \ {0}
        BY <2>1, <4>1, PowNat
      <4>3. low = v
        BY <4>2, SmallQuotient
      <4>4. QED BY <3>2, <4>3
    <3>3. QED BY <3>1, <3>2
  <2>3. HasSign(low, l) <=> (low \div 2 ^ (l - 1)) % 2 = 1
    <3>1. l - 1 \in 0 .. l - 1
      BY <2>1
    <3>2. QED BY <3>1 DEF HasSign, Bits
  <2>4. MakeValue(v, c) =
          [raw |-> raw, number |-> IF c.type = "signed" /\ (raw \div 2 ^ (l - 1)) % 2 = 1
                                     THEN raw - 2 ^ l ELSE raw]
    BY DEF MakeValue
  <2>5. NetValue(v, c) =
          [raw |-> low, number |-> IF c.type = "signed" /\ HasSign(low, l)
                                     THEN low - 2 ^ l ELSE low]
    BY <1>2 DEF NetValue, ToValue
  <2> HIDE DEF low, raw
  <2>6. QED BY <2>2, <2>3, <2>4, <2>5, Zenon
<1>3. QED BY <1>1, <1>2


\* A record is refused for the time of one of its samples.
RefusedHere ==
  timing = "refused" => Here < header.count /\ header.mode \in {"delta", "periodic"}

\* A time is refused for a sample that is there.
LEMMA RefusedHereSteps ==
  ASSUME TimeInv, RefusedHere, [TimeNext]_timeVars
  PROVE  RefusedHere'
<1>1. CASE WithoutTime
  BY <1>1 DEF WithoutTime, Deliver, RefusedHere
<1>2. CASE FromDelta
  BY <1>2 DEF FromDelta, Deliver, RefuseTime, RefusedHere, Here
<1>3. CASE Stamped
  BY <1>3 DEF Stamped, Deliver, RefusedHere
<1>4. CASE BeginPeriodic
  BY <1>4 DEF BeginPeriodic, RefuseTime, RefusedHere, Here
<1>5. CASE MultiplyFraction
  BY <1>5 DEF MultiplyFraction, RefuseTime, RefusedHere, Here, TimeInv, TimeTyped
<1>6. CASE EndPeriodic
  BY <1>6 DEF EndPeriodic, RefuseTime, Deliver, RefusedHere, Here, TimeInv, TimeTyped
<1>7. CASE UNCHANGED timeVars
  BY <1>7 DEF timeVars, RefusedHere, Here
<1>8. QED BY <1>1, <1>2, <1>3, <1>4, <1>5, <1>6, <1>7 DEF TimeNext

\* So it is throughout.
LEMMA RefusedHereAlways == SampleTimeSpec => []RefusedHere
<1>1. TimeInit => RefusedHere
  BY DEF TimeInit, TimeStart, RefusedHere
<1>2. TimeInv /\ RefusedHere /\ [TimeNext]_timeVars => RefusedHere'
  BY RefusedHereSteps
<1>3. QED BY <1>1, <1>2, TimeInvariant, PTL DEF SampleTimeSpec

\* The .NET library refuses the time the C library refuses.
LEMMA RefusedByBoth ==
  ASSUME TimeInv, RefusedHere, timing = "refused"
  PROVE  \E n \in 0 .. header.count - 1 : ~NetTimeFits(n)
<1>1. /\ header \in Headers /\ Here \in 0 .. header.count - 1
      /\ header.mode \in {"delta", "periodic"} /\ TrueTime(Here) \notin Ints
  <2>1. header \in Headers /\ Here < header.count /\ Here \in Nat
        /\ header.mode \in {"delta", "periodic"} /\ TrueTime(Here) \notin Ints
    BY DEF TimeInv, TimeTyped, TimesAreExact, RefusedHere, Here
  <2>2. QED BY <2>1, HeaderTypes
<1>2. CASE header.mode = "delta"
  BY <1>1, <1>2 DEF TrueTime, NetTimeFits
<1>3. CASE header.mode = "periodic"
  <2> DEFINE ticks == (Here * header.numerator) \div header.denominator
  <2>1. header.start \in Ints /\ ticks \in Nat
    <3>1. /\ header.numerator \in Nat /\ header.denominator \in Nat \ {0}
          /\ header.start \in Ints
      BY <1>1, <1>3, HeaderTypes
    <3>2. ticks \in Nat
      BY <3>1, <1>1, PeriodAtLeast
    <3>3. QED BY <3>1, <3>2
  <2>2. TrueTime(Here) = header.start + ticks
    BY <1>3 DEF TrueTime
  <2>3. NetTimeFits(Here) <=> NetTicksFit(header.start, ticks)
    BY <1>3 DEF NetTimeFits
  <2> HIDE DEF ticks
  <2>4. ~NetTimeFits(Here)
    BY <2>1, <2>2, <2>3, <1>1, WordAssumption DEF NetTicksFit, Ints, MinInt, MaxInt
  <2>5. QED BY <2>4, <1>1
<1>4. QED BY <1>1, <1>2, <1>3

\* The .NET library takes the times the C library makes.
LEMMA TimesForBoth ==
  ASSUME TimeInv, TimesDone, TicksFitInt
  PROVE  /\ \A n \in 0 .. count - 1 : NetTimeFits(n)
         /\ \A s \in 1 .. count : times[s] = NetTime(s - 1)
<1>1. header \in Headers /\ Len(times) = count /\ count \in Nat
  BY HeaderTypes DEF TimeInv, TimeTyped, TimesDone, Here, count
<1>2. \A s \in 1 .. count : /\ times[s] = TrueTime(s - 1)
                            /\ header.mode # "none" => TrueTime(s - 1) \in Ints
  BY <1>1 DEF TimeInv, TimesAreExact
<1>3. ASSUME NEW n \in 0 .. count - 1 PROVE NetTimeFits(n)
  <2>1. header.mode # "none" => TrueTime(n) \in Ints
    <3>1. n + 1 \in 1 .. count /\ (n + 1) - 1 = n
      BY <1>1
    <3>2. header.mode # "none" => TrueTime((n + 1) - 1) \in Ints
      BY <3>1, <1>2
    <3>3. QED BY <3>1, <3>2
  <2>2. CASE header.mode = "periodic"
    <3>1. TrueTime(n) = header.start + (n * header.numerator) \div header.denominator
      BY <2>2 DEF TrueTime
    <3>2. (n * header.numerator) \div header.denominator <= MaxInt
      BY <2>2 DEF TicksFitInt
    <3>3. header.start + (n * header.numerator) \div header.denominator <= MaxInt
      BY <2>1, <2>2, <3>1 DEF Ints
    <3>4. NetTicksFit(header.start, (n * header.numerator) \div header.denominator)
      BY <3>2, <3>3 DEF NetTicksFit
    <3>5. QED BY <3>4, <2>2 DEF NetTimeFits
  <2>3. CASE header.mode = "delta"
    BY <2>1, <2>3 DEF TrueTime, NetTimeFits
  <2>4. CASE header.mode \notin {"periodic", "delta"}
    BY <2>4 DEF NetTimeFits
  <2>5. QED BY <2>2, <2>3, <2>4
<1>4. QED BY <1>2, <1>3 DEF NetTime

\* Indexes that fit do not wrap.
LEMMA IndexesForBoth ==
  ASSUME block.first \in Words, count \in Nat, IndexesFit
  PROVE  \A s \in 1 .. count : (block.first + s - 1) % (MaxWord + 1) = block.first + s - 1
<1>1. MaxWord \in Nat /\ block.first \in Nat
  BY WordAssumption DEF Words, MaxWord
<1>2. SUFFICES ASSUME NEW s \in 1 .. count
               PROVE  (block.first + s - 1) % (MaxWord + 1) = block.first + s - 1
  OBVIOUS
<1> DEFINE i == block.first + s - 1
           d == MaxWord + 1
<1>3. block.first <= MaxWord - (count - 1)
  BY <1>2 DEF IndexesFit
<1>4. i \in Nat /\ d \in Nat \ {0} /\ i \in 0 .. d - 1 /\ i = d * 0 + i
  BY <1>1, <1>3
<1> HIDE DEF i, d
<1>5. i % d = i
  BY <1>4, QuotientUnique
<1>6. QED BY <1>5 DEF i, d

\* Both libraries deliver the same samples of the same area.
LEMMA SamplesForBoth ==
  ASSUME TimeInv, Recorded, TimesDone, TicksFitInt, IndexesFit, NoStrayBits
  PROVE  SamplesRead = NetDecodeSamples(canonical, netOrder)
<1>1. /\ ChannelsOK(block.channels) /\ count \in Nat /\ block.first \in Words
      /\ block.layout \in {"interleaved", "planar"} /\ netOrder = order
  BY BlockFacts DEF Recorded
<1> DEFINE indexes == [s \in 1 .. count |-> block.first + s - 1]
           netIndexes == [s \in 1 .. count |-> (block.first + s - 1) % (MaxWord + 1)]
           netTimes == [s \in 1 .. count |-> NetTime(s - 1)]
           values == [p \in DOMAIN order |->
             MakeValue(Read(block, order, canonical, p), ChannelOf(order, p))]
           netValues == [p \in DOMAIN order |->
             NetValue(Read(block, order, canonical, p), ChannelOf(order, p))]
<1>2. netIndexes = indexes
  BY <1>1, IndexesForBoth
<1>3. \A s \in 1 .. count : times[s] = netTimes[s]
  BY TimesForBoth
<1>4. values = netValues
  <2>1. SUFFICES ASSUME NEW p \in DOMAIN order
                 PROVE  MakeValue(Read(block, order, canonical, p), ChannelOf(order, p))
                          = NetValue(Read(block, order, canonical, p), ChannelOf(order, p))
    OBVIOUS
  <2>2. ChannelOf(order, p) \in Channels /\ ValidChannel(ChannelOf(order, p))
    BY <1>1, OrderFields DEF order, ChannelOf
  <2>3. Read(block, order, canonical, p) \in Nat
    BY <2>2, WidthIsNat, ReadBound DEF ChannelOf
  <2>4. Read(block, order, canonical, p) < 2 ^ ChannelOf(order, p).storage
    BY DEF NoStrayBits
  <2>5. QED BY <2>2, <2>3, <2>4, SameValue
<1>5. SamplesRead = Samples(order, indexes, times, values)
  BY DEF SamplesRead
<1>6. NetDecodeSamples(canonical, netOrder) = Samples(order, netIndexes, netTimes, netValues)
  BY <1>1 DEF NetDecodeSamples
<1> HIDE DEF indexes, netIndexes, netTimes, values, netValues
<1>7. Samples(order, indexes, times, values) = Samples(order, indexes, netTimes, values)
  BY <1>3 DEF Samples
<1>8. QED BY <1>2, <1>4, <1>5, <1>6, <1>7

\* What the invariants say makes the readers agree.
LEMMA ReadersMatch ==
  ASSUME TimeInv, RefusedHere, RecordInv PROVE ReadersAgree
<1> SUFFICES ASSUME {reading, netReading} \subseteq {"done", "failed"},
                    IndexesFit, TicksFitInt
             PROVE  /\ reading = netReading
                    /\ reading = "done" /\ NoStrayBits => samples = netSamples
  BY DEF ReadersAgree
<1>1. Recorded /\ ReadingRight /\ NetReadingRight /\ netOrder = order
  BY BlockFacts DEF RecordInv, Recorded
<1>2. reading \in {"done", "failed"} /\ netReading \in {"done", "failed"}
  OBVIOUS
<1>3. CASE reading = "done"
  <2>1. /\ ~NetRefusesWords /\ canonical = NetDecodeTransforms(order) /\ TimesDone
        /\ FieldsValid(canonical, order) /\ samples = SamplesRead
    BY <1>1, <1>3 DEF ReadingRight
  <2>2. NetAccepts(NetDecodeTransforms(netOrder), netOrder)
    BY <2>1, <1>1, TimesForBoth DEF NetAccepts
  <2>3. netReading = "done"
    BY <2>1, <2>2, <1>1, <1>2 DEF NetReadingRight
  <2>4. /\ netCanonical = canonical
        /\ netSamples = NetDecodeSamples(netCanonical, netOrder)
    BY <2>1, <2>3, <1>1 DEF NetReadingRight
  <2>5. QED BY <1>3, <1>1, <2>1, <2>3, <2>4, SamplesForBoth
<1>4. CASE reading = "failed"
  <2>1. SUFFICES ASSUME netReading = "done" PROVE FALSE
    BY <1>2, <1>4
  <2>2. /\ ~NetRefusesWords /\ netCanonical = NetDecodeTransforms(order)
        /\ NetAccepts(netCanonical, order)
    BY <2>1, <1>1 DEF NetReadingRight
  <2>3. timing = "refused" \/ ~FieldsValid(NetDecodeTransforms(order), order)
    BY <2>2, <1>1, <1>4 DEF ReadingRight
  <2>4. timing = "refused"
    BY <2>2, <2>3 DEF NetAccepts
  <2>5. \E n \in 0 .. header.count - 1 : ~NetTimeFits(n)
    BY <2>4, RefusedByBoth
  <2>6. QED BY <2>2, <2>5 DEF NetAccepts, count
<1>5. QED BY <1>2, <1>3, <1>4

(***************************************************************************)
(* The two readers agree on every record, whatever its channels, widths,   *)
(* layout, packing and profile, and whichever library wrote it: both       *)
(* refuse it or both deliver the same samples, but for indexes that wrap,  *)
(* ticks beyond INT64_MAX, and bits above the storage bits.                *)
(***************************************************************************)
THEOREM ReadersAlwaysAgree == CodecsSpec => []ReadersAgree
<1>1. TimeInv /\ RefusedHere /\ RecordInv => ReadersAgree
  BY ReadersMatch
<1>2. QED
  BY <1>1, RecordInvariant, CodecTimesSamples, TimeInvariant, RefusedHereAlways, PTL


-----------------------------------------------------------------------------
(* Differences and their inverses. *)

\* An integer is its quotient and its remainder.
LEMMA IntDivision ==
  ASSUME NEW a \in Int, NEW d \in Nat \ {0}
  PROVE  /\ a \div d \in Int /\ a % d \in 0 .. d - 1
         /\ a = d * (a \div d) + (a % d)
  BY SMT

\* Only the remainder is such a number.
LEMMA RemainderUnique ==
  ASSUME NEW a \in Int, NEW d \in Nat \ {0}, NEW q \in Int, NEW r \in 0 .. d - 1,
         a = d * q + r
  PROVE  a % d = r
<1> DEFINE p == a \div d
           s == a % d
<1>1. p \in Int /\ s \in 0 .. d - 1 /\ a = d * p + s
  BY IntDivision
<1> HIDE DEF p, s
<1>2. d * (p - q) = r - s
  <2>1. d * (p - q) = d * p - d * q /\ d * p \in Int /\ d * q \in Int
    BY <1>1
  <2>2. QED BY <2>1, <1>1
<1>3. ~(p >= q + 1)
  <2>1. SUFFICES ASSUME p >= q + 1 PROVE FALSE
    OBVIOUS
  <2>2. d * 1 <= d * (p - q)
    BY <2>1, <1>1, ProductGrows
  <2>3. QED BY <2>2, <1>1, <1>2
<1>4. ~(p <= q - 1)
  <2>1. SUFFICES ASSUME p <= q - 1 PROVE FALSE
    OBVIOUS
  <2>2. d * (p - q) <= d * (-1)
    BY <2>1, <1>1, ProductGrows
  <2>3. QED BY <2>2, <1>1, <1>2
<1>5. p = q
  BY <1>1, <1>3, <1>4
<1>6. s = r
  BY <1>1, <1>2, <1>5
<1>7. QED BY <1>6 DEF s

\* A remainder does not see multiples of the divisor.
LEMMA SameRemainder ==
  ASSUME NEW d \in Nat \ {0}, NEW a \in Int, NEW k \in Int
  PROVE  (a + d * k) % d = a % d
<1> DEFINE p == a \div d
           s == a % d
<1>1. p \in Int /\ s \in 0 .. d - 1 /\ a = d * p + s
  BY IntDivision
<1> HIDE DEF p, s
<1>2. a + d * k \in Int /\ a + d * k = d * (p + k) + s
  <2>1. d * (p + k) = d * p + d * k /\ d * p \in Int /\ d * k \in Int
    BY <1>1
  <2>2. QED BY <2>1, <1>1
<1>3. (a + d * k) % d = s
  BY <1>1, <1>2, RemainderUnique
<1>4. QED BY <1>3 DEF s

\* A difference added again.
LEMMA DifferenceUndone ==
  ASSUME NEW d \in Nat \ {0}, NEW now \in Int, NEW before \in Int
  PROVE  ((before % d) + ((now - before) % d)) % d = now % d
<1> DEFINE q == before \div d
           r == before % d
           p == (now - before) \div d
           s == (now - before) % d
<1>1. /\ q \in Int /\ r \in 0 .. d - 1 /\ before = d * q + r
      /\ p \in Int /\ s \in 0 .. d - 1 /\ now - before = d * p + s
  BY IntDivision
<1> HIDE DEF p, q, r, s
<1>2. r + s = now + d * (-(p + q))
  <2>1. d * (-(p + q)) = -(d * p) - d * q /\ d * p \in Int /\ d * q \in Int
    BY <1>1
  <2>2. QED BY <2>1, <1>1
<1>3. -(p + q) \in Int
  BY <1>1
<1>4. (now + d * (-(p + q))) % d = now % d
  BY <1>3, SameRemainder
<1>5. (r + s) % d = now % d
  BY <1>2, <1>4
<1>6. QED BY <1>5 DEF r, s

\* The sign bit of a number of n bits.
LEMMA SignBit ==
  ASSUME NEW n \in Nat \ {0}, NEW v \in 0 .. 2 ^ n - 1
  PROVE  /\ 2 ^ (n - 1) \in Nat \ {0} /\ 2 ^ n = 2 * 2 ^ (n - 1)
         /\ HasSign(v, n) <=> v >= 2 ^ (n - 1)
<1>1. n - 1 \in Nat /\ (n - 1) + 1 = n
  OBVIOUS
<1>2. 2 ^ (n - 1) \in Nat \ {0} /\ 2 ^ n = 2 * 2 ^ (n - 1)
  <2>1. 2 ^ (n - 1) \in Nat \ {0} /\ 2 ^ ((n - 1) + 1) = 2 * 2 ^ (n - 1)
    BY <1>1, PowNat
  <2>2. QED BY <2>1, <1>1
<1> DEFINE h == 2 ^ (n - 1)
<1>3. HasSign(v, n) <=> (v \div h) % 2 = 1
  BY <1>1 DEF HasSign, Bits
<1>4. h \in Nat \ {0} /\ v \in 0 .. 2 * h - 1
  BY <1>2
<1> HIDE DEF h
<1>5. CASE v >= h
  <2>1. v - h \in 0 .. h - 1 /\ (v - h) + h = v
    BY <1>4, <1>5
  <2>2. ((v - h) + h) \div h = 1
    BY <2>1, <1>4, SmallQuotient
  <2>3. v \div h = 1
    BY <2>1, <2>2
  <2>4. QED BY <2>3, <1>2, <1>3, <1>5 DEF h
<1>6. CASE v < h
  <2>1. v \in 0 .. h - 1
    BY <1>4, <1>6
  <2>2. v \div h = 0
    BY <2>1, <1>4, SmallQuotient
  <2>3. ~(v >= h)
    BY <1>4, <1>6
  <2>4. QED BY <2>2, <2>3, <1>2, <1>3 DEF h
<1>7. QED BY <1>4, <1>5, <1>6

\* Zigzag and back.
LEMMA ZigzagUndone ==
  ASSUME NEW n \in Nat \ {0}, NEW v \in 0 .. 2 ^ n - 1
  PROVE  /\ Zigzag(v, n) \in 0 .. 2 ^ n - 1
         /\ Unzigzag(Zigzag(v, n), n) = v
<1> DEFINE h == 2 ^ (n - 1)
           m == 2 ^ n
<1>1. h \in Nat \ {0} /\ m = 2 * h /\ (HasSign(v, n) <=> v >= h)
  BY SignBit
<1>2. v \in 0 .. m - 1
  OBVIOUS
<1>3. CASE v >= h
  <2>1. (2 * v) % m = 2 * v - m
    <3> HIDE DEF h, m
    <3>1. /\ 2 * v \in Int /\ m \in Nat \ {0} /\ 2 * v - m \in 0 .. m - 1
          /\ 2 * v = m * 1 + (2 * v - m)
      BY <1>1, <1>2, <1>3
    <3>2. QED BY <3>1, RemainderUnique
  <2>2. Zigzag(v, n) = m - 1 - (2 * v - m)
    BY <2>1, <1>1, <1>3 DEF Zigzag
  <2> DEFINE z == m - 1 - (2 * v - m)
  <2> HIDE DEF h, m
  <2>3. z \in 0 .. m - 1 /\ z % 2 = 1 /\ z \div 2 = m - 1 - v
    <3>1. z \in Nat /\ z \in 0 .. m - 1 /\ z = 2 * (m - 1 - v) + 1
      BY <1>1, <1>2, <1>3
    <3>2. m - 1 - v \in Int
      BY <1>1, <1>2
    <3> HIDE DEF z
    <3>3. z \div 2 = m - 1 - v /\ z % 2 = 1
      BY <3>1, <3>2, QuotientUnique
    <3>4. QED BY <3>1, <3>3
  <2>4. Unzigzag(z, n) = m - 1 - (m - 1 - v)
    BY <2>3 DEF Unzigzag, m
  <2>5. QED BY <2>2, <2>3, <2>4, <1>1, <1>2 DEF m
<1>4. CASE v < h
  <2>1. (2 * v) % m = 2 * v
    <3> HIDE DEF h, m
    <3>1. /\ 2 * v \in Int /\ m \in Nat \ {0} /\ 2 * v \in 0 .. m - 1
          /\ 2 * v = m * 0 + 2 * v
      BY <1>1, <1>2, <1>4
    <3>2. QED BY <3>1, RemainderUnique
  <2>2. Zigzag(v, n) = 2 * v
    <3>1. ~HasSign(v, n)
      <4> HIDE DEF h, m
      <4>1. QED BY <1>1, <1>2, <1>4
    <3>2. QED BY <3>1, <2>1 DEF Zigzag
  <2> HIDE DEF h, m
  <2>3. /\ 2 * v \in Nat /\ 2 * v \in 0 .. m - 1 /\ v \in Int
    BY <1>1, <1>2, <1>4
  <2>4. (2 * v) \div 2 = v /\ (2 * v) % 2 = 0
    BY <2>3
  <2>5. Unzigzag(2 * v, n) = v
    BY <2>4 DEF Unzigzag
  <2>6. QED BY <2>2, <2>3, <2>5 DEF m
<1>5. QED BY <1>1, <1>2, <1>3, <1>4

\* The bits of the low part of a number are its low bits.
LEMMA LowBits ==
  ASSUME NEW n \in Nat, NEW v \in Nat
  PROVE  Bits(v % 2 ^ n, n) = Bits(v, n)
<1>1. Number(Bits(v, n), n) = v % 2 ^ n
  BY NumberOfBits
<1>2. Bits(v, n) \in SUBSET (0 .. n - 1)
  BY DEF Bits
<1>3. QED BY <1>1, <1>2, BitsOfNumber

\* Exclusive or, twice.
LEMMA XorUndone ==
  ASSUME NEW n \in Nat, NEW now \in Nat, NEW before \in Nat
  PROVE  /\ Xor(now, before, n) \in 0 .. 2 ^ n - 1
         /\ Xor(Xor(now, before, n), before % 2 ^ n, n) = now % 2 ^ n
<1> DEFINE A == Bits(now, n)
           B == Bits(before, n)
<1>1. A \in SUBSET (0 .. n - 1) /\ B \in SUBSET (0 .. n - 1)
  BY DEF Bits
<1>2. Xor(now, before, n) = Number(SymDiff(A, B), n)
  BY DEF Xor
<1>3. SymDiff(A, B) \in SUBSET (0 .. n - 1)
  BY <1>1 DEF SymDiff
<1>4. Bits(Xor(now, before, n), n) = SymDiff(A, B)
  BY <1>2, <1>3, BitsOfNumber
<1>5. Bits(before % 2 ^ n, n) = B
  BY LowBits
<1>6. SymDiff(SymDiff(A, B), B) = A
  BY DEF SymDiff
<1>7. Xor(Xor(now, before, n), before % 2 ^ n, n) = Number(A, n)
  BY <1>4, <1>5, <1>6 DEF Xor
<1>8. Number(A, n) = now % 2 ^ n
  BY NumberOfBits
<1>9. QED BY <1>2, <1>7, <1>8, NumberBound


-----------------------------------------------------------------------------
(* The values again, each from the one before it in its lane. *)

\* A bounded set of numbers has a largest one.
LEMMA MaxOfBounded ==
  ASSUME NEW n \in Nat, NEW S \in SUBSET (0 .. n), S # {}
  PROVE  Max(S) \in S
<1> DEFINE T == {k \in Nat : \A y \in S : y <= k}
<1>1. n \in T /\ T \subseteq Nat
  OBVIOUS
<1>2. PICK m \in T : \A k \in T : <<k, m>> \notin OpToRel(<, Nat)
  BY <1>1, NatLessThanWellFounded, WFMin
<1>3. m \in Nat /\ \A y \in S : y <= m
  OBVIOUS
<1>4. \A k \in T : ~(k < m)
  BY <1>2, <1>3 DEF OpToRel
<1>5. m \in S
  <2>1. SUFFICES ASSUME m \notin S PROVE FALSE
    OBVIOUS
  <2>2. \A y \in S : y \in Nat /\ y < m
    BY <2>1, <1>3
  <2>3. PICK y \in S : TRUE
    OBVIOUS
  <2>4. m - 1 \in Nat /\ m - 1 < m
    BY <2>2, <2>3, <1>3
  <2>5. \A x \in S : x <= m - 1
    BY <2>2, <1>3
  <2>6. m - 1 \in T
    BY <2>4, <2>5
  <2>7. QED BY <2>4, <2>6, <1>4
<1>6. \E x \in S : \A y \in S : x >= y
  BY <1>3, <1>5
<1>7. QED BY <1>6 DEF Max

\* What stands before a position is before it.
LEMMA PreviousIsBefore ==
  ASSUME NEW o, NEW p \in Nat \ {0}
  PROVE  Previous(o, p) \in 0 .. p - 1
<1> DEFINE S == {0} \cup {q \in 1 .. p - 1 : o[q].lane = o[p].lane}
<1>1. p - 1 \in Nat /\ S \in SUBSET (0 .. p - 1) /\ S # {}
  OBVIOUS
<1> HIDE DEF S
<1>2. Max(S) \in S
  BY <1>1, MaxOfBounded
<1>3. QED BY <1>1, <1>2 DEF Previous, S

\* The difference the profile stores, and its inverse.
Difference(now, before) ==
  IF block.profile = "numeric" THEN ZigzagDelta(now, before)
                               ELSE Xor(now, before, WidthOfAll)
Undo(z, before) ==
  IF block.profile = "numeric" THEN AddDelta(z, before)
                               ELSE Xor(z, before, WidthOfAll)

\* The words of a payload, and what a reader makes of words.
WordsOf(raw, o) ==
  IF block.profile = "numeric" THEN NumericWords(raw, o) ELSE BitwiseWords(raw, o)
RawOf(words, o) ==
  IF block.profile = "numeric" THEN NumericRaw(words, o) ELSE BitwiseRaw(words, o)

\* The values up to position n, put together one by one.
Chain(f, words, o, n) ==
  f = [p \in 0 .. n |-> IF p = 0 THEN 0 ELSE Undo(words[p], f[Previous(o, p)])]

LEMMA WordsAreDifferences ==
  ASSUME NEW raw, NEW o
  PROVE  WordsOf(raw, o) = [p \in DOMAIN o |-> Difference(raw[p], RawBefore(raw, o, p))]
<1>1. CASE block.profile = "numeric"
  BY <1>1 DEF WordsOf, NumericWords, Difference
<1>2. CASE block.profile # "numeric"
  BY <1>2 DEF WordsOf, BitwiseWords, Difference
<1>3. QED BY <1>1, <1>2

\* Undoing a difference gives the value, as far as it fits its width.
LEMMA UndoDifference ==
  ASSUME WidthOfAll \in Nat \ {0}, NEW now \in Nat, NEW before \in Nat
  PROVE  /\ Difference(now, before) \in 0 .. 2 ^ WidthOfAll - 1
         /\ Undo(Difference(now, before), before % 2 ^ WidthOfAll) = now % 2 ^ WidthOfAll
<1> DEFINE n == WidthOfAll
           m == 2 ^ WidthOfAll
<1>1. n \in Nat \ {0} /\ m \in Nat \ {0}
  BY PowNat
<1>2. CASE block.profile = "numeric"
  <2> DEFINE d == (now - before) % m
  <2>1. d \in 0 .. 2 ^ n - 1
    <3> HIDE DEF m
    <3>1. d \in 0 .. m - 1
      BY <1>1, IntDivision
    <3>2. QED BY <3>1 DEF m
  <2>2. Difference(now, before) = Zigzag(d, n)
    BY <1>2 DEF Difference, ZigzagDelta
  <2>3. Zigzag(d, n) \in 0 .. 2 ^ n - 1 /\ Unzigzag(Zigzag(d, n), n) = d
    <3> HIDE DEF d, n
    <3>1. QED BY <1>1, <2>1, ZigzagUndone
  <2>4. Undo(Zigzag(d, n), before % m) = ((before % m) + d) % m
    BY <1>2, <2>3 DEF Undo, AddDelta
  <2>5. ((before % m) + d) % m = now % m
    <3> HIDE DEF m
    <3>1. now \in Int /\ before \in Int /\ m \in Nat \ {0}
      BY <1>1
    <3>2. ((before % m) + ((now - before) % m)) % m = now % m
      BY ONLY <3>1, DifferenceUndone
    <3>3. QED BY <3>2
  <2>6. QED BY <2>2, <2>3, <2>4, <2>5
<1>3. CASE block.profile # "numeric"
  BY <1>1, <1>3, XorUndone DEF Difference, Undo
<1>4. QED BY <1>2, <1>3

\* A chain is determined by its words.
LEMMA ChainUnique ==
  ASSUME NEW words, NEW o, NEW n \in Nat, NEW f, NEW g,
         Chain(f, words, o, n), Chain(g, words, o, n)
  PROVE  f = g
<1> DEFINE S == {k \in Nat : \A p \in 0 .. n : p <= k => f[p] = g[p]}
<1>1. 0 \in S
  <2>1. f[0] = 0 /\ g[0] = 0
    BY DEF Chain
  <2>2. QED BY <2>1
<1>2. ASSUME NEW k \in Nat, k \in S PROVE k + 1 \in S
  <2>1. SUFFICES ASSUME NEW p \in 0 .. n, p <= k + 1 PROVE f[p] = g[p]
    OBVIOUS
  <2>2. CASE p <= k
    BY <2>2, <1>2
  <2>3. CASE p = k + 1
    <3>1. p \in Nat \ {0}
      BY <2>3
    <3>2. Previous(o, p) \in 0 .. p - 1
      BY <3>1, PreviousIsBefore
    <3>3. Previous(o, p) \in 0 .. n /\ Previous(o, p) <= k
      BY <2>3, <3>2
    <3>4. f[Previous(o, p)] = g[Previous(o, p)]
      BY <3>3, <1>2
    <3>5. f[p] = Undo(words[p], f[Previous(o, p)]) /\ g[p] = Undo(words[p], g[Previous(o, p)])
      BY <3>1 DEF Chain
    <3>6. QED BY <3>4, <3>5
  <2>4. QED BY <2>1, <2>2, <2>3
<1> HIDE DEF S
<1>3. n \in S
  BY <1>1, <1>2, SetInduction
<1>4. \A p \in 0 .. n : f[p] = g[p]
  BY <1>3 DEF S
<1>5. f = [p \in 0 .. n |-> f[p]] /\ g = [p \in 0 .. n |-> g[p]]
  BY DEF Chain
<1>6. QED BY <1>4, <1>5

\* The original values, as far as they fit their width.
LowParts(raw, n) == [p \in 0 .. n |-> IF p = 0 THEN 0 ELSE raw[p] % 2 ^ WidthOfAll]

LEMMA LowPartsChain ==
  ASSUME WidthOfAll \in Nat \ {0}, NEW n \in Nat, NEW o, DOMAIN o = 1 .. n,
         NEW raw, \A p \in 1 .. n : raw[p] \in Nat
  PROVE  Chain(LowParts(raw, n), WordsOf(raw, o), o, n)
<1> DEFINE f == LowParts(raw, n)
           words == WordsOf(raw, o)
<1>1. ASSUME NEW p \in 1 .. n
      PROVE  f[p] = Undo(words[p], f[Previous(o, p)])
  <2> DEFINE q == Previous(o, p)
             before == RawBefore(raw, o, p)
  <2>1. q \in 0 .. p - 1
    BY PreviousIsBefore
  <2>2. before \in Nat /\ f[q] = before % 2 ^ WidthOfAll
    <3>1. CASE q = 0
      <4>1. before = 0 /\ f[q] = 0
        BY <3>1 DEF RawBefore, LowParts
      <4>2. 0 % 2 ^ WidthOfAll = 0
        <5>1. 2 ^ WidthOfAll \in Nat \ {0}
          BY PowNat
        <5>2. 0 \in 0 .. 2 ^ WidthOfAll - 1
          BY <5>1
        <5>3. QED BY <5>1, <5>2, SmallQuotient
      <4>3. QED BY <4>1, <4>2
    <3>2. CASE q # 0
      <4>1. q \in 1 .. n /\ q \in 0 .. n
        BY <2>1, <3>2
      <4>2. before = raw[q]
        BY <3>2 DEF RawBefore
      <4>3. f[q] = raw[q] % 2 ^ WidthOfAll
        BY <4>1, <3>2 DEF LowParts
      <4> HIDE DEF q, before, f
      <4>4. QED BY <4>1, <4>2, <4>3
    <3>3. QED BY <3>1, <3>2
  <2>3. words[p] = Difference(raw[p], before)
    BY WordsAreDifferences
  <2>4. f[p] = raw[p] % 2 ^ WidthOfAll
    <3>1. p \in 0 .. n /\ p # 0
      OBVIOUS
    <3>2. QED BY <3>1 DEF LowParts
  <2>5. raw[p] \in Nat
    OBVIOUS
  <2> HIDE DEF f, words, before, q
  <2>6. Undo(Difference(raw[p], before), before % 2 ^ WidthOfAll) = raw[p] % 2 ^ WidthOfAll
    BY <2>2, <2>5, UndoDifference
  <2>7. QED BY <2>2, <2>3, <2>4, <2>6 DEF q
<1>2. f[0] = 0
  BY DEF LowParts
<1>3. f = [p \in 0 .. n |-> f[p]]
  BY DEF LowParts
<1> HIDE DEF f, words
<1>4. ASSUME NEW p \in 0 .. n
      PROVE  f[p] = IF p = 0 THEN 0 ELSE Undo(words[p], f[Previous(o, p)])
  <2>1. CASE p = 0
    BY <2>1, <1>2
  <2>2. CASE p # 0
    BY <2>2, <1>1
  <2>3. QED BY <2>1, <2>2
<1>5. [p \in 0 .. n |-> f[p]]
        = [p \in 0 .. n |-> IF p = 0 THEN 0 ELSE Undo(words[p], f[Previous(o, p)])]
  BY <1>4
<1>6. QED BY <1>3, <1>5 DEF Chain, f, words

\* Reading the words of some values gives these values.
LEMMA WordsUndone ==
  ASSUME block.profile \in {"numeric", "bitwise"},
         WidthOfAll \in Nat \ {0}, NEW o, NEW n \in Nat, DOMAIN o = 1 .. n, Len(o) = n,
         NEW raw, \A p \in 1 .. n : raw[p] \in Nat
  PROVE  /\ RawOf(WordsOf(raw, o), o) = LowParts(raw, n)
         /\ \A p \in 1 .. n : WordsOf(raw, o)[p] \in 0 .. 2 ^ WidthOfAll - 1
         /\ WordsOf(raw, o) = [p \in 1 .. n |-> WordsOf(raw, o)[p]]
<1> DEFINE words == WordsOf(raw, o)
           f == CHOOSE g : Chain(g, words, o, n)
<1>1. Chain(LowParts(raw, n), words, o, n)
  BY LowPartsChain
<1>2. RawOf(words, o) = f
  <2> HIDE DEF words
  <2>1. CASE block.profile = "numeric"
    BY <2>1 DEF RawOf, NumericRaw, Chain, Undo
  <2>2. CASE block.profile # "numeric"
    BY <2>2 DEF RawOf, BitwiseRaw, Chain, Undo
  <2>3. QED BY <2>1, <2>2
<1>3. Chain(f, words, o, n)
  <2> HIDE DEF words
  <2>1. QED BY <1>1
<1>4. f = LowParts(raw, n)
  <2> HIDE DEF f, words
  <2>1. QED BY <1>1, <1>3, ChainUnique
<1>5. words = [p \in 1 .. n |-> words[p]]
  BY WordsAreDifferences
<1>6. ASSUME NEW p \in 1 .. n PROVE words[p] \in 0 .. 2 ^ WidthOfAll - 1
  <2>1. words[p] = Difference(raw[p], RawBefore(raw, o, p))
    BY WordsAreDifferences
  <2>2. RawBefore(raw, o, p) \in Nat
    <3>1. Previous(o, p) \in 0 .. p - 1
      BY PreviousIsBefore
    <3>2. QED BY <3>1 DEF RawBefore
  <2>3. raw[p] \in Nat
    OBVIOUS
  <2> HIDE DEF words
  <2>4. QED BY <2>1, <2>2, <2>3, UndoDifference
<1>7. QED BY <1>2, <1>4, <1>5, <1>6


-----------------------------------------------------------------------------
(* A number and its bytes. *)

\* The remainder of a product of divisors.
LEMMA RemainderOfProduct ==
  ASSUME NEW v \in Nat, NEW a \in Nat \ {0}, NEW c \in Nat \ {0}
  PROVE  v % (a * c) = (v % a) + ((v \div a) % c) * a
<1> DEFINE q == v \div a
           r == v % a
           x == q \div c
           y == q % c
<1>1. q \in Nat /\ r \in 0 .. a - 1 /\ v = a * q + r
  BY DivisionDef
<1>2. x \in Nat /\ y \in 0 .. c - 1 /\ q = c * x + y
  <2> HIDE DEF q
  <2>1. QED BY <1>1, DivisionDef
<1> HIDE DEF q, r, x, y
<1>3. a * c \in Nat \ {0} /\ y * a + r \in 0 .. a * c - 1
  <2>1. a * (y + 1) <= a * c
    BY <1>2, ProductGrows
  <2>2. a * (y + 1) = y * a + a /\ y * a \in Nat /\ a * c \in Nat
    BY <1>2
  <2>3. a * c # 0
    OBVIOUS
  <2>4. QED BY <2>1, <2>2, <2>3, <1>1
<1>4. v = (a * c) * x + (y * a + r)
  <2>1. a * q = a * (c * x) + a * y /\ a * (c * x) = (a * c) * x /\ a * y = y * a
    BY <1>1, <1>2
  <2>2. (a * c) * x \in Nat /\ y * a \in Nat
    BY <1>1, <1>2
  <2> DEFINE s == (a * c) * x
             z == y * a
             u == a * q
  <2>3. s \in Nat /\ z \in Nat /\ u = s + z /\ v = u + r /\ r \in Nat
    BY <2>1, <2>2, <1>1
  <2> HIDE DEF s, z, u
  <2>4. v = s + (z + r)
    BY <2>3
  <2>5. QED BY <2>4 DEF s, z
<1>5. v % (a * c) = y * a + r
  <2> DEFINE m == a * c
             z == y * a + r
  <2>1. v \in Nat /\ m \in Nat \ {0} /\ x \in Int /\ z \in 0 .. m - 1 /\ v = m * x + z
    BY <1>2, <1>3, <1>4
  <2> HIDE DEF m, z
  <2>2. v % m = z
    BY <2>1, QuotientUnique
  <2>3. QED BY <2>2 DEF m, z
<1>6. QED BY <1>5, <1>1, <1>2 DEF q, r, y

\* The k-th byte of a number.
ByteOf(v, k) == (v \div 2 ^ (ByteBits * (k - 1))) % 2 ^ ByteBits

\* Its lower n bytes make up the number's lower part.
LEMMA BytesAddUp ==
  ASSUME NEW v \in Nat, NEW m \in Nat, NEW w,
         \A l \in 1 .. m : w[l] = ByteOf(v, l) * 2 ^ (ByteBits * (l - 1))
  PROVE  Total(w, m) = v % 2 ^ (ByteBits * m)
<1> DEFINE S == {n \in Nat : n <= m => Total(w, n) = v % 2 ^ (ByteBits * n)}
<1>1. 0 \in S
  <2>1. ByteBits * 0 = 0 /\ 2 ^ 0 = 1
    BY AreaAssumption, PowNat
  <2>2. v % 1 = 0
    OBVIOUS
  <2>3. Total(w, 0) = 0
    BY TotalStep
  <2>4. QED BY <2>1, <2>2, <2>3
<1>2. ASSUME NEW n \in Nat, n \in S PROVE n + 1 \in S
  <2>1. SUFFICES ASSUME n + 1 <= m
                 PROVE  Total(w, n + 1) = v % 2 ^ (ByteBits * (n + 1))
    OBVIOUS
  <2> DEFINE a == 2 ^ (ByteBits * n)
             c == 2 ^ ByteBits
  <2>2. a \in Nat \ {0} /\ c \in Nat \ {0} /\ 2 ^ (ByteBits * (n + 1)) = a * c
    <3>1. ByteBits \in Nat /\ ByteBits * n \in Nat
          /\ ByteBits * (n + 1) = ByteBits * n + ByteBits
      BY AreaAssumption
    <3>2. QED BY <3>1, PowNat, PowAdd
  <2>3. Total(w, n) = v % a
    BY <2>1, <1>2
  <2>4. Total(w, n + 1) = Total(w, n) + w[n + 1]
    BY TotalStep
  <2>5. w[n + 1] = ((v \div a) % c) * a
    <3>1. n + 1 \in 1 .. m /\ (n + 1) - 1 = n
      BY <2>1
    <3>2. QED BY <3>1 DEF ByteOf
  <2> HIDE DEF a, c
  <2>6. v % (a * c) = (v % a) + ((v \div a) % c) * a
    BY <2>2, RemainderOfProduct
  <2>7. QED BY <2>2, <2>3, <2>4, <2>5, <2>6
<1> HIDE DEF S
<1>3. m \in S
  BY <1>1, <1>2, SetInduction
<1>4. QED BY <1>3 DEF S

-----------------------------------------------------------------------------
(* Shuffling and back. *)

\* Where block k ends, in values.
BlockEnd(n, k) == IF ShuffleBlock * k < n THEN ShuffleBlock * k ELSE n
BlockOf(words, k) ==
  SubSeq(words, ShuffleBlock * (k - 1) + 1, BlockEnd(Len(words), k))
BlocksIn(n) == (n + ShuffleBlock - 1) \div ShuffleBlock
LanesOf(words, width, k) ==
  [l \in 1 .. width |->
     [i \in DOMAIN BlockOf(words, k) |-> ByteOf(BlockOf(words, k)[i], l)]]

LEMMA ShuffleParts ==
  ASSUME NEW words, NEW width
  PROVE  Shuffle(words, width) =
           FlattenSeq([k \in 1 .. BlocksIn(Len(words)) |->
                         FlattenSeq(LanesOf(words, width, k))])
  BY DEF Shuffle, BlocksIn, LanesOf, BlockOf, BlockEnd, ByteOf

\* A sequence of n words.
AreWords(words, n) == words = [p \in 1 .. n |-> words[p]]

\* The blocks follow each other.
LEMMA BlockEnds ==
  ASSUME NEW n \in Nat, NEW k \in 1 .. BlocksIn(n)
  PROVE  /\ BlockEnd(n, k) \in Nat /\ BlockEnd(n, k - 1) = ShuffleBlock * (k - 1)
         /\ ShuffleBlock * (k - 1) \in Nat /\ ShuffleBlock * (k - 1) + 1 <= n
         /\ ShuffleBlock * (k - 1) + 1 <= BlockEnd(n, k) /\ BlockEnd(n, k) <= n
<1> DEFINE b == ShuffleBlock
           t == b * (k - 1)
<1>1. b \in Nat \ {0}
  BY AreaAssumption
<1>2. BlocksIn(n) \in Nat /\ b * BlocksIn(n) <= n + b - 1
  <2>1. n + b - 1 \in Nat
    BY <1>1
  <2> DEFINE a == n + b - 1
  <2> HIDE DEF a
  <2>2. a \div b \in Nat /\ a % b \in 0 .. b - 1 /\ a = b * (a \div b) + (a % b)
    BY <1>1, <2>1, DivisionDef DEF a
  <2>3. b * (a \div b) <= a
    <3> DEFINE z == b * (a \div b)
    <3>1. z \in Nat
      BY <1>1, <2>2
    <3> HIDE DEF z
    <3>2. QED BY <3>1, <2>2 DEF z
  <2>4. QED BY <2>2, <2>3 DEF BlocksIn, a
<1>3. t \in Nat /\ b * k = t + b /\ b * k \in Nat
  BY <1>1, <1>2
<1>4. t + b <= n + b - 1
  <2>1. b * k <= b * BlocksIn(n)
    BY <1>1, <1>2, ProductGrows
  <2> DEFINE x == b * BlocksIn(n)
             y == b * k
  <2>2. x \in Nat /\ y \in Nat /\ y <= x /\ x <= n + b - 1 /\ y = t + b
    BY <2>1, <1>1, <1>2, <1>3
  <2> HIDE DEF x, y, t, b
  <2>3. QED BY <2>2, <1>1, <1>3
<1>5. t + 1 <= n
  <2> HIDE DEF t, b
  <2>1. QED BY <1>1, <1>3, <1>4
<1>6. BlockEnd(n, k - 1) = t
  <2>1. BlockEnd(n, k - 1) = IF t < n THEN t ELSE n
    BY DEF BlockEnd
  <2> HIDE DEF t
  <2>2. QED BY <2>1, <1>3, <1>5
<1>7. BlockEnd(n, k) \in Nat /\ t + 1 <= BlockEnd(n, k) /\ BlockEnd(n, k) <= n
  <2>1. BlockEnd(n, k) = IF b * k < n THEN b * k ELSE n
    BY DEF BlockEnd
  <2> HIDE DEF t
  <2>2. QED BY <2>1, <1>1, <1>3, <1>5
<1>8. QED BY <1>3, <1>5, <1>6, <1>7

\* A block of the words.
LEMMA BlockIs ==
  ASSUME NEW n \in Nat, NEW words, AreWords(words, n), NEW k \in 1 .. BlocksIn(n)
  PROVE  /\ Len(words) = n
         /\ DOMAIN BlockOf(words, k) = 1 .. BlockEnd(n, k) - ShuffleBlock * (k - 1)
         /\ BlockEnd(n, k) - ShuffleBlock * (k - 1) \in Nat
         /\ \A i \in 1 .. BlockEnd(n, k) - ShuffleBlock * (k - 1) :
              BlockOf(words, k)[i] = words[ShuffleBlock * (k - 1) + i]
<1> DEFINE t == ShuffleBlock * (k - 1)
           e == BlockEnd(n, k)
<1>1. IsSeq(words) /\ Len(words) = n
  BY IsSeqFunction DEF AreWords
<1>2. PICK R : words \in Seq(R)
  BY <1>1 DEF IsSeq
<1>3. t \in Nat /\ e \in Nat /\ t + 1 <= n /\ t + 1 <= e /\ e <= n
  BY BlockEnds
<1>4. BlockOf(words, k) = SubSeq(words, t + 1, e)
  BY <1>1 DEF BlockOf
<1> HIDE DEF t, e
<1>5. t + 1 \in 1 .. Len(words) + 1 /\ e \in (t + 1) - 1 .. Len(words)
  BY <1>1, <1>3
<1> DEFINE s == SubSeq(words, t + 1, e)
<1>6. /\ s \in Seq(R) /\ Len(s) = e - (t + 1) + 1
      /\ \A i \in 1 .. e - (t + 1) + 1 : s[i] = words[(t + 1) + i - 1]
  BY <1>2, <1>5, SubSeqProperties
<1> HIDE DEF s
<1>7. e - (t + 1) + 1 = e - t /\ e - t \in Nat
  BY <1>3
<1>8. DOMAIN s = 1 .. e - t
  BY <1>6, <1>7
<1>9. ASSUME NEW i \in 1 .. e - t PROVE s[i] = words[t + i]
  <2>1. (t + 1) + i - 1 = t + i
    BY <1>3
  <2>2. QED BY <2>1, <1>6, <1>7
<1>10. QED BY <1>1, <1>4, <1>7, <1>8, <1>9 DEF s, t, e


\* The bytes g of the values that stand behind t.
LanesAre(g, words, width, t, size) ==
  /\ IsSeq(g) /\ Len(g) = width * size
  /\ \A l \in 1 .. width : \A i \in 1 .. size :
       g[(l - 1) * size + i] = ByteOf(words[t + i], l)

\* The bytes of one block: byte k of all its values before byte k + 1 of any.
LEMMA LanesAt ==
  ASSUME NEW n \in Nat, NEW words, AreWords(words, n),
         NEW width \in Nat, NEW k \in 1 .. BlocksIn(n), NEW t, NEW size, NEW g,
         t = ShuffleBlock * (k - 1), size = BlockEnd(n, k) - t,
         g = FlattenSeq(LanesOf(words, width, k))
  PROVE  LanesAre(g, words, width, t, size)
<1> DEFINE F == LanesOf(words, width, k)
<1>1. /\ DOMAIN BlockOf(words, k) = 1 .. size /\ size \in Nat
      /\ \A i \in 1 .. size : BlockOf(words, k)[i] = words[t + i]
  BY BlockIs
<1>2. F = [l \in 1 .. width |-> [i \in 1 .. size |-> ByteOf(BlockOf(words, k)[i], l)]]
  BY <1>1 DEF LanesOf
<1>3. ASSUME NEW l \in 1 .. width
      PROVE  /\ F[l] = [i \in 1 .. size |-> F[l][i]]
             /\ \A i \in 1 .. size : F[l][i] = ByteOf(words[t + i], l)
  <2> DEFINE f == [i \in 1 .. size |-> ByteOf(BlockOf(words, k)[i], l)]
  <2>1. F[l] = f
    BY <1>2
  <2>2. f = [i \in 1 .. size |-> f[i]]
    OBVIOUS
  <2>3. \A i \in 1 .. size : f[i] = ByteOf(words[t + i], l)
    BY <1>1
  <2> HIDE DEF f, F
  <2>4. QED BY <2>1, <2>2, <2>3
<1>4. F = [l \in 1 .. width |-> F[l]]
  BY <1>2
<1>5. g = FlattenSeq(F)
  OBVIOUS
<1> HIDE DEF F
<1>6. \A l \in 1 .. width : IsSeq(F[l]) /\ Len(F[l]) = size
  <2> TAKE l \in 1 .. width
  <2> DEFINE f == F[l]
  <2>1. f = [i \in 1 .. size |-> f[i]]
    BY <1>3
  <2> HIDE DEF f
  <2>2. IsSeq(f) /\ Len(f) = size
    BY <2>1, <1>1, IsSeqFunction
  <2>3. QED BY <2>2 DEF f
<1>7. PartsAre(F, width, size)
  BY <1>4, <1>6 DEF PartsAre
<1>8. InTurn(g, F, width, size)
  BY <1>1, <1>5, <1>7, FlattenEqual
<1>9. ASSUME NEW l \in 1 .. width, NEW i \in 1 .. size
      PROVE  g[(l - 1) * size + i] = ByteOf(words[t + i], l)
  <2>1. g[(l - 1) * size + i] = F[l][i]
    BY <1>8 DEF InTurn
  <2>2. QED BY <2>1, <1>3
<1>10. IsSeq(g) /\ Len(g) = width * size
  BY <1>8 DEF InTurn
<1>11. QED BY <1>9, <1>10 DEF LanesAre

\* The bytes of all blocks.
LEMMA ShuffledBytes ==
  ASSUME NEW n \in Nat, NEW words, AreWords(words, n),
         NEW width \in Nat, NEW k \in 1 .. BlocksIn(n), NEW t, NEW size,
         t = ShuffleBlock * (k - 1), size = BlockEnd(n, k) - t,
         NEW l \in 1 .. width, NEW i \in 1 .. size
  PROVE  Shuffle(words, width)[t * width + ((l - 1) * size + i)]
           = ByteOf(words[t + i], l)
<1> DEFINE K == BlocksIn(n)
           F == [j \in 1 .. K |-> FlattenSeq(LanesOf(words, width, j))]
           S == [j \in 0 .. K |-> width * BlockEnd(n, j)]
<1>1. Len(words) = n
  BY IsSeqFunction DEF AreWords
<1>2. Shuffle(words, width) = FlattenSeq(F)
  BY <1>1, ShuffleParts
<1>3. K \in Nat
  <2>1. n + ShuffleBlock - 1 \in Nat /\ ShuffleBlock \in Nat \ {0}
    BY AreaAssumption
  <2>2. (n + ShuffleBlock - 1) \div ShuffleBlock \in Nat
    BY <2>1, DivisionDef
  <2>3. QED BY <2>2 DEF BlocksIn
<1>4. ASSUME NEW j \in 1 .. K
      PROVE  /\ IsSeq(F[j]) /\ S[j - 1] \in Nat /\ S[j] = S[j - 1] + Len(F[j])
             /\ S[j - 1] = (ShuffleBlock * (j - 1)) * width
             /\ Len(F[j]) = width * (BlockEnd(n, j) - ShuffleBlock * (j - 1))
             /\ \A x \in 1 .. width :
                  \A y \in 1 .. BlockEnd(n, j) - ShuffleBlock * (j - 1) :
                    F[j][(x - 1) * (BlockEnd(n, j) - ShuffleBlock * (j - 1)) + y]
                      = ByteOf(words[ShuffleBlock * (j - 1) + y], x)
  <2> DEFINE u == ShuffleBlock * (j - 1)
             e == BlockEnd(n, j)
             z == e - u
             g == FlattenSeq(LanesOf(words, width, j))
  <2>1. /\ u \in Nat /\ e \in Nat /\ u + 1 <= e /\ BlockEnd(n, j - 1) = u
    BY BlockEnds
  <2>2. F[j] = g
    OBVIOUS
  <2>3. /\ IsSeq(g) /\ Len(g) = width * z
        /\ \A x \in 1 .. width : \A y \in 1 .. z :
             g[(x - 1) * z + y] = ByteOf(words[u + y], x)
    <3> HIDE DEF g, u
    <3>1. u = ShuffleBlock * (j - 1) /\ z = BlockEnd(n, j) - u
          /\ g = FlattenSeq(LanesOf(words, width, j))
      BY DEF g, u
    <3> HIDE DEF z
    <3>2. j \in 1 .. BlocksIn(n)
      OBVIOUS
    <3> HIDE DEF K
    <3>3. LanesAre(g, words, width, u, z)
      BY <3>1, <3>2, LanesAt
    <3>4. QED BY <3>3 DEF LanesAre
  <2>4. S[j - 1] = width * u /\ S[j] = width * e
    <3>1. j - 1 \in 0 .. K /\ j \in 0 .. K
      BY <1>3
    <3>2. S[j - 1] = width * BlockEnd(n, j - 1)
      BY <3>1
    <3>3. QED BY <3>1, <3>2, <2>1
  <2>5. width * e = width * u + width * z /\ width * u \in Nat /\ width * u = u * width
    <3> HIDE DEF u, e
    <3>1. z \in Nat
      BY <2>1
    <3>2. e = u + z
      BY <2>1
    <3> HIDE DEF z
    <3>3. QED BY <2>1, <3>1, <3>2
  <2> HIDE DEF F, S, g
  <2>6. QED BY <2>2, <2>3, <2>4, <2>5
<1>5. S[0] = 0
  <2>1. ShuffleBlock * 0 = 0 /\ 0 \in 0 .. K
    BY <1>3, AreaAssumption
  <2>2. BlockEnd(n, 0) = 0
    BY <2>1 DEF BlockEnd
  <2>3. S[0] = width * BlockEnd(n, 0)
    BY <2>1
  <2>4. QED BY <2>2, <2>3
<1>6. F = [j \in 1 .. K |-> F[j]]
  OBVIOUS
<1> HIDE DEF F, S, K
<1>7. LengthsAre(F, K, S)
  BY <1>4, <1>5, <1>6 DEF LengthsAre
<1>8. Joined(FlattenSeq(F), F, K, S)
  BY <1>3, <1>7, FlattenAt
<1>9. k \in 1 .. K
  BY DEF K
<1> DEFINE e == (l - 1) * size + i
<1>10. /\ Len(F[k]) = width * size /\ F[k][e] = ByteOf(words[t + i], l)
       /\ S[k - 1] = t * width
  BY <1>4, <1>9
<1>11. e \in 1 .. width * size
  <2>1. size \in Nat
    BY BlockIs
  <2> HIDE DEF e
  <2>2. size * l <= size * width
    BY <2>1, ProductGrows
  <2>6. size * l = (l - 1) * size + size /\ size * width = width * size
        /\ (l - 1) * size \in Nat /\ width * size \in Nat
    BY <2>1
  <2> DEFINE x == (l - 1) * size
             y == width * size
  <2>3. x \in Nat /\ y \in Nat /\ x + size <= y
    BY <2>2, <2>6
  <2> HIDE DEF x, y
  <2>4. x + i \in 1 .. y
    BY <2>1, <2>3
  <2>5. QED BY <2>4 DEF x, y, e
<1> HIDE DEF e
<1>12. FlattenSeq(F)[S[k - 1] + e] = F[k][e]
  <2>1. e \in 1 .. Len(F[k])
    BY <1>10, <1>11
  <2>2. QED BY <1>8, <1>9, <2>1 DEF Joined
<1>13. QED BY <1>2, <1>10, <1>12 DEF e

\* The block of a position.
LEMMA BlockOfPosition ==
  ASSUME NEW n \in Nat, NEW p \in 1 .. n
  PROVE  \E k \in 1 .. BlocksIn(n) :
           /\ (p - 1) \div ShuffleBlock = k - 1
           /\ p - ShuffleBlock * (k - 1) \in
                1 .. BlockEnd(n, k) - ShuffleBlock * (k - 1)
           /\ Min({ShuffleBlock, n - ShuffleBlock * (k - 1)})
                = BlockEnd(n, k) - ShuffleBlock * (k - 1)
<1> DEFINE b == ShuffleBlock
           q == (p - 1) \div b
           r == (p - 1) % b
<1>1. b \in Nat \ {0} /\ p - 1 \in Nat
  BY AreaAssumption
<1>2. q \in Nat /\ r \in 0 .. b - 1 /\ p - 1 = b * q + r
  <2> HIDE DEF b
  <2>1. QED BY <1>1, DivisionDef
<1> DEFINE a == n + b - 1
           K == a \div b
<1>3. K \in Nat /\ a % b \in 0 .. b - 1 /\ a = b * K + (a % b) /\ a \in Nat
  <2>1. a \in Nat
    BY <1>1
  <2> HIDE DEF a, b
  <2>2. QED BY <2>1, <1>1, DivisionDef
<1>4. K = BlocksIn(n)
  BY DEF BlocksIn
<1>5. a = n + b - 1
  OBVIOUS
<1> HIDE DEF q, r, K, a
<1>6. b * q \in Nat /\ b * q + 1 <= p
  <2>1. b * q \in Nat
    BY <1>1, <1>2
  <2> DEFINE x == b * q
  <2> HIDE DEF x, b
  <2>2. x \in Nat => x + 1 <= p
    BY <1>2, <1>1 DEF x
  <2>3. QED BY <2>1, <2>2 DEF x
<1>7. q + 1 <= K
  <2>1. SUFFICES ASSUME K <= q PROVE FALSE
    BY <1>2, <1>3
  <2>2. b * K <= b * q
    BY <2>1, <1>1, <1>2, <1>3, ProductGrows
  <2> DEFINE x == b * q
             y == b * K
  <2>3. x \in Nat /\ y \in Nat /\ y <= x /\ x + 1 <= p
    BY <2>2, <1>6, <1>1, <1>3
  <2>4. a = y + (a % b) /\ a % b \in 0 .. b - 1 /\ a = n + b - 1
    BY <1>3, <1>5
  <2> DEFINE z == a % b
  <2> HIDE DEF x, y, z, b
  <2>5. z \in Nat /\ z <= b - 1 /\ a = y + z /\ a = n + b - 1
    BY <2>4, <1>1 DEF z
  <2>6. QED BY <2>3, <2>5, <1>1
<1> DEFINE k == q + 1
           t == b * (k - 1)
<1>8. k \in 1 .. BlocksIn(n) /\ k - 1 = q /\ t = b * q
  BY <1>2, <1>3, <1>4, <1>7
<1>9. b * k = t + b
  BY <1>8, <1>1, <1>2
<1>10. BlockEnd(n, k) = IF t + b < n THEN t + b ELSE n
  BY <1>9 DEF BlockEnd
<1>11. t \in Nat /\ t + 1 <= p /\ p <= t + b
  <2>1. p - 1 = t + r /\ t \in Nat /\ t + 1 <= p
    BY <1>2, <1>6, <1>8
  <2> HIDE DEF t
  <2>2. QED BY <2>1, <1>1, <1>2
<1> HIDE DEF k, t, b
<1>12. p - t \in 1 .. BlockEnd(n, k) - t
  BY <1>1, <1>10, <1>11
<1>13. Min({b, n - t}) = BlockEnd(n, k) - t
  <2> DEFINE x == n - t
             m == IF b <= x THEN b ELSE x
  <2>1. x \in Int /\ b \in Int
    BY <1>1, <1>11
  <2>2. BlockEnd(n, k) - t = m
    BY <1>1, <1>10, <1>11
  <2> HIDE DEF x
  <2>3. m \in {b, x} /\ \A y \in {b, x} : m <= y
    BY <2>1
  <2>4. \A z \in {b, x} : (\A y \in {b, x} : z <= y) => z = m
    BY <2>1
  <2> HIDE DEF m
  <2>5. Min({b, x}) = m
    BY <2>3, <2>4 DEF Min
  <2>6. QED BY <2>2, <2>5 DEF x
<1>14. QED BY <1>2, <1>8, <1>12, <1>13 DEF t, q, b

\* Shuffling is undone.
LEMMA ShuffleUndone ==
  ASSUME NEW n \in Nat, NEW words, AreWords(words, n),
         NEW width \in Nat, \A p \in 1 .. n : words[p] \in 0 .. 2 ^ (ByteBits * width) - 1
  PROVE  Unshuffle(Shuffle(words, width), n, width) = words
<1> DEFINE bytes == Shuffle(words, width)
           Lanes(p) == [l \in 1 .. width |->
             bytes[ShuffledAt(n, width, p, l)] * 2 ^ (ByteBits * (l - 1))]
<1>1. ASSUME NEW p \in 1 .. n PROVE Total(Lanes(p), width) = words[p]
  <2>1. PICK k \in 1 .. BlocksIn(n) :
           /\ (p - 1) \div ShuffleBlock = k - 1
           /\ p - ShuffleBlock * (k - 1) \in
                1 .. BlockEnd(n, k) - ShuffleBlock * (k - 1)
           /\ Min({ShuffleBlock, n - ShuffleBlock * (k - 1)})
                = BlockEnd(n, k) - ShuffleBlock * (k - 1)
    BY BlockOfPosition
  <2> DEFINE t == ShuffleBlock * (k - 1)
             size == BlockEnd(n, k) - t
             i == p - t
  <2>2. t \in Nat /\ t + i = p /\ i \in 1 .. size /\ size \in Nat
    <3>1. t \in Nat /\ BlockEnd(n, k) \in Nat
      BY BlockEnds
    <3>2. i \in 1 .. size
      BY <2>1
    <3> HIDE DEF t
    <3>3. QED BY <3>1, <3>2
  <2>3. ASSUME NEW l \in 1 .. width
        PROVE  bytes[ShuffledAt(n, width, p, l)] = ByteOf(words[p], l)
    <3>1. ShuffledAt(n, width, p, l) = t * width + (l - 1) * size + (p - t)
      BY <2>1 DEF ShuffledAt
    <3>2. bytes[t * width + ((l - 1) * size + i)] = ByteOf(words[t + i], l)
      <4> HIDE DEF bytes
      <4>1. t = ShuffleBlock * (k - 1) /\ size = BlockEnd(n, k) - t /\ i \in 1 .. size
        BY <2>2
      <4> HIDE DEF t, size, i
      <4>2. Shuffle(words, width)[t * width + ((l - 1) * size + i)]
              = ByteOf(words[t + i], l)
        BY <4>1, ShuffledBytes
      <4>3. QED BY <4>2 DEF bytes
    <3>3. t * width + (l - 1) * size + i = t * width + ((l - 1) * size + i)
      <4>1. t * width \in Int /\ (l - 1) * size \in Int /\ i \in Int
        <5> HIDE DEF t, size, i
        <5>1. QED BY <2>2
      <4> DEFINE x == t * width
                 y == (l - 1) * size
      <4> HIDE DEF x, y, i
      <4>2. x \in Int /\ y \in Int /\ i \in Int => x + y + i = x + (y + i)
        OBVIOUS
      <4>3. QED BY <4>1, <4>2 DEF x, y
    <3>4. QED BY <3>1, <3>2, <3>3, <2>2
  <2> DEFINE v == words[p]
  <2>4. v \in Nat /\ v \in 0 .. 2 ^ (ByteBits * width) - 1
    OBVIOUS
  <2>5. \A l \in 1 .. width :
          Lanes(p)[l] = ByteOf(v, l) * 2 ^ (ByteBits * (l - 1))
    BY <2>3
  <2> DEFINE w == Lanes(p)
  <2> HIDE DEF v, w
  <2>6. Total(w, width) = v % 2 ^ (ByteBits * width)
    BY <2>4, <2>5, BytesAddUp DEF w
  <2>7. v % 2 ^ (ByteBits * width) = v
    <3>1. ByteBits * width \in Nat
      BY AreaAssumption
    <3>2. 2 ^ (ByteBits * width) \in Nat \ {0}
      BY <3>1, PowNat
    <3>3. QED BY <3>2, <2>4, SmallQuotient
  <2>8. QED BY <2>6, <2>7 DEF v, w
<1>2. Unshuffle(bytes, n, width) = [p \in 1 .. n |-> Total(Lanes(p), width)]
  BY DEF Unshuffle
<1> HIDE DEF Lanes, bytes
<1>3. [p \in 1 .. n |-> Total(Lanes(p), width)] = [p \in 1 .. n |-> words[p]]
  BY <1>1
<1>4. QED BY <1>2, <1>3 DEF bytes, AreWords


-----------------------------------------------------------------------------
(* Fields in canonical form. *)

\* Dividing twice.
LEMMA TwoQuotients ==
  ASSUME NEW v \in Nat, NEW a \in Nat \ {0}, NEW c \in Nat \ {0}
  PROVE  v \div (a * c) = (v \div a) \div c
<1> DEFINE q == v \div a
           r == v % a
           x == q \div c
           y == q % c
           m == a * c
           z == y * a + r
<1>1. q \in Nat /\ r \in 0 .. a - 1 /\ v = a * q + r
  BY DivisionDef
<1>2. x \in Nat /\ y \in 0 .. c - 1 /\ q = c * x + y
  <2> HIDE DEF q
  <2>1. QED BY <1>1, DivisionDef
<1> HIDE DEF q, r, x, y
<1>3. m \in Nat \ {0} /\ z \in 0 .. m - 1
  <2>1. a * (y + 1) <= a * c
    BY <1>2, ProductGrows
  <2>2. a * (y + 1) = y * a + a /\ y * a \in Nat /\ a * c \in Nat
    BY <1>2
  <2>3. a * c # 0
    OBVIOUS
  <2>4. QED BY <2>1, <2>2, <2>3, <1>1
<1>4. v = m * x + z
  <2>1. a * q = a * (c * x) + a * y /\ a * (c * x) = (a * c) * x /\ a * y = y * a
    BY <1>1, <1>2
  <2>2. (a * c) * x \in Nat /\ y * a \in Nat
    BY <1>1, <1>2
  <2> DEFINE s == (a * c) * x
             k == y * a
             u == a * q
  <2>3. s \in Nat /\ k \in Nat /\ u = s + k /\ v = u + r /\ r \in Nat
    BY <2>1, <2>2, <1>1
  <2> HIDE DEF s, k, u
  <2>4. v = s + (k + r)
    BY <2>3
  <2>5. QED BY <2>4 DEF s, k
<1> HIDE DEF m, z
<1>5. v \div m = x
  BY <1>2, <1>3, <1>4, QuotientUnique
<1>6. QED BY <1>5 DEF m, x, q

\* All bits of 2 ^ m - 1 are ones.
LEMMA AllOnes ==
  ASSUME NEW m \in Nat, NEW j \in 0 .. m - 1
  PROVE  ((2 ^ m - 1) \div 2 ^ j) % 2 = 1
<1> DEFINE a == 2 ^ j
           c == 2 ^ ((m - j) - 1)
<1>1. a \in Nat \ {0} /\ c \in Nat \ {0} /\ 2 ^ m = a * (2 * c)
  <2>1. j \in Nat /\ (m - j) - 1 \in Nat /\ ((m - j) - 1) + 1 = m - j /\ j <= m
    OBVIOUS
  <2>2. 2 ^ m = a * 2 ^ (m - j)
    BY <2>1, PowParts
  <2>3. 2 ^ (m - j) = 2 * c
    <3>1. 2 ^ (((m - j) - 1) + 1) = 2 * c
      BY <2>1, PowNat
    <3>2. QED BY <3>1, <2>1
  <2>4. QED BY <2>1, <2>2, <2>3, PowNat
<1> HIDE DEF a, c
<1> DEFINE v == 2 ^ m - 1
           q == 2 * c - 1
<1>2. /\ v \in Nat /\ q \in Nat /\ a - 1 \in 0 .. a - 1 /\ v = a * q + (a - 1)
  <2>1. a * q = a * (2 * c) - a /\ a * (2 * c) \in Nat \ {0} /\ q \in Nat
    BY <1>1
  <2> DEFINE x == a * (2 * c)
             y == a * q
  <2>2. y = x - a /\ x \in Nat \ {0} /\ v = x - 1
    BY <2>1, <1>1
  <2> HIDE DEF x, y, q, v
  <2>3. v \in Nat /\ v = y + (a - 1) /\ a - 1 \in 0 .. a - 1
    BY <2>2, <1>1
  <2>4. QED BY <2>1, <2>3 DEF y, q
<1> HIDE DEF v
<1>3. v \div a = q
  <2> HIDE DEF q
  <2>1. QED BY <1>1, <1>2, QuotientUnique
<1>4. q % 2 = 1
  <2>1. q \in Nat /\ c - 1 \in Int /\ q = 2 * (c - 1) + 1
    BY <1>1
  <2> HIDE DEF q
  <2>2. QED BY <2>1, RemainderUnique
<1>5. QED BY <1>3, <1>4 DEF v, a

\* Copies of the sign above a number leave the number alone.
LEMMA ExtendedParts ==
  ASSUME NEW h \in Nat \ {0}, NEW e \in Nat, NEW r \in 0 .. 2 * h - 1
  PROVE  /\ r + (2 * h) * e \in Nat
         /\ (r + (2 * h) * e) \div (2 * h) = e
         /\ (r + (2 * h) * e) % (2 * h) = r
         /\ ((r + (2 * h) * e) \div h) % 2 = (r \div h) % 2
<1> DEFINE a == 2 * h
           t == a * e
           v == r + t
           q == r \div h
           s == r % h
<1>1. a \in Nat \ {0} /\ t \in Nat /\ v \in Nat /\ v = t + r /\ r \in 0 .. a - 1
  <2>1. a \in Nat \ {0} /\ t \in Nat /\ r \in Nat
    OBVIOUS
  <2> HIDE DEF t
  <2>2. QED BY <2>1
<1>2. v \div a = e /\ v % a = r
  <2>1. v = a * e + r
    BY <1>1 DEF t
  <2> HIDE DEF v, a
  <2>2. QED BY <2>1, <1>1, QuotientUnique
<1>3. q \in Nat /\ s \in 0 .. h - 1 /\ r = h * q + s
  <2>1. r \in Nat
    OBVIOUS
  <2>2. QED BY <2>1, DivisionDef
<1> HIDE DEF q, s
<1>4. h * (q + 2 * e) = h * q + t /\ h * q \in Nat /\ q + 2 * e \in Nat
  BY <1>3
<1>5. v = h * (q + 2 * e) + s
  <2> DEFINE x == h * (q + 2 * e)
             y == h * q
  <2>1. x = y + t /\ y \in Nat /\ r = y + s /\ v = t + r
    BY <1>1, <1>3, <1>4
  <2> HIDE DEF x, y, t, v
  <2>2. v = x + s
    BY <2>1, <1>1, <1>3
  <2>3. QED BY <2>2 DEF x
<1>6. v \div h = q + 2 * e
  <2> HIDE DEF v
  <2>1. QED BY <1>1, <1>3, <1>4, <1>5, QuotientUnique
<1>7. (q + 2 * e) % 2 = q % 2
  <2>1. 2 \in Nat \ {0} /\ q \in Int /\ e \in Int
    BY <1>3
  <2>2. QED BY <2>1, SameRemainder
<1>8. QED BY <1>1, <1>2, <1>6, <1>7 DEF q

\* What write_canonical puts into a field.
Signed(v, c) == c.type = "signed" /\ (v \div 2 ^ (c.logical - 1)) % 2 = 1

LEMMA StoredFormIs ==
  ASSUME NEW c \in Channels, ValidChannel(c), NEW r \in 0 .. 2 ^ c.logical - 1,
         NEW v, v = StoredForm(r, c)
  PROVE  /\ v \in 0 .. 2 ^ c.storage - 1 /\ v % 2 ^ c.logical = r
         /\ v \div 2 ^ c.logical =
              IF Signed(v, c) THEN 2 ^ (c.storage - c.logical) - 1 ELSE 0
<1> DEFINE l == c.logical
           s == c.storage
           h == 2 ^ (l - 1)
           a == 2 ^ l
           d == 2 ^ (s - l)
<1>1. l \in Nat \ {0} /\ s \in Nat \ {0} /\ l <= s
  BY ChannelBits
<1>2. h \in Nat \ {0} /\ a = 2 * h /\ (HasSign(r, l) <=> (r \div h) % 2 = 1)
  <2>1. l - 1 \in 0 .. l - 1
    BY <1>1
  <2>2. QED BY <1>1, <2>1, SignBit DEF HasSign, Bits
<1>3. 2 ^ s = a * d /\ d \in Nat \ {0}
  BY <1>1, PowParts
<1>4. r % a = r
  BY <1>2, SmallQuotient
<1> DEFINE e == IF c.type = "signed" /\ HasSign(r, l) THEN d - 1 ELSE 0
<1>5. e \in 0 .. d - 1 /\ e \in Nat
  BY <1>3
<1>6. v = r + a * e
  <2>1. CASE c.type = "signed" /\ HasSign(r, l)
    <3>1. v = r + 2 ^ s - a /\ e = d - 1
      BY <2>1, <1>4 DEF StoredForm
    <3>2. a * (d - 1) = a * d - a /\ a * d \in Nat /\ a \in Nat /\ r \in Nat
      BY <1>2, <1>3
    <3> DEFINE x == a * d
    <3>3. v = r + x - a /\ a * e = x - a /\ x \in Nat
      BY <3>1, <3>2, <1>3
    <3> DEFINE y == a * e
    <3>4. v = r + x - a /\ y = x - a /\ x \in Nat /\ a \in Nat /\ r \in Nat
      BY <3>2, <3>3
    <3> HIDE DEF x, y, a
    <3>5. v = r + y
      BY <3>4
    <3>6. QED BY <3>5 DEF y
  <2>2. CASE ~(c.type = "signed" /\ HasSign(r, l))
    <3>1. v = r /\ e = 0
      BY <2>2, <1>4 DEF StoredForm
    <3>2. a * 0 = 0 /\ r + 0 = r
      BY <1>2
    <3>3. QED BY <3>1, <3>2
  <2>3. QED BY <2>1, <2>2
<1>7. /\ v \in Nat /\ v \div a = e /\ v % a = r
      /\ (v \div h) % 2 = (r \div h) % 2
  <2>1. r \in 0 .. 2 * h - 1
    BY <1>2
  <2> HIDE DEF e, h, a
  <2>2. v = r + (2 * h) * e
    BY <1>2, <1>6
  <2>3. /\ r + (2 * h) * e \in Nat
        /\ (r + (2 * h) * e) \div (2 * h) = e
        /\ (r + (2 * h) * e) % (2 * h) = r
        /\ ((r + (2 * h) * e) \div h) % 2 = (r \div h) % 2
    BY <2>1, <1>2, <1>5, ExtendedParts
  <2>4. QED BY <2>2, <2>3, <1>2
<1>8. Signed(v, c) <=> (c.type = "signed" /\ HasSign(r, l))
  BY <1>2, <1>7 DEF Signed
<1>9. v \in 0 .. 2 ^ s - 1
  <2>1. a * e <= a * (d - 1)
    BY <1>2, <1>3, <1>5, ProductGrows
  <2>2. a * (d - 1) = a * d - a /\ a * d \in Nat /\ a * e \in Nat
    BY <1>2, <1>3, <1>5
  <2> DEFINE x == a * e
             y == a * d
  <2>3. x \in Nat /\ y \in Nat /\ x <= y - a /\ v = r + x /\ r \in 0 .. a - 1 /\ a \in Nat
        /\ 2 ^ s = y
    BY <2>1, <2>2, <1>2, <1>3, <1>6
  <2> HIDE DEF x, y, a, s
  <2>4. v \in 0 .. y - 1
    BY <2>3, <1>7
  <2>5. QED BY <2>3, <2>4 DEF s
<1>10. QED BY <1>7, <1>8, <1>9

\* Such a field is valid for both readers.
LEMMA CanonicalIsValid ==
  ASSUME NEW c \in Channels, ValidChannel(c), NEW v \in Nat,
         v \div 2 ^ c.logical =
           IF Signed(v, c) THEN 2 ^ (c.storage - c.logical) - 1 ELSE 0
  PROVE  ExtensionValid(v, c)
<1> DEFINE l == c.logical
           s == c.storage
           high == Bits(v, s) \ (0 .. l - 1)
<1>1. SUFFICES ASSUME s > l
               PROVE  high = IF c.type = "signed" /\ HasSign(v, l) THEN l .. s - 1 ELSE {}
  BY DEF ExtensionValid
<1>2. l \in Nat \ {0} /\ s \in Nat \ {0}
  BY ChannelBits
<1>3. HasSign(v, l) <=> (v \div 2 ^ (l - 1)) % 2 = 1
  <2>1. l - 1 \in 0 .. l - 1
    BY <1>2
  <2>2. QED BY <2>1 DEF HasSign, Bits
<1>4. high = {i \in l .. s - 1 : (v \div 2 ^ i) % 2 = 1}
  BY <1>1, <1>2 DEF Bits
<1>5. ASSUME NEW i \in l .. s - 1
      PROVE  (v \div 2 ^ i) % 2 = ((v \div 2 ^ l) \div 2 ^ (i - l)) % 2
  <2>1. l \in Nat /\ i \in Nat /\ l <= i
    BY <1>2
  <2>2. 2 ^ i = 2 ^ l * 2 ^ (i - l) /\ 2 ^ (i - l) \in Nat \ {0} /\ 2 ^ l \in Nat \ {0}
    BY <2>1, PowParts, PowNat
  <2>3. v \div (2 ^ l * 2 ^ (i - l)) = (v \div 2 ^ l) \div 2 ^ (i - l)
    BY <2>2, TwoQuotients
  <2>4. QED BY <2>2, <2>3
<1>6. CASE Signed(v, c)
  <2>1. \A i \in l .. s - 1 : (v \div 2 ^ i) % 2 = 1
    <3> TAKE i \in l .. s - 1
    <3>1. s - l \in Nat /\ i - l \in 0 .. (s - l) - 1
      BY <1>1, <1>2
    <3>2. ((2 ^ (s - l) - 1) \div 2 ^ (i - l)) % 2 = 1
      BY <3>1, AllOnes
    <3>3. QED BY <3>2, <1>5, <1>6
  <2>2. QED BY <2>1, <1>3, <1>4, <1>6 DEF Signed
<1>7. CASE ~Signed(v, c)
  <2>1. \A i \in l .. s - 1 : (v \div 2 ^ i) % 2 = 0
    <3> TAKE i \in l .. s - 1
    <3>1. i - l \in Nat
      BY <1>2
    <3>2. 2 ^ (i - l) \in Nat \ {0}
      BY <3>1, PowNat
    <3>3. 0 \in 0 .. 2 ^ (i - l) - 1
      BY <3>2
    <3>4. 0 \div 2 ^ (i - l) = 0
      BY <3>2, <3>3, SmallQuotient
    <3>5. v \div 2 ^ l = 0
      BY <1>7
    <3>6. QED BY <3>4, <3>5, <1>5
  <2>2. \A i \in l .. s - 1 : ~((v \div 2 ^ i) % 2 = 1)
    BY <2>1
  <2>3. high = {}
    BY <2>2, <1>4
  <2>4. ~(c.type = "signed" /\ HasSign(v, l))
    BY <1>3, <1>7 DEF Signed
  <2>5. QED BY <2>3, <2>4
<1>8. QED BY <1>6, <1>7


\* The fields of an order of n items.
FieldsOK(b, o, n) ==
  /\ DOMAIN o = 1 .. n /\ Len(o) = n /\ n \in Nat
  /\ \A p \in 1 .. n : FieldWidth(b, o[p]) \in Nat

\* Each field stands behind the ones before it.
LEMMA FieldStarts ==
  ASSUME NEW b, NEW o, NEW n, FieldsOK(b, o, n)
  PROVE  /\ \A p \in 1 .. n + 1 : FieldStart(b, o, p) \in Nat
         /\ \A p \in 1 .. n :
              FieldStart(b, o, p + 1) = FieldStart(b, o, p) + FieldWidth(b, o[p])
         /\ \A p \in 1 .. n + 1, q \in 1 .. n + 1 :
              p <= q => FieldStart(b, o, p) <= FieldStart(b, o, q)
         /\ UsedBits(b, o) = FieldStart(b, o, n + 1)
<1> DEFINE w == [q \in DOMAIN o |-> FieldWidth(b, o[q])]
<1>1. /\ n \in Nat /\ \A p \in 1 .. n : w[p] \in Nat /\ w[p] = FieldWidth(b, o[p])
  BY DEF FieldsOK
<1>2. \A p : FieldStart(b, o, p) = Total(w, p - 1)
  BY DEF FieldStart
<1>3. UsedBits(b, o) = FieldStart(b, o, n + 1)
  BY DEF UsedBits, FieldsOK
<1> HIDE DEF w
<1>4. /\ \A m \in 0 .. n : Total(w, m) \in Nat
      /\ \A m \in 1 .. n : Total(w, m) = Total(w, m - 1) + w[m]
  BY <1>1, TotalIsNat
<1>5. ASSUME NEW p \in 1 .. n + 1 PROVE FieldStart(b, o, p) \in Nat
  <2>1. p - 1 \in 0 .. n
    BY <1>1
  <2>2. QED BY <2>1, <1>2, <1>4
<1>6. ASSUME NEW p \in 1 .. n
      PROVE  FieldStart(b, o, p + 1) = FieldStart(b, o, p) + FieldWidth(b, o[p])
  <2>1. (p + 1) - 1 = p
    OBVIOUS
  <2>2. QED BY <2>1, <1>1, <1>2, <1>4
<1>7. ASSUME NEW p \in 1 .. n + 1, NEW q \in 1 .. n + 1, p <= q
      PROVE  FieldStart(b, o, p) <= FieldStart(b, o, q)
  <2>1. p - 1 \in 0 .. n /\ q - 1 \in 0 .. n /\ p - 1 <= q - 1
    BY <1>1, <1>7
  <2>2. Total(w, p - 1) <= Total(w, q - 1)
    BY <2>1, <1>1, TotalGrows
  <2>3. QED BY <2>2, <1>2
<1>8. QED BY <1>3, <1>5, <1>6, <1>7

\* No bit belongs to two fields.
LEMMA FieldsApart ==
  ASSUME NEW b, NEW o, NEW n, FieldsOK(b, o, n), NEW p \in 1 .. n, NEW q \in 1 .. n,
         NEW i \in 0 .. FieldWidth(b, o[p]) - 1, NEW j \in 0 .. FieldWidth(b, o[q]) - 1,
         FieldStart(b, o, p) + i = FieldStart(b, o, q) + j
  PROVE  p = q /\ i = j
<1> DEFINE P == FieldStart(b, o, p)
           Q == FieldStart(b, o, q)
           U == FieldWidth(b, o[p])
           V == FieldWidth(b, o[q])
           P1 == FieldStart(b, o, p + 1)
           Q1 == FieldStart(b, o, q + 1)
<1>1. /\ P \in Nat /\ Q \in Nat /\ U \in Nat /\ V \in Nat
      /\ P1 = P + U /\ Q1 = Q + V
      /\ p + 1 <= q => P1 <= Q
      /\ q + 1 <= p => Q1 <= P
  <2>1. /\ n \in Nat /\ U \in Nat /\ V \in Nat
        /\ p \in 1 .. n + 1 /\ q \in 1 .. n + 1
        /\ p + 1 \in 1 .. n + 1 /\ q + 1 \in 1 .. n + 1
    BY DEF FieldsOK
  <2> HIDE DEF U, V
  <2>2. P \in Nat /\ Q \in Nat
    BY <2>1, FieldStarts
  <2>3. P1 = P + U /\ Q1 = Q + V
    BY <2>1, FieldStarts DEF U, V
  <2>4. /\ p + 1 <= q => P1 <= Q
        /\ q + 1 <= p => Q1 <= P
    BY <2>1, FieldStarts
  <2>5. QED BY <2>1, <2>2, <2>3, <2>4
<1>2. P + i = Q + j /\ i \in 0 .. U - 1 /\ j \in 0 .. V - 1
  OBVIOUS
<1> HIDE DEF P, Q, U, V, P1, Q1
<1>3. ~(p + 1 <= q)
  BY <1>1, <1>2
<1>4. ~(q + 1 <= p)
  BY <1>1, <1>2
<1>5. n \in Nat
  BY DEF FieldsOK
<1>6. p = q
  BY <1>3, <1>4, <1>5
<1>7. P = Q
  BY <1>6 DEF P, Q
<1>8. i = j
  BY <1>1, <1>2, <1>7
<1>9. QED BY <1>6, <1>8

\* What is written into a field is read from it.
LEMMA WrittenIsRead ==
  ASSUME NEW b, NEW o, NEW n, FieldsOK(b, o, n), NEW raw, NEW area,
         area = WriteCanonical(b, o, raw),
         NEW p \in 1 .. n, NEW v \in Nat,
         v = StoredForm(raw[p], b.channels[o[p].channel]),
         v < 2 ^ FieldWidth(b, o[p])
  PROVE  Read(b, o, area, p) = v
<1> DEFINE width == FieldWidth(b, o[p])
           from == FieldStart(b, o, p)
           ones == {i \in 0 .. width - 1 : from + i \in area}
           Ones(q) == Bits(StoredForm(raw[q], b.channels[o[q].channel]), FieldWidth(b, o[q]))
<1>1. width \in Nat /\ DOMAIN o = 1 .. n
  BY DEF FieldsOK
<1>2. area = UNION {{FieldStart(b, o, q) + i : i \in Ones(q)} : q \in 1 .. n}
  BY <1>1 DEF WriteCanonical
<1>3. Ones(p) = Bits(v, width)
  OBVIOUS
<1>4. \A q \in 1 .. n : Ones(q) \subseteq 0 .. FieldWidth(b, o[q]) - 1
  BY DEF Bits
<1> HIDE DEF Ones
<1>5. ASSUME NEW i \in 0 .. width - 1 PROVE from + i \in area <=> i \in Ones(p)
  <2>1. ASSUME i \in Ones(p) PROVE from + i \in area
    BY <2>1, <1>2
  <2>2. ASSUME from + i \in area PROVE i \in Ones(p)
    <3>1. PICK q \in 1 .. n : from + i \in {FieldStart(b, o, q) + j : j \in Ones(q)}
      BY <2>2, <1>2
    <3>2. PICK j \in Ones(q) : from + i = FieldStart(b, o, q) + j
      BY <3>1
    <3>3. j \in 0 .. FieldWidth(b, o[q]) - 1
      BY <1>4
    <3>4. p = q /\ i = j
      BY <3>2, <3>3, FieldsApart
    <3>5. QED BY <3>4
  <2>3. QED BY <2>1, <2>2
<1>6. Ones(p) \subseteq 0 .. width - 1
  BY <1>4
<1>7. ones = Bits(v, width)
  BY <1>3, <1>5, <1>6
<1>8. Read(b, o, area, p) = Number(ones, width)
  BY DEF Read
<1> HIDE DEF ones, width
<1>9. Number(Bits(v, width), width) = v % 2 ^ width
  BY <1>1, NumberOfBits
<1>10. v % 2 ^ width = v
  <2>1. 2 ^ width \in Nat \ {0}
    BY <1>1, PowNat
  <2>2. v \in 0 .. 2 ^ width - 1
    BY <2>1 DEF width
  <2>3. QED BY <2>1, <2>2, SmallQuotient
<1>11. QED BY <1>7, <1>8, <1>9, <1>10

\* All of it lies within the fields.
LEMMA WrittenWithin ==
  ASSUME NEW b, NEW o, NEW n, FieldsOK(b, o, n), NEW raw
  PROVE  WriteCanonical(b, o, raw) \subseteq 0 .. UsedBits(b, o) - 1
<1> DEFINE Ones(q) == Bits(StoredForm(raw[q], b.channels[o[q].channel]), FieldWidth(b, o[q]))
<1>1. DOMAIN o = 1 .. n /\ n \in Nat
  BY DEF FieldsOK
<1>2. WriteCanonical(b, o, raw)
        = UNION {{FieldStart(b, o, q) + i : i \in Ones(q)} : q \in 1 .. n}
  BY <1>1 DEF WriteCanonical
<1>3. \A q \in 1 .. n : Ones(q) \subseteq 0 .. FieldWidth(b, o[q]) - 1
  BY DEF Bits
<1> HIDE DEF Ones
<1>4. ASSUME NEW q \in 1 .. n, NEW i \in Ones(q)
      PROVE  FieldStart(b, o, q) + i \in 0 .. UsedBits(b, o) - 1
  <2> DEFINE from == FieldStart(b, o, q)
             next == FieldStart(b, o, q + 1)
             end == FieldStart(b, o, n + 1)
             width == FieldWidth(b, o[q])
  <2>1. q \in 1 .. n + 1 /\ q + 1 \in 1 .. n + 1 /\ n + 1 \in 1 .. n + 1 /\ q + 1 <= n + 1
    BY <1>1
  <2>2. from \in Nat /\ next = from + width /\ next <= end /\ end \in Nat
        /\ UsedBits(b, o) = end
    BY <2>1, FieldStarts
  <2>3. width \in Nat /\ i \in 0 .. width - 1
    BY <1>3 DEF FieldsOK
  <2> HIDE DEF from, next, end, width
  <2>4. from + i \in 0 .. end - 1
    BY <2>2, <2>3
  <2>5. QED BY <2>2, <2>4 DEF from
<1>5. QED BY <1>2, <1>4


-----------------------------------------------------------------------------
(* A record with transforms, from the sample area to what a reader makes   *)
(* of the payload.                                                         *)

\* The bytes of some bits hold them.
LEMMA BytesHoldBits ==
  ASSUME NEW s \in Nat
  PROVE  /\ BytesOf(s) \in Nat /\ s <= BytesOf(s) * ByteBits
         /\ BytesOf(s) * ByteBits \in Nat /\ ByteBits * BytesOf(s) = BytesOf(s) * ByteBits
<1> DEFINE b == ByteBits
           a == s + b - 1
           q == a \div b
           r == a % b
           z == b * q
<1>1. b \in Nat \ {0} /\ a \in Nat
  BY AreaAssumption
<1>2. q \in Nat /\ r \in 0 .. b - 1 /\ a = z + r
  <2> HIDE DEF a, b
  <2>1. QED BY <1>1, DivisionDef
<1>3. BytesOf(s) = q
  BY DEF BytesOf
<1>4. a = s + b - 1
  OBVIOUS
<1> HIDE DEF a, q, r, b
<1>5. z \in Nat /\ q * b = z
  BY <1>1, <1>2
<1> HIDE DEF z
<1>6. s <= z
  BY <1>1, <1>2, <1>4, <1>5
<1>7. QED BY <1>2, <1>3, <1>5, <1>6 DEF b, z

\* A field has room for its storage bits.
LEMMA FieldHoldsStorage ==
  ASSUME NEW b, NEW item, b.channels[item.channel] \in Channels
  PROVE  b.channels[item.channel].storage <= FieldWidth(b, item)
<1> DEFINE s == b.channels[item.channel].storage
<1>1. s \in Nat
  BY DEF Channels
<1>2. s <= BytesOf(s) * ByteBits
  <2> HIDE DEF s
  <2>1. QED BY <1>1, BytesHoldBits
<1>3. FieldWidth(b, item) = IF b.packing = "dense" THEN s ELSE BytesOf(s) * ByteBits
  BY DEF FieldWidth
<1> HIDE DEF s
<1>4. s <= FieldWidth(b, item)
  BY <1>1, <1>2, <1>3
<1>5. QED BY <1>4 DEF s

\* A payload with transforms.
Transformed == Recorded /\ coding = "stored" /\ block.profile # "none"

LEMMA TransformedFacts ==
  ASSUME Transformed
  PROVE  /\ block.profile \in {"numeric", "bitwise"}
         /\ netOrder = order /\ FieldsOK(block, order, Len(order))
         /\ Len(order) = count * LaneCount(block.channels)
         /\ WidthOfAll \in Nat \ {0}
         /\ \A p \in 1 .. Len(order) :
              /\ ChannelOf(order, p) \in Channels /\ ValidChannel(ChannelOf(order, p))
              /\ ChannelOf(order, p).logical = WidthOfAll
              /\ ChannelOf(order, p).type # "fixed bytes"
<1>1. /\ ChannelsOK(block.channels) /\ netOrder = order /\ count \in Nat
      /\ block.layout \in {"interleaved", "planar"}
      /\ block.profile \in {"none", "numeric", "bitwise"}
  BY BlockFacts DEF Transformed, Recorded
<1>2. block.profile \in {"numeric", "bitwise"}
  BY <1>1 DEF Transformed
<1> DEFINE n == Len(order)
<1>3. /\ n = count * LaneCount(block.channels) /\ n \in Nat /\ DOMAIN order = 1 .. n
      /\ \A p \in 1 .. n :
           /\ order[p].channel \in 1 .. Len(block.channels)
           /\ block.channels[order[p].channel] \in Channels
           /\ ValidChannel(block.channels[order[p].channel])
  BY <1>1, OrderFields DEF order
<1>4. \A p \in 1 .. n : FieldWidth(block, order[p]) \in Nat
  BY <1>3, WidthIsNat
<1>5. FieldsOK(block, order, n)
  BY <1>3, <1>4 DEF FieldsOK
<1>6. \A c \in DOMAIN block.channels : block.channels[c].logical = WidthOfAll
                                       /\ block.channels[c].type # "fixed bytes"
  <2>1. StoredRight
    BY DEF Transformed, Recorded
  <2>2. CASE block.profile = "numeric"
    <3>1. IntegersOfOneWidth(block)
      BY <2>1, <2>2 DEF StoredRight
    <3>2. QED BY <3>1 DEF IntegersOfOneWidth, WidthOfAll, IntegerTypes
  <2>3. CASE block.profile = "bitwise"
    <3>1. FloatsOfOneWidth(block)
      BY <2>1, <2>3 DEF StoredRight
    <3>2. QED BY <3>1 DEF FloatsOfOneWidth, WidthOfAll
  <2>4. QED BY <1>2, <2>2, <2>3
<1>7. DOMAIN block.channels = 1 .. Len(block.channels) /\ 1 \in 1 .. Len(block.channels)
      /\ block.channels[1] \in Channels /\ ValidChannel(block.channels[1])
  BY <1>1, ChannelsAre
<1>8. WidthOfAll \in Nat \ {0}
  BY <1>7, ChannelBits DEF WidthOfAll
<1>9. QED BY <1>1, <1>2, <1>3, <1>5, <1>6, <1>7, <1>8 DEF ChannelOf

\* The payload was made of values that agree with the area in all logical
\* bits, whichever library made it.
Originals(raw) ==
  /\ \A p \in 1 .. Len(order) :
       /\ raw[p] \in Nat
       /\ raw[p] % 2 ^ WidthOfAll = Read(block, order, given, p) % 2 ^ WidthOfAll
  /\ stored = Shuffled(WordsOf(raw, order))

LEMMA StoredOriginals ==
  ASSUME Transformed
  PROVE  \E raw : Originals(raw)
<1> DEFINE n == Len(order)
           Now(p) == Read(block, order, given, p)
<1>1. /\ block.profile \in {"numeric", "bitwise"} /\ netOrder = order
      /\ DOMAIN order = 1 .. n /\ WidthOfAll \in Nat \ {0}
      /\ \A p \in 1 .. n : /\ FieldWidth(block, order[p]) \in Nat
                           /\ ChannelOf(order, p).logical = WidthOfAll
  BY TransformedFacts DEF FieldsOK
<1>2. \A p \in 1 .. n : Now(p) \in Nat
  BY <1>1, ReadBound
<1>3. 2 ^ WidthOfAll \in Nat \ {0}
  BY <1>1, PowNat
<1> HIDE DEF Now
<1>4. ASSUME NEW p \in 1 .. n
      PROVE  /\ Now(p) % 2 ^ WidthOfAll \in Nat
             /\ (Now(p) % 2 ^ WidthOfAll) % 2 ^ WidthOfAll = Now(p) % 2 ^ WidthOfAll
  <2> DEFINE m == 2 ^ WidthOfAll
             r == Now(p) % m
  <2>1. m \in Nat \ {0} /\ r \in 0 .. m - 1
    <3>1. m \in Nat \ {0} /\ Now(p) \in Nat
      BY <1>2, <1>3
    <3> HIDE DEF m
    <3>2. r \in 0 .. m - 1
      BY <3>1, DivisionDef
    <3>3. QED BY <3>1, <3>2
  <2> HIDE DEF m, r
  <2>2. r % m = r
    BY <2>1, SmallQuotient
  <2>3. r \in Nat
    BY <2>1
  <2>4. QED BY <2>2, <2>3 DEF m, r
<1>5. \A p \in 1 .. n : /\ ExtractRaw(order)[p] = Now(p) % 2 ^ WidthOfAll
                        /\ ReadRawInOrder(order)[p] = Now(p)
  BY <1>1 DEF ExtractRaw, ReadRawInOrder, Now
<1>6. \/ stored = Shuffled(WordsOf(ExtractRaw(order), order))
      \/ stored = Shuffled(WordsOf(ReadRawInOrder(order), order))
  BY <1>1 DEF Transformed, Recorded, StoredRight, WordsOf
<1>7. CASE stored = Shuffled(WordsOf(ExtractRaw(order), order))
  <2>1. \A p \in 1 .. n :
          /\ ExtractRaw(order)[p] \in Nat
          /\ ExtractRaw(order)[p] % 2 ^ WidthOfAll
               = Read(block, order, given, p) % 2 ^ WidthOfAll
    BY <1>4, <1>5 DEF Now
  <2>2. Originals(ExtractRaw(order))
    BY <1>7, <2>1 DEF Originals
  <2>3. QED BY <2>2
<1>8. CASE stored = Shuffled(WordsOf(ReadRawInOrder(order), order))
  <2>1. \A p \in 1 .. n :
          /\ ReadRawInOrder(order)[p] \in Nat
          /\ ReadRawInOrder(order)[p] % 2 ^ WidthOfAll
               = Read(block, order, given, p) % 2 ^ WidthOfAll
    BY <1>2, <1>5 DEF Now
  <2>2. Originals(ReadRawInOrder(order))
    BY <1>8, <2>1 DEF Originals
  <2>3. QED BY <2>2
<1>9. QED BY <1>6, <1>7, <1>8

\* The words come back, and fit their width.
LEMMA WordsComeBack ==
  ASSUME Transformed, NEW raw, Originals(raw)
  PROVE  /\ Unshuffled = WordsOf(raw, order) /\ ~NetRefusesWords
         /\ NetDecodeTransforms(order)
              = WriteCanonical(block, order, LowParts(raw, Len(order)))
<1> DEFINE n == Len(order)
           words == WordsOf(raw, order)
           width == BytesOf(WidthOfAll)
<1>1. /\ block.profile \in {"numeric", "bitwise"} /\ WidthOfAll \in Nat \ {0}
      /\ DOMAIN order = 1 .. n /\ n \in Nat
      /\ n = count * LaneCount(block.channels)
  BY TransformedFacts DEF FieldsOK
<1>2. \A p \in 1 .. n : raw[p] \in Nat
  BY DEF Originals
<1>3. /\ RawOf(words, order) = LowParts(raw, n)
      /\ \A p \in 1 .. n : words[p] \in 0 .. 2 ^ WidthOfAll - 1
      /\ words = [p \in 1 .. n |-> words[p]]
  BY <1>1, <1>2, WordsUndone
<1>4. width \in Nat /\ WidthOfAll <= ByteBits * width /\ ByteBits * width \in Nat
  BY <1>1, BytesHoldBits
<1>5. 2 ^ WidthOfAll <= 2 ^ (ByteBits * width) /\ 2 ^ WidthOfAll \in Nat
      /\ 2 ^ (ByteBits * width) \in Nat
  <2> HIDE DEF width
  <2>1. 2 ^ WidthOfAll <= 2 ^ (ByteBits * width)
    BY <1>1, <1>4, PowParts
  <2>2. QED BY <2>1, <1>1, <1>4, PowNat
<1>6. stored = Shuffle(words, width)
  BY DEF Originals, Shuffled
<1> HIDE DEF words, width
<1>7. \A p \in 1 .. n : words[p] \in 0 .. 2 ^ (ByteBits * width) - 1
  BY <1>3, <1>5
<1>8. Unshuffle(Shuffle(words, width), n, width) = words
  <2>1. AreWords(words, n)
    BY <1>3 DEF AreWords
  <2>2. QED BY <2>1, <1>1, <1>4, <1>7, ShuffleUndone
<1>9. Unshuffled = words
  BY <1>1, <1>6, <1>8 DEF Unshuffled, width
<1>10. ~NetRefusesWords
  <2>1. DOMAIN words = 1 .. n
    BY <1>3
  <2>2. \A p \in DOMAIN words : words[p] < 2 ^ WidthOfAll
    BY <2>1, <1>3, <1>5
  <2>3. QED BY <1>9, <2>2 DEF NetRefusesWords, WordsFit
<1>11. NetDecodeTransforms(order) = WriteCanonical(block, order, RawOf(words, order))
  BY <1>1, <1>9, AreaByProfile DEF RawOf
<1>12. QED BY <1>3, <1>9, <1>10, <1>11 DEF words

\* Every field comes back with its logical bits, in canonical form.
LEMMA FieldsComeBack ==
  ASSUME Transformed, NEW p \in 1 .. Len(order), NEW c, NEW v,
         c = ChannelOf(order, p),
         v = Read(block, order, NetDecodeTransforms(order), p)
  PROVE  /\ v \in 0 .. 2 ^ c.storage - 1 /\ v \in Nat
         /\ v % 2 ^ c.logical = Read(block, order, given, p) % 2 ^ c.logical
         /\ v \div 2 ^ c.logical =
              IF Signed(v, c) THEN 2 ^ (c.storage - c.logical) - 1 ELSE 0
<1> DEFINE n == Len(order)
<1>1. PICK raw : Originals(raw)
  BY StoredOriginals
<1>2. /\ FieldsOK(block, order, n) /\ n \in Nat /\ WidthOfAll \in Nat \ {0}
      /\ c \in Channels /\ ValidChannel(c) /\ c.logical = WidthOfAll
  BY TransformedFacts DEF FieldsOK
<1> DEFINE area == WriteCanonical(block, order, LowParts(raw, n))
           r == LowParts(raw, n)[p]
           u == StoredForm(r, c)
<1>3. NetDecodeTransforms(order) = area
  BY <1>1, WordsComeBack
<1>4. r = Read(block, order, given, p) % 2 ^ c.logical /\ r \in 0 .. 2 ^ c.logical - 1
  <2>1. p \in 0 .. n /\ p # 0
    BY <1>2
  <2>2. r = raw[p] % 2 ^ WidthOfAll
    BY <2>1 DEF LowParts
  <2>3. raw[p] \in Nat /\ raw[p] % 2 ^ WidthOfAll = Read(block, order, given, p) % 2 ^ WidthOfAll
    BY <1>1 DEF Originals
  <2>4. raw[p] % 2 ^ WidthOfAll \in 0 .. 2 ^ WidthOfAll - 1
    <3> DEFINE m == 2 ^ WidthOfAll
    <3>1. m \in Nat \ {0}
      BY <1>2, PowNat
    <3> HIDE DEF m
    <3>2. raw[p] % m \in 0 .. m - 1
      BY <3>1, <2>3, DivisionDef
    <3>3. QED BY <3>2 DEF m
  <2>5. QED BY <2>2, <2>3, <2>4, <1>2
<1> HIDE DEF r
<1>5. /\ u \in 0 .. 2 ^ c.storage - 1 /\ u % 2 ^ c.logical = r
      /\ u \div 2 ^ c.logical =
           IF Signed(u, c) THEN 2 ^ (c.storage - c.logical) - 1 ELSE 0
  BY <1>2, <1>4, StoredFormIs
<1>6. u \in Nat /\ u < 2 ^ FieldWidth(block, order[p])
  <2>1. c.storage <= FieldWidth(block, order[p])
    BY <1>2, FieldHoldsStorage DEF ChannelOf
  <2>2. c.storage \in Nat /\ FieldWidth(block, order[p]) \in Nat
    BY <1>2, ChannelBits DEF FieldsOK
  <2>3. 2 ^ c.storage <= 2 ^ FieldWidth(block, order[p])
        /\ 2 ^ c.storage \in Nat /\ 2 ^ FieldWidth(block, order[p]) \in Nat
    BY <2>1, <2>2, PowParts, PowNat
  <2> DEFINE x == 2 ^ c.storage
             y == 2 ^ FieldWidth(block, order[p])
  <2>4. x <= y /\ x \in Nat /\ y \in Nat /\ u \in 0 .. x - 1
    BY <2>3, <1>5
  <2> HIDE DEF x, y, u
  <2>5. u \in Nat /\ u < y
    BY <2>4
  <2>6. QED BY <2>5 DEF y
<1>7. u = StoredForm(LowParts(raw, n)[p], block.channels[order[p].channel])
  BY DEF r, ChannelOf
<1> HIDE DEF u, area
<1>8. Read(block, order, area, p) = u
  <2>1. area = WriteCanonical(block, order, LowParts(raw, n))
    BY DEF area
  <2> HIDE DEF n
  <2>2. p \in 1 .. n
    BY DEF n
  <2>3. QED BY <2>1, <2>2, <1>2, <1>6, <1>7, WrittenIsRead
<1>9. v = u
  BY <1>3, <1>8
<1>10. QED BY <1>4, <1>5, <1>6, <1>9


-----------------------------------------------------------------------------
(* What the readers get back. *)

\* Numbers with one remainder differ by a multiple.
LEMMA RemaindersAgree ==
  ASSUME NEW d \in Nat \ {0}, NEW x \in Int, NEW y \in Int, x % d = y % d
  PROVE  (x - y) % d = 0
<1> DEFINE p == x \div d
           q == y \div d
           r == x % d
<1>1. p \in Int /\ q \in Int /\ r \in 0 .. d - 1 /\ x = d * p + r /\ y = d * q + r
  BY IntDivision
<1> HIDE DEF p, q, r
<1>2. d * (p - q) = d * p - d * q /\ d * p \in Int /\ d * q \in Int
  BY <1>1
<1>3. x - y \in Int /\ x - y = d * (p - q) + 0 /\ p - q \in Int /\ 0 \in 0 .. d - 1
  <2> DEFINE a == d * p
             b == d * q
             c == d * (p - q)
  <2>1. c = a - b /\ a \in Int /\ b \in Int /\ x = a + r /\ y = b + r /\ r \in Int
    BY <1>1, <1>2
  <2> HIDE DEF a, b, c
  <2>2. x - y = c + 0
    BY <2>1
  <2>3. QED BY <1>1, <2>2 DEF c
<1>4. QED BY <1>3, RemainderUnique

\* With transforms, the logical bits come back, in canonical form.
LEMMA TransformsRestore ==
  ASSUME Transformed
  PROVE  Restored(NetDecodeTransforms(order), order)
<1> DEFINE area == NetDecodeTransforms(order)
           n == Len(order)
<1>1. block.profile # "none" /\ DOMAIN order = 1 .. n /\ FieldsOK(block, order, n)
      /\ \A p \in 1 .. n : ValidChannel(ChannelOf(order, p)) /\ ChannelOf(order, p) \in Channels
  BY TransformedFacts DEF FieldsOK
<1>2. area \subseteq 0 .. UsedBits(block, order) - 1
  <2>1. PICK raw : Originals(raw)
    BY StoredOriginals
  <2>2. area = WriteCanonical(block, order, LowParts(raw, n))
    BY <2>1, WordsComeBack
  <2> HIDE DEF area
  <2>3. QED BY <2>2, <1>1, WrittenWithin
<1>3. ASSUME NEW p \in DOMAIN order
      PROVE  /\ Read(block, order, area, p) \div 2 ^ ChannelOf(order, p).logical
                  = IF Signed(Read(block, order, area, p), ChannelOf(order, p))
                      THEN 2 ^ (ChannelOf(order, p).storage - ChannelOf(order, p).logical) - 1
                      ELSE 0
             /\ (Read(block, order, area, p) - Read(block, order, given, p))
                  % 2 ^ ChannelOf(order, p).logical = 0
  <2> DEFINE c == ChannelOf(order, p)
             v == Read(block, order, area, p)
             w == Read(block, order, given, p)
  <2>1. p \in 1 .. Len(order)
    BY <1>1
  <2>2. /\ v \in Nat /\ v % 2 ^ c.logical = w % 2 ^ c.logical
        /\ v \div 2 ^ c.logical =
             IF Signed(v, c) THEN 2 ^ (c.storage - c.logical) - 1 ELSE 0
    BY <2>1, FieldsComeBack
  <2>3. w \in Nat
    BY <1>1, <2>1, ReadBound DEF FieldsOK
  <2>4. 2 ^ c.logical \in Nat \ {0}
    <3>1. c.logical \in Nat
      BY <1>1, <2>1, ChannelBits
    <3>2. QED BY <3>1, PowNat
  <2> HIDE DEF v, w, c
  <2>5. (v - w) % 2 ^ c.logical = 0
    <3> DEFINE m == 2 ^ c.logical
    <3>1. m \in Nat \ {0} /\ v \in Int /\ w \in Int /\ v % m = w % m
      BY <2>2, <2>3, <2>4
    <3> HIDE DEF m
    <3>2. (v - w) % m = 0
      BY <3>1, RemaindersAgree
    <3>3. QED BY <3>2 DEF m
  <2>6. QED BY <2>2, <2>5 DEF v, w, c
<1> HIDE DEF area
<1>4. InCanonicalForm(area, order)
  BY <1>2, <1>3 DEF InCanonicalForm, Signed
<1>5. QED BY <1>1, <1>3, <1>4 DEF Restored, area

\* What either reader has got back is restored.
LEMMA AreasRestored == RecordInv => TransformsAreUndone
<1> SUFFICES ASSUME RecordInv PROVE TransformsAreUndone
  OBVIOUS
<1>1. Recorded /\ ReadingRight /\ NetReadingRight /\ netOrder = order
  BY BlockFacts DEF RecordInv, Recorded
<1>2. ASSUME coding = "stored"
      PROVE  Restored(NetDecodeTransforms(order), order)
  <2>1. CASE block.profile = "none"
    <3>1. NetDecodeTransforms(order) = given
      BY <2>1, <1>1, <1>2, AreaByProfile DEF Recorded, StoredRight
    <3>2. QED BY <2>1, <3>1 DEF Restored
  <2>2. CASE block.profile # "none"
    <3>1. Transformed
      BY <2>2, <1>1, <1>2 DEF Transformed
    <3>2. QED BY <3>1, TransformsRestore
  <2>3. QED BY <2>1, <2>2
<1>3. ASSUME reading \in {"decoded", "done"} PROVE Restored(canonical, order)
  <2>1. coding = "stored" /\ canonical = NetDecodeTransforms(order)
    BY <1>1, <1>3 DEF Recorded, ReadingRight
  <2>2. QED BY <2>1, <1>2
<1>4. ASSUME netReading = "done" PROVE Restored(netCanonical, order)
  <2>1. coding = "stored" /\ netCanonical = NetDecodeTransforms(order)
    BY <1>1, <1>4 DEF Recorded, NetReadingRight
  <2>2. QED BY <2>1, <1>2
<1>5. QED BY <1>3, <1>4 DEF TransformsAreUndone

(***************************************************************************)
(* What either reader gets back from the transforms has the logical bits   *)
(* the writer was given, in canonical form, for every number and width of  *)
(* channels, every layout, packing and number of samples, and whichever    *)
(* library wrote the record; without transforms the area comes back whole. *)
(***************************************************************************)
THEOREM TransformsStayUndone == CodecsSpec => []TransformsAreUndone
<1>1. QED BY AreasRestored, RecordInvariant, PTL

-----------------------------------------------------------------------------
(* How a record was stored is not seen in its samples. *)

\* An area in canonical form is one the .NET reader takes.
LEMMA RestoredIsAccepted ==
  ASSUME Transformed, NetAccepts(given, order)
  PROVE  NetAccepts(NetDecodeTransforms(order), order)
<1> DEFINE area == NetDecodeTransforms(order)
           n == Len(order)
<1>1. DOMAIN order = 1 .. n /\ FieldsOK(block, order, n)
      /\ \A p \in 1 .. n : ValidChannel(ChannelOf(order, p)) /\ ChannelOf(order, p) \in Channels
  BY TransformedFacts DEF FieldsOK
<1>2. area \subseteq 0 .. UsedBits(block, order) - 1
  <2>1. PICK raw : Originals(raw)
    BY StoredOriginals
  <2>2. area = WriteCanonical(block, order, LowParts(raw, n))
    BY <2>1, WordsComeBack
  <2> HIDE DEF area
  <2>3. QED BY <2>2, <1>1, WrittenWithin
<1>3. ASSUME NEW p \in DOMAIN order
      PROVE  ExtensionValid(Read(block, order, area, p), ChannelOf(order, p))
  <2> DEFINE c == ChannelOf(order, p)
             v == Read(block, order, area, p)
  <2>1. p \in 1 .. Len(order)
    BY <1>1
  <2>2. /\ v \in Nat
        /\ v \div 2 ^ c.logical =
             IF Signed(v, c) THEN 2 ^ (c.storage - c.logical) - 1 ELSE 0
    BY <2>1, FieldsComeBack
  <2>3. c \in Channels /\ ValidChannel(c)
    BY <1>1, <2>1
  <2> HIDE DEF v, c
  <2>4. ExtensionValid(v, c)
    BY <2>2, <2>3, CanonicalIsValid
  <2>5. QED BY <2>4 DEF v, c
<1> HIDE DEF area
<1>4. FieldsValid(area, order)
  BY <1>2, <1>3 DEF FieldsValid, PaddingClear
<1>5. QED BY <1>4 DEF NetAccepts, area

\* It makes the same samples of it.
LEMMA RestoredIsTheSame ==
  ASSUME Transformed
  PROVE  NetDecodeSamples(NetDecodeTransforms(order), order) = NetDecodeSamples(given, order)
<1> DEFINE area == NetDecodeTransforms(order)
           n == Len(order)
           values == [p \in DOMAIN order |->
             NetValue(Read(block, order, area, p), ChannelOf(order, p))]
           same == [p \in DOMAIN order |->
             NetValue(Read(block, order, given, p), ChannelOf(order, p))]
<1>1. DOMAIN order = 1 .. n /\ FieldsOK(block, order, n)
      /\ \A p \in 1 .. n : ChannelOf(order, p).type # "fixed bytes"
  BY TransformedFacts DEF FieldsOK
<1>2. values = same
  <2>1. SUFFICES ASSUME NEW p \in DOMAIN order
                 PROVE  NetValue(Read(block, order, area, p), ChannelOf(order, p))
                          = NetValue(Read(block, order, given, p), ChannelOf(order, p))
    OBVIOUS
  <2> DEFINE c == ChannelOf(order, p)
             v == Read(block, order, area, p)
             w == Read(block, order, given, p)
  <2>2. p \in 1 .. Len(order)
    BY <1>1
  <2>3. v % 2 ^ c.logical = w % 2 ^ c.logical
    BY <2>2, FieldsComeBack
  <2>4. c.type # "fixed bytes"
    BY <1>1
  <2> HIDE DEF v, w, c
  <2>5. NetValue(v, c) = NetValue(w, c)
    BY <2>3, <2>4 DEF NetValue, ToValue
  <2>6. QED BY <2>5 DEF v, w, c
<1>3. /\ NetDecodeSamples(area, order) =
           Samples(order, [s \in 1 .. count |-> (block.first + s - 1) % (MaxWord + 1)],
             [s \in 1 .. count |-> NetTime(s - 1)], values)
      /\ NetDecodeSamples(given, order) =
           Samples(order, [s \in 1 .. count |-> (block.first + s - 1) % (MaxWord + 1)],
             [s \in 1 .. count |-> NetTime(s - 1)], same)
  BY DEF NetDecodeSamples
<1> HIDE DEF values, same
<1>4. QED BY <1>2, <1>3

\* What the invariant says hides the storage.
LEMMA StorageHidden == RecordInv => StorageIsInvisible
<1> SUFFICES ASSUME RecordInv, block.profile # "none", coding = "stored",
                    netReading # "waiting", NetAccepts(given, netOrder)
             PROVE  /\ netReading = "done"
                    /\ netSamples = NetDecodeSamples(given, netOrder)
  BY DEF StorageIsInvisible
<1>1. Recorded /\ NetReadingRight /\ netOrder = order
  BY BlockFacts DEF RecordInv, Recorded
<1>2. Transformed
  BY <1>1 DEF Transformed
<1>3. ~NetRefusesWords
  BY <1>2, StoredOriginals, WordsComeBack
<1>4. NetAccepts(NetDecodeTransforms(order), order)
  BY <1>1, <1>2, RestoredIsAccepted
<1>5. netReading \in {"done", "failed"} /\ netReading # "failed"
  BY <1>1, <1>3, <1>4 DEF NetReadingRight
<1>6. netSamples = NetDecodeSamples(NetDecodeTransforms(order), order)
  BY <1>1, <1>5 DEF NetReadingRight
<1>7. QED BY <1>1, <1>2, <1>5, <1>6, RestoredIsTheSame

(***************************************************************************)
(* The samples the .NET reader delivers do not depend on how the record    *)
(* was stored, whichever library stored it: an area it would read without  *)
(* transforms yields the same samples with them.                           *)
(***************************************************************************)
THEOREM StorageStaysInvisible == CodecsSpec => []StorageIsInvisible
<1>1. QED BY StorageHidden, RecordInvariant, PTL
=============================================================================
