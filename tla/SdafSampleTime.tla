--------------------------- MODULE SdafSampleTime ---------------------------
(***************************************************************************)
(* The times of the samples of one DATA record: sample_time in             *)
(* sdaf_codec.c, called once per sample, with the loop that multiplies and *)
(* divides without a wider integer type, and the same times as             *)
(* SampleCodec.cs computes them with one.                                  *)
(***************************************************************************)
EXTENDS Integers, Sequences

CONSTANTS
  HalfWord,  \* half the values of uint64_t: 2 ^ 63
  Headers    \* the time fields of the records that are read

ASSUME WordAssumption == HalfWord \in Nat \ {0}

MaxWord == 2 * HalfWord - 1  \* UINT64_MAX
MaxInt == HalfWord - 1       \* INT64_MAX
MinInt == -HalfWord          \* INT64_MIN
Words == 0 .. MaxWord
Ints == MinInt .. MaxInt

\* What validate_timestamp_header accepts; "stamps" is the timestamp area.
TimeHeaders ==
  {h \in [mode : {"periodic", "delta", "explicit", "none"}, start : Ints,
          numerator : Words, denominator : Words, count : Words,
          stamps : Seq(Ints)] :
     CASE h.mode = "periodic" -> h.denominator # 0 /\ h.stamps = << >>
       [] h.mode \in {"delta", "explicit"} -> Len(h.stamps) = h.count
       [] h.mode = "none" ->
            /\ h.start = 0 /\ h.numerator = 0 /\ h.denominator = 0
            /\ h.stamps = << >>}

ASSUME HeaderAssumption == Headers \subseteq TimeHeaders

VARIABLES
  header,    \* the time fields of the record at hand
  times,     \* the times of the samples before the one at hand
  fraction,  \* the locals of mul_div_fraction
  timing     \* where sample_time is: "next", "multiplying", or "refused"

timeVars == <<header, times, fraction, timing>>

NoTime == "none"   \* has_time = 0
NoFraction ==
  [partQ |-> 0, partR |-> 0, resultQ |-> 0, resultR |-> 0, multiplier |-> 0]
-----------------------------------------------------------------------------
Quotient == header.numerator \div header.denominator
Remainder == header.numerator % header.denominator

\* One number added to another, modulo the denominator: whether they reach it.
Carry(a, b) == IF a >= header.denominator - b THEN 1 ELSE 0

\* "result += part" of mul_div_fraction.
AddOverflows(f) ==
  LET c == Carry(f.resultR, f.partR)
  IN  f.partQ > MaxWord - c \/ f.resultQ > MaxWord - f.partQ - c

AddPart(f) ==
  LET c == Carry(f.resultR, f.partR)
  IN  [f EXCEPT !.resultQ = @ + f.partQ + c,
                !.resultR = IF c = 1 THEN @ - (header.denominator - f.partR)
                                     ELSE @ + f.partR]

\* "part *= 2".
DoubleOverflows(f) == f.partQ > (MaxWord - Carry(f.partR, f.partR)) \div 2

\* Variant: the carry is forgotten.
DoublePartNoCarry(f) ==
  [f EXCEPT !.partQ = 2 * @,
            !.partR = IF 2 * @ >= header.denominator
                        THEN 2 * @ - header.denominator ELSE 2 * @]

DoublePart(f) ==
  LET c == Carry(f.partR, f.partR)
  IN  [f EXCEPT !.partQ = 2 * @ + c,
                !.partR = IF c = 1 THEN @ - (header.denominator - @)
                                   ELSE 2 * @]

\* One turn of the loop of mul_div_fraction.
Added(f) == IF f.multiplier % 2 = 1 THEN AddPart(f) ELSE f

Turn(f) ==
  LET g == [Added(f) EXCEPT !.multiplier = @ \div 2]
  IN  IF g.multiplier # 0 THEN DoublePart(g) ELSE g

TurnOverflows(f) ==
  \/ f.multiplier % 2 = 1 /\ AddOverflows(f)
  \/ f.multiplier \div 2 # 0 /\ DoubleOverflows(f)

\* checked(start + (long)ticks): the ticks alone must be a long, too.
NetTicksFit(start, ticks) == ticks <= MaxInt /\ start + ticks <= MaxInt

\* start + ticks where start may be negative and ticks beyond INT64_MAX.
TicksFit(start, ticks) ==
  IF start >= 0
    THEN ticks <= MaxInt - start
    ELSE LET magnitude == -(start + 1) + 1
         IN  ticks < magnitude \/ ticks - magnitude <= MaxInt
-----------------------------------------------------------------------------
TimeStart == times = << >> /\ fraction = NoFraction /\ timing = "next"

TimeInit == header \in Headers /\ TimeStart

Deliver(t) == times' = Append(times, t) /\ timing' = "next"
RefuseTime == timing' = "refused" /\ UNCHANGED times

Here == Len(times)   \* the number of the sample at hand, from 0

WithoutTime ==
  /\ timing = "next" /\ Here < header.count /\ header.mode = "none"
  /\ Deliver(NoTime)
  /\ UNCHANGED <<header, fraction>>

\* SDAF_TIMESTAMP_DELTA: the sum is refused when it is no int64_t.
FromDelta ==
  LET delta == header.stamps[Here + 1]
  IN  /\ timing = "next" /\ Here < header.count /\ header.mode = "delta"
      /\ IF \/ delta > 0 /\ header.start > MaxInt - delta
            \/ delta < 0 /\ header.start < MinInt - delta
           THEN RefuseTime
           ELSE Deliver(header.start + delta)
      /\ UNCHANGED <<header, fraction>>

Stamped ==
  /\ timing = "next" /\ Here < header.count /\ header.mode = "explicit"
  /\ Deliver(header.stamps[Here + 1])
  /\ UNCHANGED <<header, fraction>>

\* SDAF_TIMESTAMP_PERIODIC: n * quotient must fit before n * remainder is
\* divided by the denominator.
BeginPeriodic ==
  /\ timing = "next" /\ Here < header.count /\ header.mode = "periodic"
  /\ IF Quotient # 0 /\ Here > MaxWord \div Quotient
       THEN RefuseTime /\ UNCHANGED fraction
       ELSE /\ timing' = "multiplying"
            /\ fraction' = [NoFraction EXCEPT !.partR = Remainder,
                                              !.multiplier = Here]
            /\ UNCHANGED times
  /\ UNCHANGED header

MultiplyFraction ==
  /\ timing = "multiplying" /\ fraction.multiplier # 0
  /\ IF TurnOverflows(fraction)
       THEN RefuseTime /\ UNCHANGED fraction
       ELSE fraction' = Turn(fraction) /\ UNCHANGED <<times, timing>>
  /\ UNCHANGED header

EndPeriodic ==
  LET ticks == (Here * Quotient) % (MaxWord + 1)
  IN  /\ timing = "multiplying" /\ fraction.multiplier = 0
      /\ IF \/ ticks > MaxWord - fraction.resultQ
            \/ ~TicksFit(header.start, ticks + fraction.resultQ)
           THEN RefuseTime
           ELSE Deliver(header.start + ticks + fraction.resultQ)
      /\ fraction' = NoFraction
      /\ UNCHANGED header

TimeNext ==
  \/ WithoutTime \/ FromDelta \/ Stamped
  \/ BeginPeriodic \/ MultiplyFraction \/ EndPeriodic

SampleTimeSpec == TimeInit /\ [][TimeNext]_timeVars
-----------------------------------------------------------------------------
TimesDone == timing = "next" /\ Here = header.count

\* The time the format gives sample n, as an integer of any size.
TrueTime(n) ==
  CASE header.mode = "none" -> NoTime
    [] header.mode = "delta" -> header.start + header.stamps[n + 1]
    [] header.mode = "explicit" -> header.stamps[n + 1]
    [] header.mode = "periodic" ->
         header.start + (n * header.numerator) \div header.denominator

(***************************************************************************)
(* The C library's times are exact and fit an int64_t, and a record is     *)
(* refused for its times only when some sample's true time is no int64_t:  *)
(* no sum, product or quotient on the way wraps, and none is refused       *)
(* although the final value fits.                                          *)
(***************************************************************************)
TimesAreExact ==
  /\ \A i \in 1 .. Len(times) :
       /\ times[i] = TrueTime(i - 1)
       /\ header.mode # "none" => times[i] \in Ints
  /\ timing = "refused" => TrueTime(Here) \notin Ints

(***************************************************************************)
(* The loop of mul_div_fraction keeps n * remainder in four numbers that   *)
(* each fit a word: what it has added up and what is left to multiply.     *)
(***************************************************************************)
FractionIsKept ==
  LET f == fraction
  IN  timing = "multiplying" =>
        /\ f.partR < header.denominator /\ f.resultR < header.denominator
        /\ {f.partQ, f.resultQ} \subseteq Words
        /\ f.resultQ * header.denominator + f.resultR
             + f.multiplier * (f.partQ * header.denominator + f.partR)
             = Here * Remainder
-----------------------------------------------------------------------------
(* SampleCodec.DecodeTimes: 128 bits for the product, checked conversions. *)

NetTimeFits(n) ==
  CASE header.mode = "periodic" ->
         NetTicksFit(header.start,
                       (n * header.numerator) \div header.denominator)
    [] header.mode = "delta" -> header.start + header.stamps[n + 1] \in Ints
    [] OTHER -> TRUE
NetTime(n) == TrueTime(n)
=============================================================================
