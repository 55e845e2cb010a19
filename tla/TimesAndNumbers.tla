-------------------------- MODULE TimesAndNumbers --------------------------
(***************************************************************************)
(* Durations in seconds and a smaller unit (times.rs), times of the day    *)
(* and the time ranges of the queues' windows (date_and_time.rs,           *)
(* time_ranges.rs), priorities (priority.rs) and numbers as digits         *)
(* (digit_num.rs).                                                         *)
(***************************************************************************)
EXTENDS Integers, FiniteSets, SequencesExt

CONSTANTS U32Max,           \* u32::MAX
          SubPerSec,        \* microseconds or nanoseconds in a second
          MilliPerSec,      \* milliseconds in a second, a divisor of SubPerSec
          Hours             \* the hours of a day

Nothing == [none |-> TRUE]      \* Option::None
Panic == [panic |-> TRUE]       \* the end of the process: overflows are checked in every build

-----------------------------------------------------------------------------
(* MicroTime, NanoTime *)

TimeOf(sec, sub) == [sec |-> sec, sub |-> sub]

IsValid(t) == t.sub < SubPerSec

\* to_increments, to_usec, to_nsec
ToIncrements(t) == t.sec * SubPerSec + t.sub

\* from_usec, from_nsec
FromIncrements(n) ==
    IF n \div SubPerSec <= U32Max THEN TimeOf(n \div SubPerSec, n % SubPerSec) ELSE Nothing

AddTimes(a, b) ==
    LET carry == IF a.sub + b.sub >= SubPerSec THEN 1 ELSE 0
        sec == a.sec + b.sec + carry
    IN IF sec > U32Max THEN Panic ELSE TimeOf(sec, a.sub + b.sub - carry * SubPerSec)

\* What is borrowed for the subseconds is not taken from the seconds.
CheckedSub_NoBorrow(a, b) ==
    IF a.sec < b.sec THEN Nothing
    ELSE TimeOf(a.sec - b.sec, (a.sub - b.sub) % SubPerSec)

\* checked_sub: only the difference of the seconds is checked, not what is
\* borrowed from it.
CheckedSub(a, b) ==
    IF a.sec < b.sec THEN Nothing
    ELSE IF a.sub >= b.sub THEN TimeOf(a.sec - b.sec, a.sub - b.sub)
    ELSE IF a.sec = b.sec THEN Panic
    ELSE TimeOf(a.sec - b.sec - 1, a.sub + SubPerSec - b.sub)

\* to_string_ms, as the two numbers it prints
ToMilliseconds(t) ==
    LET unit == SubPerSec \div MilliPerSec
        ms == t.sec * MilliPerSec + t.sub \div unit
    IN IF ms > U32Max THEN Panic ELSE [ms |-> ms, rest |-> t.sub % unit]

\* NanoTime::from(MicroTime), where a small unit has `factor` smaller ones.
Refine(t, factor) == TimeOf(t.sec, t.sub * factor)

-----------------------------------------------------------------------------
(* Times of the day.  A day has Hours hours; in the night of a clock change *)
(* the hour `change.hour` of day 0 is left out ("gap") or comes twice       *)
(* ("fold").  An instant is a number of hours.                              *)

\* LocalNaiveTime::from_str: the seconds may be left out, and may be 60.
ParseTime(fields) ==
    IF /\ Len(fields) \in {2, 3}
       /\ fields[1] <= 23 /\ fields[2] <= 59
       /\ Len(fields) = 3 => fields[3] <= 60
    THEN [hour |-> fields[1], minute |-> fields[2],
          second |-> IF Len(fields) = 3 THEN fields[3] ELSE 0]
    ELSE Nothing

\* NaiveTime::from(&LocalNaiveTime): chrono refuses the second 60, and the
\* code takes its answer for granted.
ToNaiveTime(t) == IF t.second <= 59 THEN t ELSE Panic

Shift(change, day, hour) ==
    IF day > 0 \/ (day = 0 /\ hour > change.hour)
    THEN CASE change.kind = "gap" -> -1 [] change.kind = "fold" -> 1 [] OTHER -> 0
    ELSE 0

\* Local.from_local_datetime: the instants that a local time can be.
Instants(change, day, hour) ==
    LET at == day * Hours + hour + Shift(change, day, hour)
    IN CASE day = 0 /\ hour = change.hour /\ change.kind = "gap" -> {}
         [] day = 0 /\ hour = change.hour /\ change.kind = "fold" -> {at, at + 1}
         [] OTHER -> {at}

\* date_naive
DateOf(change, instant) ==
    CHOOSE day \in -3 .. 3 : \E hour \in 0 .. Hours - 1 : instant \in Instants(change, day, hour)

CrossesDayBoundary(range) == range.to < range.from

\* with_start_date_as_unambiguous_locals
WithStartDate(change, range, day) ==
    LET from == Instants(change, day, range.from)
        to == Instants(change, IF CrossesDayBoundary(range) THEN day + 1 ELSE day, range.to)
    IN IF Cardinality(from) = 1 /\ Cardinality(to) = 1
       THEN [from |-> CHOOSE f \in from : TRUE, to |-> CHOOSE t \in to : TRUE]
       ELSE Nothing

InPeriod(period, instant) == period.from <= instant /\ instant < period.to

\* after_datetime
AfterDatetime(change, range, instant, inside) ==
    LET day == DateOf(change, instant)
        today == WithStartDate(change, range, day)
        tomorrow == WithStartDate(change, range, day + 1)
        yesterday == WithStartDate(change, range, day - 1)
    IN CASE today = Nothing -> Nothing
         [] today # Nothing /\ InPeriod(today, instant) ->
                IF inside THEN today ELSE tomorrow
         [] today # Nothing /\ ~InPeriod(today, instant) /\ today.to <= instant ->
                IF tomorrow = Nothing THEN Nothing
                ELSE IF ~inside /\ InPeriod(tomorrow, instant) THEN Panic ELSE tomorrow
         [] OTHER ->
                IF yesterday = Nothing THEN Nothing
                ELSE IF (InPeriod(yesterday, instant) /\ inside) \/ instant < yesterday.from
                     THEN yesterday ELSE today

-----------------------------------------------------------------------------
(* Priorities: floating point numbers that can be compared *)

Infinity == U32Max              \* stands for what no finite number reaches
NaN == U32Max + 1

\* The sum of two floats
FloatSum(a, b) ==
    CASE {a, b} = {Infinity, -Infinity} -> NaN
      [] Infinity \in {a, b} /\ -Infinity \notin {a, b} -> Infinity
      [] -Infinity \in {a, b} /\ Infinity \notin {a, b} -> -Infinity
      [] OTHER -> a + b

\* Priority::new; Priority + Priority and Priority::add, sub go through it.
NewPriority(value) == IF value = NaN THEN Nothing ELSE [level |-> value]

AddPriorities(a, b) == NewPriority(FloatSum(a.level, b.level))

SubPriority(a, difference) ==
    NewPriority(IF difference = NaN THEN NaN ELSE FloatSum(a.level, -difference))

ParsePriority(s) ==
    CASE s = "high" -> [level |-> 1]
      [] s = "normal" -> [level |-> 0]
      [] s = "low" -> [level |-> -1]
      [] OTHER -> NewPriority(NaN)

-----------------------------------------------------------------------------
(* DigitNum: the digits, highest first, without leading zeroes *)

PushLowestDigit(digits, d) == IF d = 0 /\ digits = <<>> THEN digits ELSE Append(digits, d)

Underscore == 10
Dot == 11

DigitsOf(ds) == FoldLeft(PushLowestDigit, <<>>, ds)

\* u64::try_from
ToNumber(digits, max) ==
    FoldLeft(LAMBDA n, d : IF n = Nothing \/ n.num * 10 + d > max THEN Nothing
                           ELSE [num |-> n.num * 10 + d],
             [num |-> 0], digits)

\* Groups of three, the first group of `first` digits.
Grouped(digits, first, underscores) ==
    FoldLeft(LAMBDA out, i :
                (IF underscores /\ i > first /\ (i - first) % 3 = 1
                 THEN Append(out, Underscore) ELSE out) \o <<digits[i]>>,
             <<>>, [i \in DOMAIN digits |-> i])

\* write, with the characters as numbers: `precision` digits come after the dot, at least one before it.
WriteDigits(digits, precision, underscores, omitTrailingDot) ==
    LET before == Len(digits) - precision
        whole == IF before > 0 THEN SubSeq(digits, 1, before) ELSE <<0>>
        zeroes == [i \in 1 .. (IF before > 0 THEN 0 ELSE -before) |-> 0]
        rest == SubSeq(digits, IF before > 0 THEN before + 1 ELSE 1, Len(digits))
        first == IF Len(whole) % 3 = 0 THEN 3 ELSE Len(whole) % 3
    IN Grouped(whole, first, underscores) \o
       (IF precision = 0 /\ omitTrailingDot THEN <<>>
        ELSE <<Dot>> \o Grouped(zeroes \o rest, 3, underscores))
=============================================================================
