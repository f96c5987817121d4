----------------------------- MODULE Timestamps -----------------------------
(* Instants in the delivery history: read from RFC 3339 text, compared with  *)
(* a cutoff, and written for the cutoff of a live request.                   *)
(*                                                                           *)
(*   src/crates/orbit-graph-extract/src/history.rs  parse_rfc3339, Timestamp *)
(*   src/crates/orbit-graph/src/recommend.rs   current_observation_cutoff    *)
(*                                                                           *)
(* A text is a record of its fields: the fraction is a sequence of digits,   *)
(* the offset is in minutes.                                                 *)
EXTENDS Procedure, Integers, Sequences, SequencesExt

CONSTANTS
    TimestampCalls, \* [left, right]: two texts
    ClockCalls      \* [days, seconds] since the epoch

---------------------------------------------------------------------------
(* Dates                                                                    *)

\* Days since the epoch; years are counted from March.  \div
\* rounds down, which the source corrects its division to do.
days_from_civil(year, month, day) ==
    LET y == IF month <= 2 THEN year - 1 ELSE year
        era == y \div 400
        yoe == y - era * 400
        doy == (153 * (IF month > 2 THEN month - 3 ELSE month + 9) + 2) \div 5 + day - 1
    IN era * 146097 + yoe * 365 + yoe \div 4 - yoe \div 100 + doy - 719468

civil_from_days(days) ==
    LET shifted == days + 719468
        era == shifted \div 146097
        doe == shifted - era * 146097
        yoe == (doe - doe \div 1460 + doe \div 36524 - doe \div 146096) \div 365
        doy == doe - (365 * yoe + yoe \div 4 - yoe \div 100)
        part == (5 * doy + 2) \div 153
        month == IF part < 10 THEN part + 3 ELSE part - 9
    IN [year |-> yoe + era * 400 + (IF month <= 2 THEN 1 ELSE 0),
        month |-> month, day |-> doy - (153 * part + 2) \div 5 + 1]

Leap(year) == year % 4 = 0 /\ (year % 100 # 0 \/ year % 400 = 0)

DaysInMonth(year, month) ==
    IF month \in {4, 6, 9, 11} THEN 30
    ELSE IF month # 2 THEN 31 ELSE IF Leap(year) THEN 29 ELSE 28

---------------------------------------------------------------------------
(* Instants                                                                 *)

\* Trailing zeros of the fraction are dropped.
Fraction(digits) ==
    LET kept == {i \in DOMAIN digits : \E j \in i..Len(digits) : digits[j] # 0}
    IN SelectSeq([i \in DOMAIN digits |-> IF i \in kept THEN digits[i] ELSE 10], LAMBDA x : x # 10)

Valid(t) ==
    /\ t.month \in 1..12 /\ t.day \in 1..DaysInMonth(t.year, t.month)
    /\ t.hour <= 23 /\ t.minute <= 59 /\ t.second <= 60

\* Days and seconds apart, so that the numbers stay small; a second past
\* either end of the day is carried.
parse_rfc3339(t) ==
    LET within == t.hour * 3600 + t.minute * 60 + t.second - t.offset * 60
    IN [days |-> days_from_civil(t.year, t.month, t.day) + within \div 86400,
        seconds |-> within % 86400, fraction |-> Fraction(t.fraction)]

\* Seconds first, then the fractions digit by digit, the shorter padded.
cmp(a, b) ==
    LET Digit(f, i) == IF i <= Len(f) THEN f[i] ELSE 0
        width == IF Len(a.fraction) > Len(b.fraction) THEN Len(a.fraction) ELSE Len(b.fraction)
        differ == {i \in 1..width : Digit(a.fraction, i) # Digit(b.fraction, i)}
        first == CHOOSE i \in differ : \A j \in differ : i <= j
    IN IF a.days # b.days THEN (IF a.days < b.days THEN -1 ELSE 1)
       ELSE IF a.seconds # b.seconds THEN (IF a.seconds < b.seconds THEN -1 ELSE 1)
       ELSE IF differ = {} THEN 0
       ELSE IF Digit(a.fraction, first) < Digit(b.fraction, first) THEN -1 ELSE 1

\* The clock as a text, to the nanosecond (here: no fraction).
current_observation_cutoff(days, seconds) ==
    LET date == civil_from_days(days)
    IN [year |-> date.year, month |-> date.month, day |-> date.day,
        hour |-> seconds \div 3600, minute |-> (seconds % 3600) \div 60, second |-> seconds % 60,
        fraction |-> <<>>, offset |-> 0]

---------------------------------------------------------------------------
(* The procedures                                                           *)

TimestampInit ==
    \/ call \in TimestampCalls /\ at = "compare" /\ acc = <<>>
    \/ call \in ClockCalls /\ at = "clock" /\ acc = <<>>

CompareTimestamps ==
    /\ at = "compare"
    /\ acc' = IF Valid(call.left) /\ Valid(call.right)
              THEN <<parse_rfc3339(call.left), parse_rfc3339(call.right)>> ELSE <<>>
    /\ at' = "compared"
    /\ UNCHANGED call

ReadClock ==
    /\ at = "clock"
    /\ acc' = current_observation_cutoff(call.days, call.seconds)
    /\ at' = "read"
    /\ UNCHANGED call

TimestampNext == CompareTimestamps \/ ReadClock

---------------------------------------------------------------------------
(* Properties                                                               *)

\* The cutoff a live request reports is a valid text that reads back as the
\* clock's instant (current_observation_cutoff, parse_timestamp): repeating
\* the request with it as the cutoff sees the same evidence.
CutoffReadsBack ==
    at = "read" => Valid(acc) /\ parse_rfc3339(acc) = [days |-> call.days, seconds |-> call.seconds, fraction |-> <<>>]

\* Instants are ordered by when they are, whatever the offset and however many
\* digits they are written with, and equal instants are equal values
\* (Timestamp::cmp beside the derived Eq): a cutoff cuts in one place.
InstantsAreOrdered ==
    at = "compared" /\ acc # <<>> =>
        LET Value(t) ==
                (days_from_civil(t.year, t.month, t.day) - days_from_civil(2000, 1, 1)) * 1440
                + t.hour * 60 + t.minute - t.offset
            Rest(t) == LET f == t.fraction \o <<0, 0>> IN t.second * 100 + f[1] * 10 + f[2]
            minutes == Value(call.left) - Value(call.right)
            gap == IF minutes > 1 THEN 1 ELSE IF minutes < -1 THEN -1
                   ELSE Rest(call.left) - Rest(call.right) + 6000 * minutes
        IN /\ (gap < 0) = (cmp(acc[1], acc[2]) < 0)
           /\ (gap = 0) = (cmp(acc[1], acc[2]) = 0)
           /\ (gap = 0) = (acc[1] = acc[2])
=============================================================================
