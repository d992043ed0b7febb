------------------------------- MODULE Schedule -------------------------------
(***************************************************************************)
(* When to upgrade: parse_rfc3339 (src/autoupdater/src/manifest.c) and     *)
(* get_probability (src/autoupdater/src/autoupdater.c).  A probability is  *)
(* a fraction <<numerator, denominator>>, computed without rounding.  A    *)
(* priority, the float of strtof in days, is given as a span: in seconds,  *)
(* rounded up to whole ones, which no comparison with a time tells apart.  *)
(* It may be negative, and be no number (NaN) or infinite; minus infinity  *)
(* does what any span below -Day does.                                     *)
(***************************************************************************)
EXTENDS Integers

CONSTANTS
  Day,      \* seconds in a day
  NaN,      \* strtof("nan")
  Infinite, \* strtof("inf"), or a number too large for a float
  RandMax   \* BOUND: RAND_MAX, the largest value of random()

ASSUME ScheduleAssumption ==
  /\ Day \in Nat \ {0} /\ RandMax \in Nat \ {0}
  /\ NaN \notin Int /\ Infinite \notin Int /\ NaN # Infinite

Span == Int \cup {NaN, Infinite}

\* The days from 1970-01-01 to a date; a year starts with March here.
DaysOf(year, month, day) ==
  LET a == (14 - month) \div 12
      y == year - a
      m == month + 12 * a - 3
  IN  day + (153 * m + 2) \div 5 + 365 * y + y \div 4 - y \div 100 + y \div 400
        - 719469

\* Mutant: the offset of the time zone is added.
ZoneAdded(d) ==
  Day * DaysOf(d.year, d.month, d.day) + d.second
    + (IF d.sign = "-" THEN -1 ELSE 1) * d.zone

\* parse_rfc3339 on a text that has the nine fields; second and zone are the
\* time of the day and the offset of the zone in seconds.
parse_rfc3339(d) ==
  Day * DaysOf(d.year, d.month, d.day) + d.second
    - (IF d.sign = "-" THEN -1 ELSE 1) * d.zone

\* Mutant: x^3 is taken once.
CurveTooHigh(diff, seconds) ==
  <<diff * diff * (3 * seconds - diff), seconds * seconds * seconds>>

\* 3x^2 - 2x^3 with x = diff / seconds.
Curve(diff, seconds) ==
  <<diff * diff * (3 * seconds - 2 * diff), seconds * seconds * seconds>>

Never  == <<0, 1>>
One    == <<1, 1>>
Beyond == <<2, 1>>   \* more than one; NaN, too, as random() >= NaN is false

\* powf(0.75, priority), for whole days, to which the exponent is rounded down; it
\* is more than one for a negative priority.
Power(span) ==
  CASE span = Infinite -> Never
    [] span \in Nat    -> <<3 ^ (span \div Day), 4 ^ (span \div Day)>>
    [] OTHER           -> Beyond

\* The chance between the date and the end of the span; no time is as late as
\* NaN or infinity.
Rising(diff, span) ==
  CASE span = NaN                      -> Beyond
    [] span = Infinite                 -> Never
    [] span \in Int /\ diff >= span    -> One
    [] span \in Int /\ ~(diff >= span) -> Curve(diff, span)

Overdue(diff, span) == span \in Int /\ diff >= span + Day

\* get_probability; diff is the time since the date of the manifest.
get_probability(diff, uptime, span, fallback) ==
  CASE diff < 0               -> IF uptime < 600 THEN Never ELSE Power(span)
    [] diff >= 0 /\ fallback  -> IF Overdue(diff, span) THEN One ELSE Never
    [] diff >= 0 /\ ~fallback -> Rising(diff, span)

\* random() < RAND_MAX * p: even a probability of one leaves RAND_MAX out.
Due(random, p) == random * p[2] < RandMax * p[1]

-------------------------------------------------------------------------------
(* What a date and a probability are                                       *)

Leap(year) == year % 4 = 0 /\ (year % 100 = 0 => year % 400 = 0)

DaysIn(year, month) ==
  CASE month = 2              -> IF Leap(year) THEN 29 ELSE 28
    [] month \in {4, 6, 9, 11} -> 30
    [] OTHER                  -> 31

Tomorrow(d) ==
  CASE d.day < DaysIn(d.year, d.month) -> [d EXCEPT !.day = @ + 1]
    [] d.day = DaysIn(d.year, d.month) /\ d.month < 12 ->
         [d EXCEPT !.day = 1, !.month = @ + 1]
    [] OTHER -> [d EXCEPT !.day = 1, !.month = 1, !.year = @ + 1]

\* What the clock shows z seconds after d, for at most a day.
Later(d, z) ==
  IF d.second + z < Day THEN [d EXCEPT !.second = @ + z]
  ELSE [Tomorrow(d) EXCEPT !.second = @ + z - Day]

\* The order of probabilities.
AtMost(p, q) == p[1] * q[2] <= q[1] * p[2]
===============================================================================
