------------------------- MODULE PureFunctionsProofs -------------------------
(* What the functions without state compute, for arguments of any size.    *)
EXTENDS PureFunctions, VersionProofs, FiniteSetTheorems

-------------------------------------------------------------------------------
(* The calls                                                               *)

\* A call stays what it was at the start.
LEMMA Calls == Spec => []Init
<1>1. Init /\ [Next]_call => Init'
  BY DEF Init, Next
<1> QED BY <1>1, PTL DEF Spec

\* What is known of the arguments, one set of them at a time.
LEMMA VersionTexts == Versions \subseteq Seq(1..127)
BY ArgumentsAssumption
LEMMA YearRange == \A year \in Years : year \in Nat \ {0}
<1>1. Years \subseteq 1970..9999
  BY ArgumentsAssumption, SMTT(60)
<1> QED BY <1>1, SMTT(30)
LEMMA SpanRange == Spans \subseteq Int
BY ArgumentsAssumption
LEMMA MirrorTexts ==
  \A mirrors \in MirrorLists : mirrors \in Seq({mirrors[k] : k \in DOMAIN mirrors})
BY ArgumentsAssumption
LEMMA KeyTexts == KeyLists \subseteq Seq(Seq(1..127))
BY ArgumentsAssumption
LEMMA ListLengths ==
  Lengths \subseteq Nat \ {0} /\ \A n \in Lengths : n * (n - 1) <= RandMax
BY ArgumentsAssumption, SMTT(60)
LEMMA ParameterTexts == Texts \subseteq Seq(1..255)
BY ArgumentsAssumption

LEMMA Called ==
  ASSUME Init
  PROVE  /\ call.name = "newer_than" => \E a, b \in Versions : call = Compare(a, b)
         /\ call.name = "parse_rfc3339" =>
              \E year \in Years, month \in 1..12 : \E day \in 1..DaysIn(year, month) :
                \E second \in {0, Day - 1}, zone \in {0, Day \div 2, Day} :
                  call = Read(Moment(year, month, day, second), zone)
         /\ call.name = "get_probability" =>
              \E span \in Spans : \E diff \in 0..(span + 3 * Day) :
                call = Chance(diff, span)
         /\ call.name = "main" =>
              \E mirrors \in MirrorLists : \E k \in Left(mirrors) : call = Pick(mirrors, k)
         /\ call.name = "load_settings" => \E keys \in KeyLists : call = Load(keys)
         /\ call.name = "ARRAY_SHUFFLE" =>
              \E n \in Lengths : \E wanted \in Orders(n) : call = Shuffle(wanted)
         /\ call.name = "query_string_get_value" /\ call.encoded =>
              \E branch, file \in Texts : \E query \in Queries(branch, file) :
                call = Ask(branch, file, query, TRUE)
         /\ call.name = "query_string_get_value" /\ ~call.encoded =>
              \E branch \in Names : \E image \in Names \cup {branch \o DOT_MANIFEST} :
                call = Ask(branch, image, proxy_image_url_cb(branch, image), FALSE)
<1>1. /\ call.name = "newer_than" => \E a, b \in Versions : call = Compare(a, b)
      /\ call.name = "main" =>
           \E mirrors \in MirrorLists : \E k \in Left(mirrors) : call = Pick(mirrors, k)
      /\ call.name = "load_settings" => \E keys \in KeyLists : call = Load(keys)
  BY DEF Init, Compare, Read, Chance, Pick, Shuffle, Ask, Load
<1>2. ASSUME call.name = "parse_rfc3339"
      PROVE  \E year \in Years, month \in 1..12 : \E day \in 1..DaysIn(year, month) :
               \E second \in {0, Day - 1}, zone \in {0, Day \div 2, Day} :
                 call = Read(Moment(year, month, day, second), zone)
  BY <1>2 DEF Init, Compare, Read, Chance, Pick, Shuffle, Ask, Load
<1>3. /\ call.name = "get_probability" =>
           \E span \in Spans : \E diff \in 0..(span + 3 * Day) : call = Chance(diff, span)
      /\ call.name = "ARRAY_SHUFFLE" =>
           \E n \in Lengths : \E wanted \in Orders(n) : call = Shuffle(wanted)
  BY DEF Init, Compare, Read, Chance, Pick, Shuffle, Ask, Load
<1>4. ASSUME call.name = "query_string_get_value"
      PROVE  /\ call.encoded =>
                  \E branch, file \in Texts : \E query \in Queries(branch, file) :
                    call = Ask(branch, file, query, TRUE)
             /\ ~call.encoded =>
                  \E branch \in Names : \E image \in Names \cup {branch \o DOT_MANIFEST} :
                    call = Ask(branch, image, proxy_image_url_cb(branch, image), FALSE)
  <2>1. \/ \E branch, image \in Names :
             call = Ask(branch, image, proxy_image_url_cb(branch, image), FALSE)
        \/ \E branch \in Names :
             call = Ask(branch, branch \o DOT_MANIFEST, proxy_manifest_url_cb(branch), FALSE)
        \/ \E branch, file \in Texts : \E query \in Queries(branch, file) :
             call = Ask(branch, file, query, TRUE)
    <3>1. /\ \A a, b : Compare(a, b).name # "query_string_get_value"
          /\ \A date, zone : Read(date, zone).name # "query_string_get_value"
          /\ \A diff, span : Chance(diff, span).name # "query_string_get_value"
          /\ \A mirrors, k : Pick(mirrors, k).name # "query_string_get_value"
          /\ \A keys : Load(keys).name # "query_string_get_value"
          /\ \A wanted : Shuffle(wanted).name # "query_string_get_value"
      BY DEF Compare, Read, Chance, Pick, Shuffle, Load
    <3> QED BY <1>4, <3>1, Zenon DEF Init
  <2>2. \A branch, file, query, encoded : Ask(branch, file, query, encoded).encoded = encoded
    BY DEF Ask
  <2>3. CASE \E branch, image \in Names :
               call = Ask(branch, image, proxy_image_url_cb(branch, image), FALSE)
    <3>1. PICK branch \in Names, image \in Names :
            call = Ask(branch, image, proxy_image_url_cb(branch, image), FALSE)
      BY <2>3
    <3>2. image \in Names \cup {branch \o DOT_MANIFEST}
      OBVIOUS
    <3> QED BY <2>2, <3>1, <3>2
  <2>4. CASE \E branch \in Names :
               call = Ask(branch, branch \o DOT_MANIFEST, proxy_manifest_url_cb(branch), FALSE)
    <3>1. PICK branch \in Names :
            call = Ask(branch, branch \o DOT_MANIFEST,
                       proxy_image_url_cb(branch, branch \o DOT_MANIFEST), FALSE)
      BY <2>4 DEF proxy_manifest_url_cb
    <3>2. branch \o DOT_MANIFEST \in Names \cup {branch \o DOT_MANIFEST}
      OBVIOUS
    <3> QED BY <2>2, <3>1, <3>2
  <2>5. CASE \E branch, file \in Texts : \E query \in Queries(branch, file) :
               call = Ask(branch, file, query, TRUE)
    BY <2>2, <2>5
  <2> QED BY <2>1, <2>3, <2>4, <2>5
<1> QED BY <1>1, <1>2, <1>3, <1>4

\* newer_than orders the versions by their keys.
THEOREM NewerTheorem == Spec => []NewerIsLexicographic
<1>1. ASSUME Init PROVE NewerIsLexicographic
  <2> SUFFICES ASSUME call.name = "newer_than"
               PROVE  newer_than(call.a, call.b) <=> Greater(Key(call.a), Key(call.b))
    BY DEF NewerIsLexicographic
  <2>1. PICK a, b \in Versions : call = Compare(a, b)
    BY <1>1, Called
  <2>2. call.a \in CString /\ call.b \in CString
    BY <2>1, VersionTexts DEF Compare, CString, Chars
  <2> QED BY <2>2, NewerIsGreater
<1> QED BY <1>1, Calls, PTL

-------------------------------------------------------------------------------
(* The chance of an upgrade                                                *)

LEMMA TimesMonotone ==
  ASSUME NEW x \in Int, NEW y \in Int, NEW z \in Nat, x <= y
  PROVE  x * z <= y * z
OBVIOUS

LEMMA TimesNat ==
  ASSUME NEW x \in Nat, NEW y \in Nat
  PROVE  x * y \in Nat
OBVIOUS

\* The numerator of Curve grows from zero to its denominator.
Rise(d, s) == d * d * (3 * s - 2 * d)
Cube(s) == s * s * s

LEMMA RiseIs ==
  ASSUME NEW d \in Nat, NEW s \in Nat, d <= s
  PROVE  /\ Rise(d, s) \in Nat /\ Cube(s) \in Nat
         /\ Rise(d, s) <= Cube(s)
         /\ Rise(d, s) + Rise(s - d, s) = Cube(s)
         /\ d + 1 < s => Rise(d, s) <= Rise(d + 1, s)
<1>1. PICK e \in Nat : s = d + e
  <2>1. s - d \in Nat /\ s = d + (s - d)
    OBVIOUS
  <2> QED BY <2>1
<1>2. Rise(d, s) \in Nat
  <2>1. 3 * s - 2 * d = d + 3 * e
    BY <1>1
  <2>2. d * d \in Nat /\ d + 3 * e \in Nat
    BY TimesNat
  <2> QED BY <2>1, <2>2, TimesNat DEF Rise
<1>3. Cube(s) \in Nat
  BY TimesNat DEF Cube
<1>4. Rise(d, s) + Rise(e, s) = Cube(s)
  BY <1>1 DEF Rise, Cube
<1>5. Rise(e, s) \in Nat
  <2>1. 3 * s - 2 * e = 3 * d + e
    BY <1>1
  <2>2. e * e \in Nat /\ 3 * d + e \in Nat
    BY TimesNat
  <2> QED BY <2>1, <2>2, TimesNat DEF Rise
<1>6. Rise(d, s) <= Cube(s)
  BY <1>2, <1>3, <1>4, <1>5
<1>7. ASSUME d + 1 < s PROVE Rise(d, s) <= Rise(d + 1, s)
  <2>1. PICK f \in Nat : s = d + 2 + f
    <3>1. s - d - 2 \in Nat /\ s = d + 2 + (s - d - 2)
      BY <1>7
    <3> QED BY <3>1
  <2>2. Rise(d + 1, s) = Rise(d, s) + (6 * (d * f) + 9 * d + 3 * f + 4)
    BY <2>1 DEF Rise
  <2>3. 6 * (d * f) + 9 * d + 3 * f + 4 \in Nat
    BY TimesNat
  <2> QED BY <1>2, <2>2, <2>3
<1>8. s - d = e
  BY <1>1
<1> QED BY <1>2, <1>3, <1>4, <1>6, <1>7, <1>8

\* get_probability once the manifest is not from the future.
LEMMA Probability ==
  ASSUME NEW d \in Nat, NEW s \in Int
  PROVE  /\ get_probability(d, 0, s, FALSE)
              = IF d >= s THEN <<1, 1>> ELSE <<Rise(d, s), Cube(s)>>
         /\ get_probability(d, 0, s, TRUE)
              = <<IF d >= s + Day THEN 1 ELSE 0, 1>>
<1>1. ~(d < 0) /\ d >= 0 /\ s # NaN /\ s # Infinite
  BY ScheduleAssumption
<1>2. get_probability(d, 0, s, FALSE) = Rising(d, s)
  BY <1>1 DEF get_probability
<1>3. Rising(d, s) = IF d >= s THEN <<1, 1>> ELSE <<Rise(d, s), Cube(s)>>
  BY <1>1 DEF Rising, One, Curve, Rise, Cube
<1>4. get_probability(d, 0, s, TRUE) = IF Overdue(d, s) THEN One ELSE Never
  BY <1>1 DEF get_probability
<1> QED BY <1>2, <1>3, <1>4 DEF Overdue, One, Never

\* The chance grows without a step back from zero to certainty, and as much after its
\* start as before its end.
THEOREM ChanceTheorem == Spec => []ChanceGrowsToCertainty
<1>1. ASSUME Init PROVE ChanceGrowsToCertainty
  <2> SUFFICES ASSUME call.name = "get_probability"
               PROVE  ChanceGrowsToCertainty
    BY DEF ChanceGrowsToCertainty
  <2>11. PICK s \in Spans : \E diff \in 0..(s + 3 * Day) : call = Chance(diff, s)
    BY <1>1, Called
  <2>1. PICK diff \in 0..(s + 3 * Day) : call = Chance(diff, s)
    BY <2>11
  <2> DEFINE Normal(d) == get_probability(d, 0, s, FALSE)
             Fallback == get_probability(diff, 0, s, TRUE)
  <2>2. Day \in Nat \ {0} /\ s \in Int /\ diff \in Nat
    BY SpanRange, ScheduleAssumption
  <2>3. ASSUME NEW d \in Nat
        PROVE  Normal(d) = IF d >= s THEN <<1, 1>> ELSE <<Rise(d, s), Cube(s)>>
    BY <2>2, Probability
  <2>4. Fallback = <<IF diff >= s + Day THEN 1 ELSE 0, 1>>
    BY <2>2, Probability
  <2> HIDE DEF Normal, Fallback
  <2>5. ASSUME NEW d \in Nat
        PROVE  AtMost(<<0, 1>>, Normal(d)) /\ AtMost(Normal(d), <<1, 1>>)
    <3>1. CASE d >= s
      <4>1. Normal(d) = <<1, 1>>
        BY <2>3, <3>1
      <4> QED BY <4>1 DEF AtMost
    <3>2. CASE d < s
      <4>1. Normal(d)[1] = Rise(d, s) /\ Normal(d)[2] = Cube(s)
        BY <2>2, <2>3, <3>2
      <4>2. Rise(d, s) \in Nat /\ Cube(s) \in Nat /\ Rise(d, s) <= Cube(s)
        BY <2>2, <3>2, RiseIs, SMTT(60)
      <4> QED BY <4>1, <4>2 DEF AtMost
    <3> QED BY <2>2, <3>1, <3>2
  <2>6. AtMost(Normal(diff), Normal(diff + 1))
    <3>1. CASE diff + 1 >= s
      <4>1. Normal(diff + 1) = <<1, 1>>
        BY <2>2, <2>3, <3>1
      <4> QED BY <2>2, <2>5, <4>1
    <3>2. CASE diff + 1 < s
      <4>1. /\ Normal(diff)[1] = Rise(diff, s) /\ Normal(diff)[2] = Cube(s)
            /\ Normal(diff + 1)[1] = Rise(diff + 1, s) /\ Normal(diff + 1)[2] = Cube(s)
        BY <2>2, <2>3, <3>2
      <4>2. /\ Rise(diff, s) \in Nat /\ Rise(diff + 1, s) \in Nat /\ Cube(s) \in Nat
            /\ Rise(diff, s) <= Rise(diff + 1, s)
        BY <2>2, <3>2, RiseIs, SMTT(60)
      <4>3. Rise(diff, s) * Cube(s) <= Rise(diff + 1, s) * Cube(s)
        BY <4>2, TimesMonotone
      <4> QED BY <4>1, <4>3 DEF AtMost
    <3> QED BY <2>2, <3>1, <3>2
  <2>7. AtMost(Fallback, Normal(diff))
    <3>1. CASE diff >= s + Day
      <4>1. Normal(diff) = <<1, 1>> /\ Fallback = <<1, 1>>
        BY <2>2, <2>3, <2>4, <3>1
      <4> QED BY <4>1 DEF AtMost
    <3>2. CASE ~(diff >= s + Day)
      BY <2>4, <2>5, <3>2
    <3> QED BY <3>1, <3>2
  <2>8. ASSUME diff \in 1..(s - 1)
        PROVE  Normal(diff)[1] + Normal(s - diff)[1] = Normal(diff)[2]
    <3>1. /\ Normal(diff)[1] = Rise(diff, s) /\ Normal(diff)[2] = Cube(s)
          /\ Normal(s - diff)[1] = Rise(s - diff, s)
      BY <2>2, <2>3, <2>8
    <3>2. diff <= s
      BY <2>2, <2>8
    <3>3. Rise(diff, s) + Rise(s - diff, s) = Cube(s)
      BY <2>2, <3>2, RiseIs
    <3> QED BY <3>1, <3>3
  <2>9. /\ diff >= s => AtMost(<<1, 1>>, Normal(diff))
        /\ diff >= s + Day => AtMost(<<1, 1>>, Fallback)
    <3>1. diff >= s => Normal(diff) = <<1, 1>>
      BY <2>2, <2>3
    <3>2. diff >= s + Day => Fallback = <<1, 1>>
      BY <2>4
    <3>3. AtMost(<<1, 1>>, <<1, 1>>)
      BY DEF AtMost
    <3> QED BY <3>1, <3>2, <3>3
  <2>10. call.diff = diff /\ call.span = s
    BY <2>1 DEF Chance
  <2> QED BY <2>2, <2>5, <2>6, <2>7, <2>8, <2>9, <2>10
          DEF ChanceGrowsToCertainty, Normal, Fallback
<1> QED BY <1>1, Calls, PTL

-------------------------------------------------------------------------------
(* The calendar                                                            *)

\* The number of a day: the days before its month, in years that start with March, and
\* the days before its year.
MonthStart(m) == (153 * m + 2) \div 5
YearStart(y) == 365 * y + y \div 4 - y \div 100 + y \div 400
Start(year, month) ==
  IF month > 2 THEN MonthStart(month - 3) + YearStart(year)
  ELSE MonthStart(month + 9) + YearStart(year - 1)
Epoch == 719469

LEMMA DaysOfIs ==
  ASSUME NEW year \in Nat \ {0}, NEW month \in 1..12, NEW day \in Nat
  PROVE  /\ DaysOf(year, month, day) = day + Start(year, month) - Epoch
         /\ Start(year, month) \in Int /\ Epoch \in Int
<1>1. CASE month > 2
  <2>1. (14 - month) \div 12 = 0
    BY <1>1
  <2> QED BY <1>1, <2>1, SMT DEF DaysOf, Start, MonthStart, YearStart, Epoch
<1>2. CASE month <= 2
  <2>1. (14 - month) \div 12 = 1
    BY <1>2
  <2> QED BY <1>2, <2>1, SMT DEF DaysOf, Start, MonthStart, YearStart, Epoch
<1> QED BY <1>1, <1>2

LEMMA MonthStarts ==
  /\ MonthStart(0) = 0 /\ MonthStart(1) = 31 /\ MonthStart(2) = 61
  /\ MonthStart(3) = 92 /\ MonthStart(4) = 122 /\ MonthStart(5) = 153
  /\ MonthStart(6) = 184 /\ MonthStart(7) = 214 /\ MonthStart(8) = 245
  /\ MonthStart(9) = 275 /\ MonthStart(10) = 306 /\ MonthStart(11) = 337
BY DEF MonthStart

LEMMA YearLength ==
  ASSUME NEW y \in Nat \ {0}
  PROVE  /\ YearStart(y) = YearStart(y - 1) + (IF Leap(y) THEN 366 ELSE 365)
         /\ YearStart(y) \in Int /\ YearStart(y - 1) \in Int
<1>1. y \div 4 = (y - 1) \div 4 + (IF y % 4 = 0 THEN 1 ELSE 0)
  OBVIOUS
<1>2. y \div 100 = (y - 1) \div 100 + (IF y % 100 = 0 THEN 1 ELSE 0)
  OBVIOUS
<1>3. y \div 400 = (y - 1) \div 400 + (IF y % 400 = 0 THEN 1 ELSE 0)
  OBVIOUS
<1>4. (y % 100 = 0 => y % 4 = 0) /\ (y % 400 = 0 => y % 100 = 0)
  OBVIOUS
<1> QED BY <1>1, <1>2, <1>3, <1>4 DEF YearStart, Leap

LEMMA DaysInIs ==
  ASSUME NEW year, NEW month \in 1..12
  PROVE  /\ month = 2 => DaysIn(year, month) = IF Leap(year) THEN 29 ELSE 28
         /\ month \in {4, 6, 9, 11} => DaysIn(year, month) = 30
         /\ month \in {1, 3, 5, 7, 8, 10, 12} => DaysIn(year, month) = 31
<1>1. CASE month = 2
  <2>1. month \notin {4, 6, 9, 11} /\ month \notin {1, 3, 5, 7, 8, 10, 12}
    BY <1>1
  <2> QED BY <1>1, <2>1, Zenon DEF DaysIn
<1>2. CASE month \in {4, 6, 9, 11}
  <2>1. month # 2 /\ month \notin {1, 3, 5, 7, 8, 10, 12}
    BY <1>2
  <2> QED BY <1>2, <2>1, Zenon DEF DaysIn
<1>3. CASE month \in {1, 3, 5, 7, 8, 10, 12}
  <2>1. month # 2 /\ month \notin {4, 6, 9, 11}
    BY <1>3
  <2> QED BY <1>3, <2>1, Zenon DEF DaysIn
<1> QED BY <1>1, <1>2, <1>3

\* The next month starts when this one has ended.
LEMMA MonthLength ==
  ASSUME NEW year \in Nat \ {0}, NEW month \in 1..11
  PROVE  Start(year, month + 1) = Start(year, month) + DaysIn(year, month)
<1> DEFINE y == YearStart(year)
           x == YearStart(year - 1)
<1>1. y \in Int /\ x \in Int /\ y = x + (IF Leap(year) THEN 366 ELSE 365)
  BY YearLength
<1>2. month \in 1..12
  OBVIOUS
<1>3. Start(year, month + 1)
        = IF month + 1 > 2 THEN MonthStart(month - 2) + y ELSE MonthStart(month + 10) + x
  <2>1. (month + 1) - 3 = month - 2 /\ (month + 1) + 9 = month + 10
    OBVIOUS
  <2> QED BY <2>1 DEF Start
<1>4. Start(year, month)
        = IF month > 2 THEN MonthStart(month - 3) + y ELSE MonthStart(month + 9) + x
  BY DEF Start
<1> HIDE DEF x, y
<1>5. CASE month = 1
  BY <1>1, <1>2, <1>3, <1>4, <1>5, DaysInIs, MonthStarts
<1>6. CASE month = 2
  BY <1>1, <1>2, <1>3, <1>4, <1>6, DaysInIs, MonthStarts
<1>7. CASE month \in {4, 6, 9, 11}
  <2>1. DaysIn(year, month) = 30
    BY <1>2, <1>7, DaysInIs
  <2> QED BY <1>1, <1>3, <1>4, <1>7, <2>1, MonthStarts
<1>8. CASE month \in {3, 5, 7, 8, 10}
  <2>1. DaysIn(year, month) = 31
    BY <1>2, <1>8, DaysInIs
  <2> QED BY <1>1, <1>3, <1>4, <1>8, <2>1, MonthStarts
<1> QED BY <1>5, <1>6, <1>7, <1>8

\* Every day is a day longer than the one before, over the end of months and years.
TomorrowIsLater(year, month, day, second) ==
  \E y \in Nat, m \in 1..12, n \in Nat :
    /\ Tomorrow(Moment(year, month, day, second)) = Moment(y, m, n, second)
    /\ DaysOf(year, month, day) \in Int
    /\ DaysOf(y, m, n) = DaysOf(year, month, day) + 1

LEMMA TomorrowIs ==
  ASSUME NEW year \in Nat \ {0}, NEW month \in 1..12,
         NEW day \in 1..DaysIn(year, month), NEW second
  PROVE  TomorrowIsLater(year, month, day, second)
<1> DEFINE d == Moment(year, month, day, second)
<1>1. DaysIn(year, month) \in 1..31
  BY DaysInIs
<1>2. day \in Nat /\ day >= 1
  BY <1>1
<1>3. ASSUME NEW k \in 1..12, NEW i \in Nat
      PROVE  DaysOf(year, k, i) = i + Start(year, k) - Epoch /\ DaysOf(year, k, i) \in Int
  <2>1. /\ DaysOf(year, k, i) = i + Start(year, k) - Epoch
        /\ Start(year, k) \in Int /\ Epoch \in Int
    BY DaysOfIs
  <2> QED BY <2>1
<1>4. Epoch \in Int /\ \A k \in 1..12 : Start(year, k) \in Int
  BY <1>2, DaysOfIs
<1>5. d.year = year /\ d.month = month /\ d.day = day
  BY DEF Moment
<1>6. CASE day < DaysIn(year, month)
  <2>1. Tomorrow(d) = Moment(year, month, day + 1, second)
    BY <1>5, <1>6 DEF Tomorrow, Moment
  <2>2. DaysOf(year, month, day + 1) = DaysOf(year, month, day) + 1
    BY <1>2, <1>3, <1>4
  <2>3. DaysOf(year, month, day) \in Int /\ day + 1 \in Nat
    BY <1>2, <1>3, <1>4
  <2> HIDE DEF d
  <2>4. Tomorrow(Moment(year, month, day, second)) = Moment(year, month, day + 1, second)
    BY <2>1 DEF d
  <2> QED BY <2>2, <2>3, <2>4 DEF TomorrowIsLater
<1>7. CASE day = DaysIn(year, month) /\ month < 12
  <2>1. Tomorrow(d) = Moment(year, month + 1, 1, second)
    <3>1. Tomorrow(d) = [d EXCEPT !.day = 1, !.month = @ + 1]
      <4>1. ~(day < DaysIn(year, month))
        BY <1>1, <1>7
      <4> HIDE DEF d
      <4> QED BY <1>5, <1>7, <4>1, Zenon DEF Tomorrow
    <3> QED BY <3>1 DEF Moment
  <2>2. Start(year, month + 1) = Start(year, month) + DaysIn(year, month)
    BY <1>7, MonthLength
  <2>3. month + 1 \in 1..12 /\ 1 \in Nat
    BY <1>7
  <2>4. /\ DaysOf(year, month + 1, 1) = 1 + Start(year, month + 1) - Epoch
        /\ DaysOf(year, month, day) = day + Start(year, month) - Epoch
    BY <1>2, <1>3, <2>3
  <2>5. Start(year, month) \in Int /\ Epoch \in Int
    BY <1>4
  <2> HIDE DEF d
  <2>6. DaysOf(year, month + 1, 1) = DaysOf(year, month, day) + 1
    BY <1>2, <1>7, <2>2, <2>4, <2>5
  <2>7. DaysOf(year, month, day) \in Int
    BY <1>2, <2>4, <2>5
  <2>8. Tomorrow(Moment(year, month, day, second)) = Moment(year, month + 1, 1, second)
    BY <2>1 DEF d
  <2> QED BY <2>3, <2>6, <2>7, <2>8 DEF TomorrowIsLater
<1>8. CASE day = DaysIn(year, month) /\ month = 12
  <2>1. Tomorrow(d) = Moment(year + 1, 1, 1, second)
    <3>1. Tomorrow(d) = [d EXCEPT !.day = 1, !.month = 1, !.year = @ + 1]
      <4>1. ~(day < DaysIn(year, month)) /\ ~(month < 12)
        BY <1>1, <1>8
      <4> HIDE DEF d
      <4> QED BY <1>5, <4>1, Zenon DEF Tomorrow
    <3> QED BY <3>1 DEF Moment
  <2>2. DaysOf(year + 1, 1, 1) = 1 + Start(year + 1, 1) - Epoch
    BY DaysOfIs
  <2>3. DaysOf(year, 12, 31) = 31 + Start(year, 12) - Epoch
    BY <1>3
  <2>4. day = 31
    BY <1>8, DaysInIs
  <2>5. Start(year + 1, 1) = Start(year, 12) + 31
    <3>1. /\ Start(year + 1, 1) = MonthStart(1 + 9) + YearStart((year + 1) - 1)
          /\ Start(year, 12) = MonthStart(12 - 3) + YearStart(year)
      BY DEF Start
    <3>2. YearStart((year + 1) - 1) = YearStart(year) /\ YearStart(year) \in Int
      BY YearLength
    <3> QED BY <3>1, <3>2, MonthStarts
  <2>6. DaysOf(year + 1, 1, 1) = DaysOf(year, month, day) + 1
    <3>1. Start(year, 12) \in Int
      BY <1>4
    <3> QED BY <1>4, <1>8, <2>2, <2>3, <2>4, <2>5, <3>1
  <2>7. DaysOf(year, month, day) \in Int
    BY <1>2, <1>3
  <2> HIDE DEF d
  <2>8. Tomorrow(Moment(year, month, day, second)) = Moment(year + 1, 1, 1, second)
    BY <2>1 DEF d
  <2>9. year + 1 \in Nat /\ 1 \in 1..12 /\ 1 \in Nat
    OBVIOUS
  <2> QED BY <2>6, <2>7, <2>8, <2>9 DEF TomorrowIsLater
<1> QED BY <1>1, <1>2, <1>6, <1>7, <1>8

\* parse_rfc3339 counts the seconds of UTC, in whatever zone a moment is written.
THEOREM DateTheorem == Spec => []DateIsUtc
<1>1. DaysOf(1970, 1, 1) = 0
  BY SMT DEF DaysOf
<1>2. ASSUME Init PROVE DateIsUtc
  <2> SUFFICES ASSUME call.name = "parse_rfc3339" PROVE DateIsUtc
    BY <1>1 DEF DateIsUtc
  <2>1. PICK year \in Years, month \in 1..12 :
          \E day \in 1..DaysIn(year, month) :
            \E second \in {0, Day - 1}, zone \in {0, Day \div 2, Day} :
              call = Read(Moment(year, month, day, second), zone)
    BY <1>2, Called
  <2>2. PICK day \in 1..DaysIn(year, month) :
          \E second \in {0, Day - 1}, zone \in {0, Day \div 2, Day} :
            call = Read(Moment(year, month, day, second), zone)
    BY <2>1
  <2>3. PICK second \in {0, Day - 1}, zone \in {0, Day \div 2, Day} :
          call = Read(Moment(year, month, day, second), zone)
    BY <2>2
  <2>4. year \in Nat \ {0} /\ second \in Int /\ zone \in Int /\ Day \in Int
    <3>1. year \in Nat \ {0}
      BY YearRange, Zenon
    <3>2. Day \in Nat /\ Day \in Int /\ Day \div 2 \in Int
      BY ScheduleAssumption
    <3>3. second \in Int
      BY <3>2, SMT
    <3>4. zone \in Int
      <4>1. zone = 0 \/ zone = Day \div 2 \/ zone = Day
        OBVIOUS
      <4> QED BY <3>2, <4>1
    <3> QED BY <3>1, <3>2, <3>3, <3>4, Zenon
  <2> DEFINE d == Moment(year, month, day, second)
             n == DaysOf(year, month, day)
             East == [Later(d, zone) EXCEPT !.zone = zone]
             West == [d EXCEPT !.zone = zone, !.sign = "-"]
  <2>5. PICK y \in Nat, m \in 1..12, i \in Nat :
          Tomorrow(d) = Moment(y, m, i, second) /\ n \in Int /\ DaysOf(y, m, i) = n + 1
    <3>1. year \in Nat \ {0}
      BY <2>4
    <3>2. TomorrowIsLater(year, month, day, second)
      BY <3>1, TomorrowIs
    <3> QED BY <3>2 DEF TomorrowIsLater
  <2>6. parse_rfc3339(d) = Day * n + second
    BY <2>4, <2>5 DEF parse_rfc3339, Moment
  <2>7. parse_rfc3339(West) = parse_rfc3339(d) + zone
    <3>1. /\ West.year = year /\ West.month = month /\ West.day = day
          /\ West.second = second /\ West.sign = "-" /\ West.zone = zone
      BY DEF Moment
    <3>2. parse_rfc3339(West) = Day * n + second - (-1) * zone
      BY <3>1 DEF parse_rfc3339
    <3> HIDE DEF n, West, d
    <3> QED BY <2>4, <2>5, <2>6, <3>2
  <2>8. parse_rfc3339(East) = parse_rfc3339(d)
    <3>1. CASE second + zone < Day
      <4>1. /\ East.year = year /\ East.month = month /\ East.day = day
            /\ East.second = second + zone /\ East.sign = "+" /\ East.zone = zone
        BY <3>1 DEF Moment, Later
      <4>2. parse_rfc3339(East) = Day * n + (second + zone) - 1 * zone
        BY <4>1 DEF parse_rfc3339
      <4> HIDE DEF n, East, d
      <4> QED BY <2>4, <2>5, <2>6, <4>2
    <3>2. CASE ~(second + zone < Day)
      <4>1. Later(d, zone) = [Moment(y, m, i, second) EXCEPT !.second = second + zone - Day]
        <5>1. Later(d, zone) = [Tomorrow(d) EXCEPT !.second = @ + zone - Day]
          BY <3>2 DEF Later, Moment
        <5> HIDE DEF d
        <5> QED BY <2>5, <5>1 DEF Moment
      <4>2. /\ East.year = y /\ East.month = m /\ East.day = i
            /\ East.second = second + zone - Day /\ East.sign = "+" /\ East.zone = zone
        <5> HIDE DEF d
        <5> QED BY <4>1 DEF Moment
      <4>3. parse_rfc3339(East) = Day * (n + 1) + (second + zone - Day) - 1 * zone
        <5> HIDE DEF East, n, d
        <5> QED BY <2>5, <4>2 DEF parse_rfc3339
      <4> HIDE DEF n, East, d
      <4> QED BY <2>4, <2>5, <2>6, <4>3
    <3> QED BY <3>1, <3>2
  <2>9. call.date = d /\ call.zone = zone
    BY <2>3 DEF Read
  <2>10. /\ [Later(call.date, call.zone) EXCEPT !.zone = call.zone] = East
         /\ [call.date EXCEPT !.zone = call.zone, !.sign = "-"] = West
    BY <2>9
  <2> HIDE DEF d, East, West
  <2> QED BY <1>1, <2>7, <2>8, <2>9, <2>10 DEF DateIsUtc
<1> QED BY <1>2, Calls, PTL

-------------------------------------------------------------------------------
(* The walk over the mirrors                                               *)

\* The entries left from k on and before t.
Between(mirrors, k, t) == {h \in Left(mirrors) : k <= h /\ h < t}

IsList(mirrors) ==
  /\ Len(mirrors) \in Nat /\ DOMAIN mirrors = 1..Len(mirrors)

LEMMA BetweenIs ==
  ASSUME NEW mirrors, IsList(mirrors), NEW k \in 1..Len(mirrors), NEW t \in Left(mirrors),
         k <= t
  PROVE  /\ IsFiniteSet(Between(mirrors, k, t)) /\ Cardinality(Between(mirrors, k, t)) \in Nat
         /\ k \notin Left(mirrors) =>
              /\ k + 1 <= t
              /\ Between(mirrors, k, t) = Between(mirrors, k + 1, t)
         /\ k \in Left(mirrors) /\ Cardinality(Between(mirrors, k, t)) = 0 => k = t
         /\ k \in Left(mirrors) /\ Cardinality(Between(mirrors, k, t)) > 0 =>
              /\ k + 1 <= t
              /\ Cardinality(Between(mirrors, k + 1, t))
                   = Cardinality(Between(mirrors, k, t)) - 1
<1> DEFINE B == Between(mirrors, k, t)
           C == Between(mirrors, k + 1, t)
<1>1. Left(mirrors) \subseteq 1..Len(mirrors) /\ Len(mirrors) \in Nat
  BY DEF IsList, Left
<1>2. IsFiniteSet(1..Len(mirrors))
  BY <1>1, FS_Interval
<1>3. IsFiniteSet(B) /\ IsFiniteSet(C)
  <2>1. B \subseteq 1..Len(mirrors) /\ C \subseteq 1..Len(mirrors)
    BY <1>1 DEF Between
  <2> HIDE DEF B, C
  <2> QED BY <1>2, <2>1, FS_Subset
<1>4. Cardinality(B) \in Nat /\ Cardinality(C) \in Nat
  BY <1>3, FS_CardinalityType
<1>5. t \in 1..Len(mirrors)
  BY <1>1
<1>6. ASSUME k \notin Left(mirrors) PROVE k + 1 <= t /\ B = C
  <2>1. k # t
    BY <1>6
  <2>2. k + 1 <= t
    BY <1>5, <2>1
  <2>3. ASSUME NEW h \in Left(mirrors) PROVE k <= h <=> k + 1 <= h
    <3>1. h # k /\ h \in 1..Len(mirrors)
      BY <1>1, <1>6
    <3> QED BY <3>1
  <2> QED BY <2>2, <2>3 DEF Between
<1>7. ASSUME k \in Left(mirrors), k # t
      PROVE  k + 1 <= t /\ k \in B /\ B \ {k} = C /\ Cardinality(C) = Cardinality(B) - 1
  <2>1. k + 1 <= t /\ k < t
    BY <1>5, <1>7
  <2>2. k \in B
    BY <1>7, <2>1 DEF Between
  <2>3. ASSUME NEW h \in Left(mirrors) PROVE (k <= h /\ h # k) <=> k + 1 <= h
    <3>1. h \in 1..Len(mirrors)
      BY <1>1
    <3> QED BY <3>1
  <2>4. B \ {k} = C
    BY <2>3 DEF Between
  <2> HIDE DEF B, C
  <2>5. Cardinality(B \ {k}) = Cardinality(B) - 1
    BY <1>3, <2>2, FS_RemoveElement
  <2> QED BY <2>1, <2>2, <2>4, <2>5
<1>8. ASSUME k = t PROVE B = {}
  <2>1. ASSUME NEW h \in B PROVE FALSE
    <3>1. h \in 1..Len(mirrors) /\ k <= h /\ h < t
      BY <1>1 DEF Between
    <3> QED BY <1>5, <1>8, <3>1
  <2> QED BY <2>1
<1>9. ASSUME k # t, k \in Left(mirrors) PROVE Cardinality(B) # 0
  <2>1. k \in B
    BY <1>7, <1>9
  <2> HIDE DEF B
  <2> QED BY <1>3, <2>1, FS_EmptySet
<1>10. Cardinality({}) = 0
  BY FS_EmptySet
<1> HIDE DEF B, C
<1>11. ASSUME k \in Left(mirrors), Cardinality(B) = 0 PROVE k = t
  BY <1>9, <1>11
<1>12. ASSUME k \in Left(mirrors), Cardinality(B) > 0
       PROVE  k + 1 <= t /\ Cardinality(C) = Cardinality(B) - 1
  <2>1. ASSUME k = t PROVE FALSE
    <3>1. Cardinality(B) = 0
      BY <1>8, <1>10, <2>1
    <3> QED BY <1>12, <3>1
  <2> QED BY <1>7, <1>12, <2>1
<1> QED BY <1>3, <1>4, <1>6, <1>11, <1>12 DEF B, C

\* The walk by as many entries as are left before t leads to t.
LEMMA WalkIs ==
  ASSUME NEW mirrors, IsList(mirrors), NEW t \in Left(mirrors)
  PROVE  Walk(mirrors, Cardinality(Between(mirrors, 1, t))) = t
<1> DEFINE i == Cardinality(Between(mirrors, 1, t))
           D == (1..(Len(mirrors) + 1)) \X (0..i)
           Past(k) == k > Len(mirrors)
           Null(k) == k <= Len(mirrors) /\ mirrors[k] = Removed
           Given(k) == k <= Len(mirrors) /\ mirrors[k] # Removed
           Stops(k, n) == k > Len(mirrors) \/ (mirrors[k] # Removed /\ n = 0)
           Body(walk, p) ==
             IF Stops(p[1], p[2]) THEN p[1]
             ELSE IF mirrors[p[1]] = Removed THEN walk[<<p[1] + 1, p[2]>>]
             ELSE walk[<<p[1] + 1, p[2] - 1>>]
           mu == [p \in D |-> Len(mirrors) + 1 - p[1]]
           step == [x \in D \X [D -> Nat] |-> Body(x[2], x[1])]
<1>1. Len(mirrors) \in Nat /\ t \in 1..Len(mirrors) /\ DOMAIN mirrors = 1..Len(mirrors)
  BY DEF IsList, Left
<1>2. 1 \in 1..Len(mirrors) /\ 1 <= t
  BY <1>1
<1>3. i \in Nat
  BY <1>2, BetweenIs
<1> HIDE DEF i
<1>4. ASSUME NEW p \in D
      PROVE  /\ p = <<p[1], p[2]>> /\ p[1] \in 1..(Len(mirrors) + 1) /\ p[2] \in 0..i
             /\ mu[p] = Len(mirrors) + 1 - p[1] /\ mu[p] \in 0..Len(mirrors)
  BY <1>1, <1>3
<1>5. mu \in [D -> 0..Len(mirrors)]
  BY <1>4
<1>6. ASSUME NEW p \in D, ~Past(p[1])
      PROVE  /\ <<p[1] + 1, p[2]>> \in D /\ mu[<<p[1] + 1, p[2]>>] < mu[p]
             /\ p[2] > 0 => <<p[1] + 1, p[2] - 1>> \in D /\ mu[<<p[1] + 1, p[2] - 1>>] < mu[p]
  <2>1. p[1] \in 1..Len(mirrors) /\ p[2] \in 0..i
    BY <1>1, <1>4, <1>6
  <2>2. <<p[1] + 1, p[2]>> \in D
    BY <1>1, <1>3, <2>1
  <2>3. mu[<<p[1] + 1, p[2]>>] < mu[p]
    <3>1. mu[<<p[1] + 1, p[2]>>] = Len(mirrors) + 1 - (p[1] + 1)
      BY <2>2
    <3>2. mu[p] = Len(mirrors) + 1 - p[1]
      BY <1>4
    <3> HIDE DEF mu, D
    <3> QED BY <1>1, <2>1, <3>1, <3>2
  <2>4. ASSUME p[2] > 0
        PROVE  <<p[1] + 1, p[2] - 1>> \in D /\ mu[<<p[1] + 1, p[2] - 1>>] < mu[p]
    <3>1. <<p[1] + 1, p[2] - 1>> \in D
      BY <1>1, <1>3, <2>1, <2>4
    <3>2. mu[<<p[1] + 1, p[2] - 1>>] = Len(mirrors) + 1 - (p[1] + 1)
      BY <3>1
    <3>3. mu[p] = Len(mirrors) + 1 - p[1]
      BY <1>4
    <3>4. mu[<<p[1] + 1, p[2] - 1>>] < mu[p]
      <4> HIDE DEF mu, D
      <4> QED BY <1>1, <2>1, <3>2, <3>3
    <3> QED BY <3>1, <3>4
  <2> QED BY <2>2, <2>3, <2>4
<1> HIDE DEF D, mu
\* The four cases leave each other out.
<1>7. ASSUME NEW p \in D, NEW f
      PROVE  /\ Past(p[1]) => Body(f, p) = p[1]
             /\ Null(p[1]) => Body(f, p) = f[<<p[1] + 1, p[2]>>]
             /\ Given(p[1]) /\ p[2] > 0 => Body(f, p) = f[<<p[1] + 1, p[2] - 1>>]
             /\ Given(p[1]) /\ p[2] = 0 => Body(f, p) = p[1]
             /\ Past(p[1]) \/ Null(p[1]) \/ Given(p[1])
             /\ p[2] > 0 \/ p[2] = 0
             /\ ~Past(p[1]) <=> (Null(p[1]) \/ Given(p[1]))
  <2>1. p[1] \in Int /\ p[2] \in Nat
    BY <1>3, <1>4
  <2> QED BY <1>1, <2>1
<1> HIDE DEF Body
<1>8. ASSUME NEW p \in D, NEW f \in [D -> Nat] PROVE Body(f, p) \in Nat
  <2>1. p[1] \in Nat
    BY <1>1, <1>4
  <2> HIDE DEF Past, Null, Given
  <2>2. CASE Past(p[1])
    BY <1>7, <2>1, <2>2
  <2>3. CASE Null(p[1])
    BY <1>6, <1>7, <2>3
  <2>4. CASE Given(p[1]) /\ p[2] > 0
    BY <1>6, <1>7, <2>4
  <2>5. CASE Given(p[1]) /\ p[2] = 0
    BY <1>7, <2>1, <2>5
  <2> QED BY <1>7, <2>2, <2>3, <2>4, <2>5
<1>9. ASSUME NEW p \in D, NEW f, NEW g, \A q \in D : mu[q] < mu[p] => f[q] = g[q]
      PROVE  Body(f, p) = Body(g, p)
  <2> HIDE DEF Past, Null, Given
  <2>2. CASE Past(p[1])
    BY <1>7, <2>2
  <2>3. CASE Null(p[1])
    <3>1. ~Past(p[1])
      BY <1>7, <2>3
    <3>2. f[<<p[1] + 1, p[2]>>] = g[<<p[1] + 1, p[2]>>]
      BY <1>6, <1>9, <3>1
    <3> QED BY <1>7, <2>3, <3>2
  <2>4. CASE Given(p[1]) /\ p[2] > 0
    <3>1. ~Past(p[1])
      BY <1>7, <2>4
    <3>2. f[<<p[1] + 1, p[2] - 1>>] = g[<<p[1] + 1, p[2] - 1>>]
      BY <1>6, <1>9, <2>4, <3>1
    <3> QED BY <1>7, <2>4, <3>2
  <2>5. CASE Given(p[1]) /\ p[2] = 0
    BY <1>7, <2>5
  <2> QED BY <1>7, <2>2, <2>3, <2>4, <2>5
<1>10. Recursion(D, Nat, mu, step)
  <2>1. step \in [D \X [D -> Nat] -> Nat]
    BY <1>8
  <2>2. ASSUME NEW p \in D, NEW f \in [D -> Nat], NEW g \in [D -> Nat],
               \A q \in D : mu[q] < mu[p] => f[q] = g[q]
        PROVE  step[<<p, f>>] = step[<<p, g>>]
    BY <1>9, <2>2
  <2> HIDE DEF step
  <2> QED BY <1>1, <1>5, <2>1, <2>2 DEF Recursion
<1> DEFINE walk == CHOOSE f : f = [p \in D |-> Body(f, p)]
<1>11. walk = [p \in D |-> Body(walk, p)]
  <2>1. PICK f \in [D -> Nat] : \A p \in D : f[p] = step[<<p, f>>]
    <3> HIDE DEF step
    <3> QED BY <1>10, RecursiveFunction
  <2>2. f = [p \in D |-> Body(f, p)]
    BY <2>1
  <2> QED BY <2>2, Zenon
<1>12. Walk(mirrors, i) = walk[<<1, i>>]
  BY Zenon DEF Walk, D, Body
<1> HIDE DEF walk
<1> DEFINE T == {p \in D : p[1] <= t /\ Cardinality(Between(mirrors, p[1], t)) = p[2]
                             => walk[p] = t}
<1>13. ASSUME NEW p \in D, \A q \in D : mu[q] < mu[p] => q \in T PROVE p \in T
  <2> SUFFICES ASSUME p[1] <= t, Cardinality(Between(mirrors, p[1], t)) = p[2]
               PROVE  walk[p] = t
    OBVIOUS
  <2>1. p[1] \in 1..Len(mirrors) /\ ~Past(p[1])
    BY <1>1, <1>4
  <2>2. walk[p] = Body(walk, p)
    BY <1>11
  <2>3. /\ p[1] \notin Left(mirrors) =>
             p[1] + 1 <= t /\ Cardinality(Between(mirrors, p[1] + 1, t)) = p[2]
        /\ p[1] \in Left(mirrors) /\ p[2] = 0 => p[1] = t
        /\ p[1] \in Left(mirrors) /\ p[2] > 0 =>
             p[1] + 1 <= t /\ Cardinality(Between(mirrors, p[1] + 1, t)) = p[2] - 1
    BY <2>1, BetweenIs
  <2>4. CASE Null(p[1])
    <3>1. p[1] \notin Left(mirrors)
      BY <2>4 DEF Left
    <3>2. walk[p] = walk[<<p[1] + 1, p[2]>>]
      BY <1>7, <2>2, <2>4
    <3>3. <<p[1] + 1, p[2]>> \in T
      BY <1>6, <1>13, <2>1
    <3> QED BY <2>3, <3>1, <3>2, <3>3
  <2>5. CASE Given(p[1]) /\ p[2] > 0
    <3>1. p[1] \in Left(mirrors)
      BY <1>1, <2>1, <2>5 DEF Left
    <3>2. walk[p] = walk[<<p[1] + 1, p[2] - 1>>]
      BY <1>7, <2>2, <2>5
    <3>3. <<p[1] + 1, p[2] - 1>> \in T
      BY <1>6, <1>13, <2>1, <2>5
    <3> QED BY <2>3, <2>5, <3>1, <3>2, <3>3
  <2>6. CASE Given(p[1]) /\ p[2] = 0
    <3>1. p[1] \in Left(mirrors)
      BY <1>1, <2>1, <2>6 DEF Left
    <3> QED BY <1>7, <2>2, <2>3, <2>6, <3>1
  <2> QED BY <1>7, <2>1, <2>4, <2>5, <2>6
<1>14. \A p \in D : p \in T
  <2> HIDE DEF T
  <2> QED BY <1>1, <1>5, <1>13, MeasureInduction
<1>15. <<1, i>> \in D
  BY <1>1, <1>3 DEF D
<1>16. <<1, i>> \in T
  BY <1>14, <1>15
<1>17. walk[<<1, i>>] = t
  BY <1>2, <1>16 DEF i
<1> QED BY <1>12, <1>17 DEF i

\* Each entry that is left is the one reached by the number of those before it.
THEOREM WalkTheorem == Spec => []WalkReachesEachMirror
<1>1. ASSUME Init PROVE WalkReachesEachMirror
  <2> SUFFICES ASSUME call.name = "main"
               PROVE  Walk(call.mirrors, Cardinality({h \in Left(call.mirrors) : h < call.k}))
                        = call.k
    BY DEF WalkReachesEachMirror
  <2>1. PICK mirrors \in MirrorLists : \E k \in Left(mirrors) : call = Pick(mirrors, k)
    BY <1>1, Called
  <2>2. PICK k \in Left(mirrors) : call = Pick(mirrors, k)
    BY <2>1
  <2>3. call.mirrors = mirrors /\ call.k = k
    BY <2>2 DEF Pick
  <2>4. IsList(mirrors)
    <3> DEFINE M == {mirrors[h] : h \in DOMAIN mirrors}
    <3>1. mirrors \in Seq(M)
      BY MirrorTexts
    <3> HIDE DEF M
    <3> QED BY <3>1 DEF IsList
  <2>5. {h \in Left(mirrors) : h < k} = Between(mirrors, 1, k)
    BY <2>4 DEF IsList, Left, Between
  <2> QED BY <2>3, <2>4, <2>5, WalkIs
<1> QED BY <1>1, Calls, PTL

-------------------------------------------------------------------------------
(* The keys                                                                *)

Bytes == [1..KeyLength -> 0..255]
DigitsOf(n) == IF n < 10 THEN {48 + n} ELSE {55 + n, 87 + n}

LEMMA DigitIs ==
  /\ \A c \in DOMAIN HexDigits : HexDigits[c] \in 0..15 /\ c \in DigitsOf(HexDigits[c])
  /\ \A n \in 0..15 : \A c \in DigitsOf(n) : c \in DOMAIN HexDigits /\ HexDigits[c] = n
<1>1. DOMAIN HexDigits = (48..57) \cup (65..70) \cup (97..102)
  BY DEF HexDigits
<1>2. ASSUME NEW c \in DOMAIN HexDigits
      PROVE  HexDigits[c] = IF c < 58 THEN c - 48 ELSE (c - 55) % 32
  BY DEF HexDigits
<1>3. ASSUME NEW c \in DOMAIN HexDigits
      PROVE  HexDigits[c] \in 0..15 /\ c \in DigitsOf(HexDigits[c])
  <2>1. CASE c \in 48..57
    <3>1. HexDigits[c] = c - 48
      BY <1>2, <2>1
    <3> QED BY <2>1, <3>1 DEF DigitsOf
  <2>2. CASE c \in 65..70
    <3>1. HexDigits[c] = (c - 55) % 32
      BY <1>2, <2>2
    <3>2. (c - 55) % 32 = c - 55
      BY <2>2
    <3> QED BY <2>2, <3>1, <3>2 DEF DigitsOf
  <2>3. CASE c \in 97..102
    <3>1. HexDigits[c] = (c - 55) % 32
      BY <1>2, <2>3
    <3>2. (c - 55) % 32 = c - 87
      BY <2>3
    <3> QED BY <2>3, <3>1, <3>2 DEF DigitsOf
  <2> QED BY <1>1, <2>1, <2>2, <2>3
<1>4. ASSUME NEW n \in 0..15, NEW c \in DigitsOf(n)
      PROVE  c \in DOMAIN HexDigits /\ HexDigits[c] = n
  <2>1. CASE n < 10
    <3>1. c = 48 + n /\ c \in 48..57
      BY <1>4, <2>1 DEF DigitsOf
    <3> QED BY <1>1, <1>2, <3>1
  <2>2. CASE ~(n < 10)
    <3>1. c = 55 + n \/ c = 87 + n
      BY <1>4, <2>2 DEF DigitsOf
    <3>2. c \in DOMAIN HexDigits /\ ~(c < 58)
      BY <1>1, <2>2, <3>1
    <3>3. (c - 55) % 32 = n
      BY <2>2, <3>1
    <3> QED BY <1>2, <3>2, <3>3
  <2> QED BY <2>1, <2>2
<1> QED BY <1>3, <1>4

LEMMA IsKeyTextIs ==
  ASSUME NEW k, NEW bytes
  PROVE  IsKeyText(k, bytes) <=>
           /\ Len(bytes) = KeyLength /\ Len(k) = 2 * KeyLength
           /\ \A i \in DOMAIN bytes : /\ k[2 * i - 1] \in DigitsOf(bytes[i] \div 16)
                                      /\ k[2 * i] \in DigitsOf(bytes[i] % 16)
BY Zenon DEF IsKeyText, DigitsOf

LEMMA BytesIs ==
  ASSUME NEW bytes \in Bytes
  PROVE  Len(bytes) = KeyLength /\ DOMAIN bytes = 1..KeyLength
<1> DEFINE R == 0..255
<1>1. bytes \in [1..KeyLength -> R] /\ KeyLength \in Nat
  BY ListsAssumption DEF Bytes
<1> HIDE DEF R
<1> QED BY <1>1

\* parsehex takes the texts of keys, and only those, and gives their bytes.
LEMMA ParsehexIs ==
  ASSUME NEW k \in CString
  PROVE  /\ parsehex(k, KeyLength).ok =>
              /\ parsehex(k, KeyLength).output \in Bytes
              /\ IsKeyText(k, parsehex(k, KeyLength).output)
         /\ \A bytes \in Bytes : IsKeyText(k, bytes) =>
              parsehex(k, KeyLength).ok /\ parsehex(k, KeyLength).output = bytes
<1> DEFINE IsHex == Len(k) = 2 * KeyLength /\ \A i \in DOMAIN k : k[i] \in DOMAIN HexDigits
           out == [i \in 1..KeyLength |-> 16 * HexDigits[k[2 * i - 1]] + HexDigits[k[2 * i]]]
           hex == parsehex(k, KeyLength)
<1>1. /\ IsHex => hex.ok = TRUE /\ hex.output = out
      /\ ~IsHex => hex.ok = FALSE
  BY DEF parsehex
<1>2. KeyLength \in Nat /\ Len(k) \in Nat /\ DOMAIN k = 1..Len(k)
  <2>1. k \in Seq(Chars)
    BY DEF CString
  <2> QED BY <2>1, ListsAssumption
<1>3. ASSUME IsHex PROVE out \in Bytes /\ IsKeyText(k, out)
  <2>1. ASSUME NEW i \in 1..KeyLength
        PROVE  /\ out[i] \in 0..255
               /\ k[2 * i - 1] \in DigitsOf(out[i] \div 16)
               /\ k[2 * i] \in DigitsOf(out[i] % 16)
    <3> DEFINE h == HexDigits[k[2 * i - 1]]
               l == HexDigits[k[2 * i]]
    <3>1. 2 * i - 1 \in DOMAIN k /\ 2 * i \in DOMAIN k
      BY <1>2, <1>3
    <3>2. k[2 * i - 1] \in DOMAIN HexDigits /\ k[2 * i] \in DOMAIN HexDigits
      BY <1>3, <3>1
    <3>3. /\ h \in 0..15 /\ l \in 0..15
          /\ k[2 * i - 1] \in DigitsOf(h) /\ k[2 * i] \in DigitsOf(l)
      BY <3>2, DigitIs
    <3>4. out[i] = 16 * h + l
      OBVIOUS
    <3> HIDE DEF h, l, out
    <3>5. out[i] \in 0..255 /\ out[i] \div 16 = h /\ out[i] % 16 = l
      BY <3>3, <3>4
    <3> QED BY <3>3, <3>5
  <2>2. out \in Bytes
    <3>1. out = [i \in 1..KeyLength |-> out[i]]
      OBVIOUS
    <3> HIDE DEF out
    <3> QED BY <2>1, <3>1 DEF Bytes
  <2> HIDE DEF out
  <2> QED BY <1>3, <2>1, <2>2, BytesIs, IsKeyTextIs
<1>4. ASSUME NEW bytes \in Bytes, IsKeyText(k, bytes) PROVE IsHex /\ out = bytes
  <2>1. /\ Len(k) = 2 * KeyLength
        /\ \A i \in 1..KeyLength : /\ k[2 * i - 1] \in DigitsOf(bytes[i] \div 16)
                                   /\ k[2 * i] \in DigitsOf(bytes[i] % 16)
    BY <1>4, BytesIs, IsKeyTextIs
  <2>2. ASSUME NEW i \in 1..KeyLength
        PROVE  /\ k[2 * i - 1] \in DOMAIN HexDigits /\ k[2 * i] \in DOMAIN HexDigits
               /\ 16 * HexDigits[k[2 * i - 1]] + HexDigits[k[2 * i]] = bytes[i]
    <3>1. bytes[i] \in 0..255
      BY DEF Bytes
    <3>2. /\ bytes[i] \div 16 \in 0..15 /\ bytes[i] % 16 \in 0..15
          /\ 16 * (bytes[i] \div 16) + (bytes[i] % 16) = bytes[i]
      BY <3>1
    <3>3. /\ k[2 * i - 1] \in DOMAIN HexDigits /\ k[2 * i] \in DOMAIN HexDigits
          /\ HexDigits[k[2 * i - 1]] = bytes[i] \div 16
          /\ HexDigits[k[2 * i]] = bytes[i] % 16
      BY <2>1, <3>2, DigitIs
    <3> QED BY <3>2, <3>3
  <2>3. ASSUME NEW j \in DOMAIN k PROVE k[j] \in DOMAIN HexDigits
    <3>1. PICK i \in 1..KeyLength : j = 2 * i - 1 \/ j = 2 * i
      <4>1. (j + 1) \div 2 \in 1..KeyLength
        BY <1>2, <2>1
      <4>2. j = 2 * ((j + 1) \div 2) - 1 \/ j = 2 * ((j + 1) \div 2)
        BY <1>2
      <4> QED BY <4>1, <4>2
    <3> QED BY <2>2, <3>1
  <2>4. out = bytes
    <3>1. bytes = [i \in 1..KeyLength |-> bytes[i]]
      BY DEF Bytes
    <3> QED BY <2>2, <3>1
  <2> QED BY <2>1, <2>3, <2>4
<1> QED BY <1>1, <1>3, <1>4

\* What the loop over the keys keeps.
Kept(k) ==
  LET hex == parsehex(k, KeyLength)
  IN  hex.ok /\ Loads(hex.output) /\ IsValidKey(hex.output)

LEMMA KeptIsValid ==
  ASSUME NEW k \in CString
  PROVE  Kept(k) <=> \E bytes \in Bytes : IsKeyText(k, bytes) /\ Loads(bytes) /\ IsValidKey(bytes)
BY ParsehexIs DEF Kept

\* The slots and the number of ignored keys after each key.
Loading(keys, load) ==
  /\ load[0].ignored = 0
  /\ \A i \in 0..Len(keys) : Len(load[i].slots) = Len(keys) /\ DOMAIN load[i].slots = 1..Len(keys)
  /\ \A i \in 1..Len(keys) :
       LET r == load[i - 1]
           hex == parsehex(keys[i], KeyLength)
       IN  /\ load[i].slots = IF ~hex.ok THEN r.slots
                              ELSE [r.slots EXCEPT ![i - r.ignored] = hex.output]
           /\ load[i].ignored = IF Kept(keys[i]) THEN r.ignored ELSE r.ignored + 1
  /\ PublicKeys(keys)
       = SubSeq(load[Len(keys)].slots, 1, Len(keys) - load[Len(keys)].ignored)

LEMMA LoadingIs ==
  ASSUME NEW keys \in Seq(CString)
  PROVE  \E load : Loading(keys, load)
<1> DEFINE n == Len(keys)
           D == 0..n
           V == [1..KeyLength -> 0..255] \cup {<<>>}
           S == [slots : [1..n -> V], ignored : Int]
           First == [slots |-> [k \in DOMAIN keys |-> <<>>], ignored |-> 0]
           Step(r, key, i) ==
             LET hex == parsehex(key, KeyLength)
                 k == hex.output
             IN  [slots   |-> IF ~hex.ok THEN r.slots
                              ELSE [r.slots EXCEPT ![Slot(i, r.ignored)] = k],
                  ignored |-> IF hex.ok /\ Loads(k) /\ IsValidKey(k)
                              THEN r.ignored ELSE r.ignored + 1]
           Body(load, i) == IF i = 0 THEN First ELSE Step(load[i - 1], keys[i], i)
           mu == [i \in D |-> i]
           step == [x \in D \X [D -> S] |-> Body(x[2], x[1])]
<1>1. n \in Nat /\ DOMAIN keys = 1..n
  OBVIOUS
<1>2. First \in S
  BY <1>1
<1>3. ASSUME NEW i \in D, i # 0 PROVE i - 1 \in D /\ i \in 1..n /\ keys[i] \in CString
  <2>1. i - 1 \in D /\ i \in 1..n
    BY <1>1, <1>3
  <2>2. keys[i] \in CString
    BY <2>1
  <2> QED BY <2>1, <2>2
<1>4. ASSUME NEW r \in S, NEW key \in CString, NEW i \in D PROVE Step(r, key, i) \in S
  <2> DEFINE hex == parsehex(key, KeyLength)
  <2>1. r.slots \in [1..n -> V] /\ r.ignored \in Int
    OBVIOUS
  <2>2. hex.ok => hex.output \in V
    BY ParsehexIs, SMTT(30) DEF Bytes
  <2> DEFINE slots == IF ~hex.ok THEN r.slots
                      ELSE [r.slots EXCEPT ![Slot(i, r.ignored)] = hex.output]
             ignored == IF hex.ok /\ Loads(hex.output) /\ IsValidKey(hex.output)
                        THEN r.ignored ELSE r.ignored + 1
  <2>3. slots \in [1..n -> V]
    <3> HIDE DEF hex, V
    <3> QED BY <2>1, <2>2
  <2>4. ignored \in Int
    <3> HIDE DEF hex
    <3> QED BY <2>1
  <2>5. Step(r, key, i) = [slots |-> slots, ignored |-> ignored]
    OBVIOUS
  <2> HIDE DEF slots, ignored, Step, V
  <2> QED BY <2>3, <2>4, <2>5
<1> HIDE DEF First, Step, S, V
<1>5. ASSUME NEW i \in D, NEW f, i # 0 => f[i - 1] \in S PROVE Body(f, i) \in S
  <2>1. CASE i = 0
    BY <1>2, <2>1
  <2>2. CASE i # 0
    BY <1>3, <1>4, <1>5, <2>2
  <2> QED BY <2>1, <2>2
<1>6. Recursion(D, S, mu, step)
  <2>1. step \in [D \X [D -> S] -> S]
    <3>1. ASSUME NEW i \in D, NEW f \in [D -> S] PROVE Body(f, i) \in S
      <4>1. i # 0 => f[i - 1] \in S
        BY <1>3
      <4> HIDE DEF D, Body
      <4> QED BY <1>5, <4>1
    <3> HIDE DEF D, Body
    <3> QED BY <3>1
  <2>2. ASSUME NEW i \in D, NEW f \in [D -> S], NEW g \in [D -> S],
               \A k \in D : mu[k] < mu[i] => f[k] = g[k]
        PROVE  step[<<i, f>>] = step[<<i, g>>]
    <3>1. Body(f, i) = Body(g, i)
      <4>1. CASE i = 0
        BY <4>1
      <4>2. CASE i # 0
        <5>1. f[i - 1] = g[i - 1]
          BY <1>1, <1>3, <2>2, <4>2
        <5> QED BY <4>2, <5>1
      <4> QED BY <4>1, <4>2
    <3> HIDE DEF Body
    <3> QED BY <3>1
  <2>3. mu \in [D -> 0..n] /\ n \in Nat /\ S # {}
    BY <1>1, <1>2
  <2> HIDE DEF step, mu, D
  <2> QED BY <2>1, <2>2, <2>3 DEF Recursion
<1> DEFINE load == CHOOSE f : f = [i \in D |-> Body(f, i)]
<1>7. load = [i \in D |-> Body(load, i)]
  <2>1. PICK f \in [D -> S] : \A i \in D : f[i] = step[<<i, f>>]
    <3> HIDE DEF step, D, mu
    <3> QED BY <1>6, RecursiveFunction
  <2>2. f = [i \in D |-> Body(f, i)]
    <3> HIDE DEF D, Body
    <3> QED BY <2>1
  <2> HIDE DEF Body
  <2> QED BY <2>2, Zenon
<1>8. PublicKeys(keys) = SubSeq(load[n].slots, 1, n - load[n].ignored)
  BY Zenon DEF PublicKeys, First, Step
<1> HIDE DEF load
<1>9. \A i \in D : load[i] = Body(load, i)
  <2> HIDE DEF D, Body
  <2> QED BY <1>7
<1>10. ASSUME NEW i \in D PROVE load[i] \in S
  <2> DEFINE T == {k \in Nat : load[k] \in S}
  <2>1. 0 \in T
    <3>1. load[0] = First
      BY <1>1, <1>9
    <3> QED BY <1>2, <3>1
  <2>2. ASSUME NEW k \in 0..(n - 1), k \in T PROVE k + 1 \in T
    <3>1. k + 1 \in D /\ (k + 1) - 1 = k /\ k + 1 # 0
      BY <1>1
    <3>2. Body(load, k + 1) \in S
      <4>1. load[(k + 1) - 1] \in S
        BY <2>2, <3>1
      <4> HIDE DEF Body
      <4> QED BY <1>5, <3>1, <4>1
    <3> HIDE DEF Body
    <3> QED BY <1>9, <3>1, <3>2
  <2> HIDE DEF T, n
  <2>3. \A k \in 0..n : k \in T
    BY <1>1, <2>1, <2>2, Climb
  <2> QED BY <2>3 DEF T
<1>11. ASSUME NEW i \in 0..n
       PROVE  Len(load[i].slots) = n /\ DOMAIN load[i].slots = 1..n
  <2>1. load[i].slots \in [1..n -> V]
    BY <1>10 DEF S
  <2> QED BY <1>1, <2>1
<1>12. load[0].ignored = 0
  BY <1>1, <1>9 DEF First
<1>13. ASSUME NEW i \in 1..n
       PROVE  LET r == load[i - 1]
                  hex == parsehex(keys[i], KeyLength)
              IN  /\ load[i].slots = IF ~hex.ok THEN r.slots
                                     ELSE [r.slots EXCEPT ![i - r.ignored] = hex.output]
                  /\ load[i].ignored = IF Kept(keys[i]) THEN r.ignored ELSE r.ignored + 1
  <2>1. i \in D /\ i # 0
    BY <1>1
  <2>2. load[i] = Step(load[i - 1], keys[i], i)
    BY <1>9, <2>1
  <2> QED BY <2>2 DEF Step, Slot, Kept
<1> HIDE DEF n
<1>14. Loading(keys, load)
  BY <1>8, <1>11, <1>12, <1>13 DEF Loading, n
<1> QED BY <1>14
\* How many keys are valid.
LEMMA UpToIs ==
  ASSUME NEW keys \in Seq(CString), NEW i \in 0..Len(keys)
  PROVE  /\ ValidUpTo(keys, i) = {h \in 1..i : Kept(keys[h])}
         /\ IsFiniteSet(ValidUpTo(keys, i)) /\ Cardinality(ValidUpTo(keys, i)) \in Nat
         /\ Cardinality(ValidUpTo(keys, i)) <= i
<1> DEFINE V == ValidUpTo(keys, i)
<1>1. V = {h \in 1..i : Kept(keys[h])}
  <2>1. ASSUME NEW h \in 1..i
        PROVE  Kept(keys[h]) <=> \E bytes \in Bytes :
                 IsKeyText(keys[h], bytes) /\ Loads(bytes) /\ IsValidKey(bytes)
    <3>1. keys[h] \in CString
      <4>1. h \in 1..Len(keys)
        OBVIOUS
      <4> QED BY <4>1
    <3> QED BY <3>1, KeptIsValid
  <2> QED BY <2>1 DEF ValidUpTo, Bytes
<1>2. V \subseteq 1..i /\ i \in Nat
  BY <1>1
<1> HIDE DEF V
<1>3. IsFiniteSet(1..i) /\ Cardinality(1..i) = i
  BY <1>2, FS_Interval
<1>4. IsFiniteSet(V) /\ Cardinality(V) <= i
  BY <1>2, <1>3, FS_Subset
<1>5. Cardinality(V) \in Nat
  BY <1>4, FS_CardinalityType
<1> QED BY <1>1, <1>4, <1>5 DEF V

LEMMA UpToNext ==
  ASSUME NEW keys \in Seq(CString), NEW i \in 1..Len(keys)
  PROVE  /\ Kept(keys[i]) =>
              /\ ValidUpTo(keys, i) = ValidUpTo(keys, i - 1) \cup {i}
              /\ Cardinality(ValidUpTo(keys, i)) = Cardinality(ValidUpTo(keys, i - 1)) + 1
         /\ ~Kept(keys[i]) => ValidUpTo(keys, i) = ValidUpTo(keys, i - 1)
<1> DEFINE V == ValidUpTo(keys, i)
           W == ValidUpTo(keys, i - 1)
<1>1. i - 1 \in 0..Len(keys) /\ i \in 0..Len(keys)
  OBVIOUS
<1>2. V = {h \in 1..i : Kept(keys[h])} /\ W = {h \in 1..(i - 1) : Kept(keys[h])}
  BY <1>1, UpToIs
<1>3. IsFiniteSet(W)
  BY <1>1, UpToIs
<1> HIDE DEF V, W
<1>4. \A h : h \in 1..i <=> (h \in 1..(i - 1) \/ h = i)
  OBVIOUS
<1>5. i \notin W
  BY <1>2
<1>6. Kept(keys[i]) => V = W \cup {i}
  BY <1>2, <1>4
<1>7. ~Kept(keys[i]) => V = W
  BY <1>2, <1>4
<1>8. Cardinality(W \cup {i}) = Cardinality(W) + 1
  BY <1>3, <1>5, FS_AddElement
<1> QED BY <1>6, <1>7, <1>8 DEF V, W

\* A valid key comes before those that are valid later.
LEMMA UpToGrows ==
  ASSUME NEW keys \in Seq(CString), NEW i \in 0..Len(keys), NEW h \in ValidUpTo(keys, i)
  PROVE  /\ h \in 1..i /\ Kept(keys[h])
         /\ Cardinality(ValidUpTo(keys, h)) \in 1..Cardinality(ValidUpTo(keys, i))
<1> DEFINE V == ValidUpTo(keys, i)
           W == ValidUpTo(keys, h)
<1>1. V = {k \in 1..i : Kept(keys[k])} /\ IsFiniteSet(V) /\ Cardinality(V) \in Nat
  BY UpToIs
<1>2. h \in 1..i /\ Kept(keys[h])
  BY <1>1
<1>3. h \in 0..Len(keys)
  BY <1>2
<1>4. W = {k \in 1..h : Kept(keys[k])} /\ IsFiniteSet(W) /\ Cardinality(W) \in Nat
  BY <1>3, UpToIs
<1> HIDE DEF V, W
<1>5. W \subseteq V /\ h \in W
  BY <1>1, <1>2, <1>4
<1>6. Cardinality(W) <= Cardinality(V)
  BY <1>1, <1>5, FS_Subset
<1>7. Cardinality(W) # 0
  BY <1>4, <1>5, FS_EmptySet
<1> QED BY <1>1, <1>2, <1>4, <1>6, <1>7 DEF V, W

\* The slots in use hold the valid keys so far; the next slot may hold anything.
SlotsHold(keys, r, i) ==
  /\ r.ignored = i - Cardinality(ValidUpTo(keys, i))
  /\ \A h \in ValidUpTo(keys, i) :
       r.slots[Cardinality(ValidUpTo(keys, h))] = parsehex(keys[h], KeyLength).output

LEMMA SlotsHoldNext ==
  ASSUME NEW keys \in Seq(CString), NEW load, Loading(keys, load), NEW i \in 1..Len(keys),
         SlotsHold(keys, load[i - 1], i - 1)
  PROVE  SlotsHold(keys, load[i], i)
<1> DEFINE r == load[i - 1]
           hex == parsehex(keys[i], KeyLength)
           C(h) == Cardinality(ValidUpTo(keys, h))
<1>1. i - 1 \in 0..Len(keys) /\ i \in 0..Len(keys)
  OBVIOUS
<1>2. DOMAIN r.slots = 1..Len(keys) /\ DOMAIN load[i].slots = 1..Len(keys)
  BY <1>1 DEF Loading
<1>3. /\ load[i].slots = IF ~hex.ok THEN r.slots
                         ELSE [r.slots EXCEPT ![i - r.ignored] = hex.output]
      /\ load[i].ignored = IF Kept(keys[i]) THEN r.ignored ELSE r.ignored + 1
  BY DEF Loading
<1>4. C(i) \in Nat /\ C(i - 1) \in Nat /\ C(i - 1) <= i - 1
  BY <1>1, UpToIs
<1>5. r.ignored = (i - 1) - C(i - 1)
  BY DEF SlotsHold
<1>6. ASSUME NEW h \in ValidUpTo(keys, i - 1)
      PROVE  C(h) \in 1..C(i - 1) /\ r.slots[C(h)] = parsehex(keys[h], KeyLength).output
  BY <1>1, UpToGrows DEF SlotsHold
<1>7. /\ Kept(keys[i]) => ValidUpTo(keys, i) = ValidUpTo(keys, i - 1) \cup {i} /\ C(i) = C(i - 1) + 1
      /\ ~Kept(keys[i]) => ValidUpTo(keys, i) = ValidUpTo(keys, i - 1)
  BY UpToNext
<1>8. Kept(keys[i]) => hex.ok
  BY DEF Kept
<1> HIDE DEF C, hex, r
<1>9. i - r.ignored = C(i - 1) + 1 /\ C(i - 1) + 1 \in 1..Len(keys)
  BY <1>4, <1>5
<1>10. ASSUME NEW k \in 1..C(i - 1) PROVE load[i].slots[k] = r.slots[k]
  <2>1. k # i - r.ignored /\ k \in 1..Len(keys)
    BY <1>4, <1>9
  <2> QED BY <1>2, <1>3, <2>1
<1>11. hex.ok => load[i].slots[C(i - 1) + 1] = hex.output
  BY <1>2, <1>3, <1>9
<1>12. load[i].ignored = i - C(i)
  <2>1. CASE Kept(keys[i])
    BY <1>3, <1>4, <1>5, <1>7, <2>1
  <2>2. CASE ~Kept(keys[i])
    <3>1. C(i) = C(i - 1)
      BY <1>7, <2>2 DEF C
    <3> QED BY <1>3, <1>4, <1>5, <2>2, <3>1
  <2> QED BY <2>1, <2>2
<1>13. ASSUME NEW h \in ValidUpTo(keys, i)
       PROVE  load[i].slots[C(h)] = parsehex(keys[h], KeyLength).output
  <2>1. CASE h \in ValidUpTo(keys, i - 1)
    BY <1>6, <1>10, <2>1
  <2>2. CASE h \notin ValidUpTo(keys, i - 1)
    <3>1. h = i /\ Kept(keys[i])
      BY <1>7, <2>2
    <3>2. C(h) = C(i - 1) + 1
      BY <1>7, <3>1
    <3> QED BY <1>8, <1>11, <3>1, <3>2 DEF hex
  <2> QED BY <2>1, <2>2
<1> QED BY <1>12, <1>13 DEF SlotsHold, C

\* load_settings gives the valid keys in their order.
LEMMA KeysAreKept ==
  ASSUME NEW keys \in Seq(CString)
  PROVE  LET loaded == PublicKeys(keys)
             Place(i) == Cardinality(ValidUpTo(keys, i))
         IN  /\ Len(loaded) = Place(Len(keys))
             /\ \A i \in ValidUpTo(keys, Len(keys)) : IsKeyText(keys[i], loaded[Place(i)])
<1>1. PICK load : Loading(keys, load)
  BY LoadingIs
<1> DEFINE n == Len(keys)
           T == {i \in Nat : SlotsHold(keys, load[i], i)}
           C(h) == Cardinality(ValidUpTo(keys, h))
<1>2. n \in Nat
  OBVIOUS
<1>3. 0 \in T
  <2>1. ValidUpTo(keys, 0) = {}
    BY DEF ValidUpTo
  <2>2. Cardinality(ValidUpTo(keys, 0)) = 0
    BY <2>1, FS_EmptySet
  <2>3. load[0].ignored = 0
    BY <1>1 DEF Loading
  <2>4. SlotsHold(keys, load[0], 0)
    BY <2>1, <2>2, <2>3 DEF SlotsHold
  <2> QED BY <2>4
<1>4. ASSUME NEW k \in 0..(n - 1), k \in T PROVE k + 1 \in T
  <2>1. k + 1 \in 1..Len(keys) /\ (k + 1) - 1 = k
    OBVIOUS
  <2>2. SlotsHold(keys, load[(k + 1) - 1], (k + 1) - 1)
    BY <1>4, <2>1
  <2>3. SlotsHold(keys, load[k + 1], k + 1)
    <3> DEFINE i == k + 1
    <3>1. i \in 1..Len(keys) /\ SlotsHold(keys, load[i - 1], i - 1)
      BY <2>1, <2>2
    <3> HIDE DEF i
    <3>2. SlotsHold(keys, load[i], i)
      BY <1>1, <3>1, SlotsHoldNext
    <3> QED BY <3>2 DEF i
  <2> QED BY <2>1, <2>3
<1> HIDE DEF T, n
<1>5. n \in T
  <2>1. \A k \in 0..n : k \in T
    BY <1>2, <1>3, <1>4, Climb
  <2> QED BY <1>2, <2>1
<1>6. SlotsHold(keys, load[n], n)
  BY <1>5 DEF T
<1> DEFINE slots == load[n].slots
           loaded == PublicKeys(keys)
<1>7. C(n) \in Nat /\ C(n) <= n
  BY <1>2, UpToIs DEF n
<1>8. loaded = SubSeq(slots, 1, C(n))
  <2>1. loaded = SubSeq(slots, 1, n - load[n].ignored)
    BY <1>1 DEF Loading, n
  <2>2. n - load[n].ignored = C(n)
    BY <1>2, <1>6, <1>7 DEF SlotsHold
  <2> QED BY <2>1, <2>2
<1>9. Len(slots) = n
  BY <1>1, <1>2 DEF Loading, n
<1> HIDE DEF slots, loaded, C
<1>10. Len(loaded) = C(n) /\ \A k \in 1..C(n) : loaded[k] = slots[k]
  BY <1>2, <1>7, <1>8, <1>9
<1>11. ASSUME NEW h \in ValidUpTo(keys, n) PROVE IsKeyText(keys[h], loaded[C(h)])
  <2>1. h \in 1..n /\ Kept(keys[h]) /\ C(h) \in 1..C(n)
    BY <1>2, UpToGrows DEF C, n
  <2>2. slots[C(h)] = parsehex(keys[h], KeyLength).output
    BY <1>6 DEF SlotsHold, slots, C
  <2>3. keys[h] \in CString
    BY <2>1 DEF n
  <2>4. IsKeyText(keys[h], parsehex(keys[h], KeyLength).output)
    BY <2>1, <2>3, ParsehexIs DEF Kept
  <2> QED BY <1>10, <2>1, <2>2, <2>4
<1> QED BY <1>10, <1>11 DEF n, C, loaded

\* The keys that are kept are the valid ones.
THEOREM KeysTheorem == Spec => []KeepsValidKeys
<1>1. ASSUME Init PROVE KeepsValidKeys
  <2> SUFFICES ASSUME call.name = "load_settings" PROVE KeepsValidKeys
    BY DEF KeepsValidKeys
  <2>1. PICK keys \in KeyLists : call = Load(keys)
    BY <1>1, Called
  <2>2. keys \in Seq(CString)
    BY KeyTexts DEF CString, Chars
  <2>3. call.keys = keys
    BY <2>1 DEF Load
  <2> QED BY <2>2, <2>3, KeysAreKept DEF KeepsValidKeys
<1> QED BY <1>1, Calls, PTL

-------------------------------------------------------------------------------
(* The shuffle                                                             *)

\* The list before the shuffle and the sequences of draws.
InOrder(n) == [i \in 1..n |-> i]
Draws(n) == [1..(n - 1) -> 0..RandMax]
Swapped(a, i, j) == [a EXCEPT ![i] = a[j], ![j] = a[i]]

\* The orders in which no entry is missing.
AllOrders(n) == {f \in Orders(n) : \A v \in 1..n : \E p \in 1..n : f[p] = v}

LEMMA Division ==
  ASSUME NEW a \in Nat, NEW b \in Nat \ {0}
  PROVE  /\ a \div b \in Nat /\ a % b \in Nat /\ a % b < b
         /\ a = b * (a \div b) + (a % b)
BY SMT

LEMMA ProductsOrdered ==
  ASSUME NEW x \in Nat, NEW y \in Nat, NEW z \in Nat, x <= y
  PROVE  z * x <= z * y
OBVIOUS

\* A draw stays behind the entries that are in their place, and with a RAND_MAX that
\* is large enough any of the others can be drawn.
LEMMA DrawnIs ==
  ASSUME NEW n \in Nat, NEW i \in 1..(n - 1)
  PROVE  /\ \A r \in 0..RandMax : Drawn(i, r, n, RandMax) \in i..n
         /\ n * (n - 1) <= RandMax =>
              \A t \in i..n : \E r \in 0..RandMax : Drawn(i, r, n, RandMax) = t
<1> DEFINE m == n - i + 1
           u == RandMax \div m
           q == u + 1
<1>1. m \in Nat \ {0} /\ RandMax \in Nat /\ m >= 2 /\ m <= n
  BY ScheduleAssumption
<1>2. /\ u \in Nat /\ RandMax % m \in Nat /\ RandMax % m < m
      /\ RandMax = m * u + (RandMax % m)
  <2> HIDE DEF m
  <2> QED BY <1>1, Division
<1>3. \A r : Drawn(i, r, n, RandMax) = i + r \div q
  BY DEF Drawn
<1>4. n = m + i - 1
  OBVIOUS
<1> HIDE DEF m, u
<1>5. q \in Nat \ {0} /\ m * q = m * u + m
  BY <1>1, <1>2
<1>6. RandMax < m * q
  BY <1>1, <1>2, <1>5
<1> HIDE DEF q
<1>7. ASSUME NEW r \in 0..RandMax PROVE Drawn(i, r, n, RandMax) \in i..n
  <2> DEFINE d == r \div q
  <2>1. d \in Nat /\ r % q \in Nat /\ r = q * d + (r % q)
    BY <1>5, <1>1, Division
  <2> HIDE DEF d
  <2>2. ASSUME d >= m PROVE FALSE
    <3>1. q * m <= q * d
      BY <1>1, <1>5, <2>1, <2>2, ProductsOrdered
    <3>2. q * d <= r /\ r <= RandMax
      BY <1>1, <1>5, <2>1
    <3>3. q * m = m * q
      BY <1>1, <1>5
    <3> QED BY <1>1, <1>5, <1>6, <2>1, <3>1, <3>2, <3>3
  <2>3. i + d \in i..n
    BY <1>1, <1>4, <2>1, <2>2
  <2> QED BY <1>3, <2>3 DEF d
<1>8. ASSUME n * (n - 1) <= RandMax, NEW t \in i..n
      PROVE  \E r \in 0..RandMax : Drawn(i, r, n, RandMax) = t
  <2> DEFINE e == t - i
             r == q * e
  <2>1. e \in Nat /\ e <= m - 1
    BY <1>1, <1>4
  <2> HIDE DEF e
  <2>2. r \in Nat /\ r <= q * (m - 1)
    BY <1>1, <1>5, <2>1, ProductsOrdered
  <2>3. q * (m - 1) = m * u + (m - 1 - u)
    BY <1>1, <1>2 DEF q
  <2>4. m - 1 <= u
    <3>1. m * (m - 1) <= n * (n - 1)
      <4>1. m * (m - 1) <= m * (n - 1)
        BY <1>1, ProductsOrdered
      <4>2. (n - 1) * m <= (n - 1) * n
        BY <1>1, ProductsOrdered
      <4> QED BY <1>1, <4>1, <4>2
    <3>2. ASSUME u + 1 <= m - 1 PROVE FALSE
      <4>1. m * (u + 1) <= m * (m - 1)
        BY <1>1, <1>2, <3>2, ProductsOrdered
      <4>2. m * (m - 1) <= RandMax
        BY <1>1, <1>8, <3>1
      <4>3. m * (u + 1) = m * q
        BY DEF q
      <4> QED BY <1>1, <1>5, <1>6, <4>1, <4>2, <4>3
    <3> QED BY <1>1, <1>2, <3>2
  <2>5. q * (m - 1) <= RandMax
    BY <1>1, <1>2, <2>3, <2>4
  <2>6. r \in 0..RandMax
    BY <1>1, <1>5, <2>2, <2>5
  <2>7. r \div q = e
    BY <1>5, <2>1, SMT
  <2>8. i + e = t
    BY DEF e
  <2> QED BY <1>3, <2>6, <2>7, <2>8
<1> QED BY <1>7, <1>8

LEMMA SwappedIs ==
  ASSUME NEW n \in Nat, NEW a \in AllOrders(n), NEW i \in 1..n, NEW j \in 1..n
  PROVE  /\ Swapped(a, i, j) \in AllOrders(n)
         /\ Swapped(a, i, j)[i] = a[j]
         /\ \A k \in 1..n : k # i /\ k # j => Swapped(a, i, j)[k] = a[k]
<1> DEFINE b == Swapped(a, i, j)
<1>1. /\ a \in [1..n -> 1..n] /\ \A k, l \in 1..n : a[k] = a[l] => k = l
      /\ \A v \in 1..n : \E p \in 1..n : a[p] = v
  BY DEF AllOrders, Orders
<1>2. /\ b \in [1..n -> 1..n] /\ b[i] = a[j] /\ b[j] = a[i]
      /\ \A k \in 1..n : k # i /\ k # j => b[k] = a[k]
  BY <1>1 DEF Swapped
<1> HIDE DEF b
<1>3. ASSUME NEW k \in 1..n, NEW l \in 1..n, b[k] = b[l] PROVE k = l
  <2> DEFINE s(h) == IF h = i THEN j ELSE IF h = j THEN i ELSE h
  <2>1. \A h \in 1..n : s(h) \in 1..n /\ b[h] = a[s(h)]
    BY <1>2
  <2>2. s(k) = s(l) => k = l
    OBVIOUS
  <2> HIDE DEF s
  <2>3. s(k) \in 1..n /\ s(l) \in 1..n /\ a[s(k)] = a[s(l)]
    BY <1>3, <2>1
  <2> QED BY <1>1, <2>2, <2>3
<1>4. ASSUME NEW v \in 1..n PROVE \E p \in 1..n : b[p] = v
  <2>1. PICK p \in 1..n : a[p] = v
    BY <1>1
  <2>2. CASE p = i
    BY <1>2, <2>1, <2>2
  <2>3. CASE p = j
    BY <1>2, <2>1, <2>3
  <2>4. CASE p # i /\ p # j
    BY <1>2, <2>1, <2>4
  <2> QED BY <2>2, <2>3, <2>4
<1>5. b \in AllOrders(n)
  BY <1>2, <1>3, <1>4 DEF AllOrders, Orders
<1> QED BY <1>2, <1>5 DEF b

\* The lists the loop goes through.
Shuffling(n, draws, list) ==
  /\ list[0] = InOrder(n)
  /\ \A i \in 1..(n - 1) :
       list[i] = Swapped(list[i - 1], i, Drawn(i, draws[i], n, RandMax))
  /\ ARRAY_SHUFFLE(InOrder(n), draws, RandMax) = list[n - 1]

LEMMA ShuffleIs ==
  ASSUME NEW n \in Nat \ {0}, NEW draws \in Draws(n)
  PROVE  \E list : Shuffling(n, draws, list)
<1> DEFINE D == 0..(n - 1)
           S == [1..n -> 1..n]
           Body(shuffle, i) ==
             IF i = 0 THEN InOrder(n)
             ELSE Swapped(shuffle[i - 1], i, Drawn(i, draws[i], n, RandMax))
           mu == [i \in D |-> i]
           step == [x \in D \X [D -> S] |-> Body(x[2], x[1])]
<1>1. Len(draws) = n - 1 /\ Len(InOrder(n)) = n
  <2> DEFINE R == 0..RandMax
  <2>1. draws \in [1..(n - 1) -> R] /\ n - 1 \in Nat
    BY DEF Draws
  <2>2. InOrder(n) \in Seq(Nat) /\ DOMAIN InOrder(n) = 1..n
    BY DEF InOrder
  <2> HIDE DEF R
  <2>3. Len(draws) = n - 1
    BY <2>1
  <2> QED BY <2>2, <2>3
<1>2. InOrder(n) \in S
  BY DEF InOrder
<1>3. ASSUME NEW i \in D, i # 0
      PROVE  i - 1 \in D /\ i \in 1..n /\ Drawn(i, draws[i], n, RandMax) \in 1..n
  <2>1. i \in 1..(n - 1) /\ draws[i] \in 0..RandMax
    BY <1>3 DEF Draws
  <2>2. Drawn(i, draws[i], n, RandMax) \in i..n
    BY <2>1, DrawnIs
  <2> QED BY <2>1, <2>2
<1>4. ASSUME NEW i \in D, NEW f \in [D -> S] PROVE Body(f, i) \in S
  <2>1. CASE i = 0
    BY <1>2, <2>1
  <2>2. CASE i # 0
    <3>1. f[i - 1] \in S
      BY <1>3, <2>2
    <3>2. \A j, k \in 1..n : Swapped(f[i - 1], j, k) \in S
      BY <3>1 DEF Swapped
    <3> QED BY <1>3, <2>2, <3>2
  <2> QED BY <2>1, <2>2
<1>5. Recursion(D, S, mu, step)
  <2> HIDE DEF S
  <2>1. step \in [D \X [D -> S] -> S]
    BY <1>4
  <2>2. ASSUME NEW i \in D, NEW f \in [D -> S], NEW g \in [D -> S],
               \A k \in D : mu[k] < mu[i] => f[k] = g[k]
        PROVE  step[<<i, f>>] = step[<<i, g>>]
    <3>1. Body(f, i) = Body(g, i)
      <4>1. CASE i = 0
        BY <4>1
      <4>2. CASE i # 0
        <5>1. f[i - 1] = g[i - 1]
          BY <1>3, <2>2, <4>2
        <5> QED BY <4>2, <5>1
      <4> QED BY <4>1, <4>2
    <3> HIDE DEF Body
    <3> QED BY <3>1
  <2>3. mu \in [D -> 0..n] /\ n \in Nat /\ S # {}
    BY <1>2
  <2> HIDE DEF step, mu, D
  <2> QED BY <2>1, <2>2, <2>3 DEF Recursion
<1> DEFINE shuffle == CHOOSE f : f = [i \in D |-> Body(f, i)]
<1>6. shuffle = [i \in D |-> Body(shuffle, i)]
  <2>1. PICK f \in [D -> S] : \A i \in D : f[i] = step[<<i, f>>]
    <3> HIDE DEF step, D, S, mu
    <3> QED BY <1>5, RecursiveFunction
  <2>2. f = [i \in D |-> Body(f, i)]
    <3> HIDE DEF D, S, Body
    <3> QED BY <2>1
  <2> HIDE DEF Body
  <2> QED BY <2>2, Zenon
<1> HIDE DEF Body, D
<1>7. ARRAY_SHUFFLE(InOrder(n), draws, RandMax) = shuffle[n - 1]
  <2>1. ARRAY_SHUFFLE(InOrder(n), draws, RandMax) = shuffle[Len(draws)]
    BY <1>1, Zenon DEF ARRAY_SHUFFLE, D, Body, Swapped
  <2> QED BY <1>1, <2>1
<1> HIDE DEF shuffle
<1>8. shuffle[0] = InOrder(n)
  BY <1>6 DEF Body, D
<1>9. ASSUME NEW i \in 1..(n - 1)
      PROVE  shuffle[i] = Swapped(shuffle[i - 1], i, Drawn(i, draws[i], n, RandMax))
  BY <1>6 DEF Body, D
<1>10. Shuffling(n, draws, shuffle)
  BY <1>7, <1>8, <1>9 DEF Shuffling
<1> QED BY <1>10
\* No entry is lost on the way.
LEMMA ShuffledIs ==
  ASSUME NEW n \in Nat \ {0}, NEW draws \in Draws(n), NEW list, Shuffling(n, draws, list)
  PROVE  \A i \in 0..(n - 1) : list[i] \in AllOrders(n)
<1> DEFINE T == {i \in Nat : list[i] \in AllOrders(n)}
<1>1. 0 \in T
  <2>1. list[0] = InOrder(n)
    BY DEF Shuffling
  <2>2. InOrder(n) \in AllOrders(n)
    BY DEF InOrder, AllOrders, Orders
  <2> QED BY <2>1, <2>2
<1>2. ASSUME NEW i \in 0..((n - 1) - 1), i \in T PROVE i + 1 \in T
  <2>1. i + 1 \in 1..(n - 1) /\ i + 1 \in 1..n /\ (i + 1) - 1 = i
    OBVIOUS
  <2>2. list[i + 1] = Swapped(list[i], i + 1, Drawn(i + 1, draws[i + 1], n, RandMax))
    BY <2>1 DEF Shuffling
  <2>3. draws[i + 1] \in 0..RandMax
    BY <2>1 DEF Draws
  <2>4. Drawn(i + 1, draws[i + 1], n, RandMax) \in 1..n
    <3>1. Drawn(i + 1, draws[i + 1], n, RandMax) \in (i + 1)..n
      BY <2>1, <2>3, DrawnIs
    <3> QED BY <3>1
  <2>5. list[i + 1] \in AllOrders(n)
    BY <1>2, <2>1, <2>2, <2>4, SwappedIs
  <2> QED BY <2>5
<1> HIDE DEF T
<1>3. \A i \in 0..(n - 1) : i \in T
  BY <1>1, <1>2, Climb
<1> QED BY <1>3 DEF T

\* Steps of the loop do not depend on later draws.
LEMMA SameBefore ==
  ASSUME NEW n \in Nat \ {0}, NEW draws, NEW list, Shuffling(n, draws, list),
         NEW other, NEW changed, Shuffling(n, other, changed),
         NEW i \in 0..(n - 1), \A k \in 1..i : draws[k] = other[k]
  PROVE  list[i] = changed[i]
<1> DEFINE T == {k \in Nat : list[k] = changed[k]}
<1>1. 0 \in T
  BY DEF Shuffling
<1>2. ASSUME NEW k \in 0..(i - 1), k \in T PROVE k + 1 \in T
  <2>1. k + 1 \in 1..(n - 1) /\ k + 1 \in 1..i /\ (k + 1) - 1 = k
    OBVIOUS
  <2>2. /\ list[k + 1] = Swapped(list[k], k + 1, Drawn(k + 1, draws[k + 1], n, RandMax))
        /\ changed[k + 1]
             = Swapped(changed[k], k + 1, Drawn(k + 1, other[k + 1], n, RandMax))
    BY <2>1 DEF Shuffling
  <2>3. list[k] = changed[k] /\ draws[k + 1] = other[k + 1]
    BY <1>2, <2>1
  <2> QED BY <2>2, <2>3
<1> HIDE DEF T
<1>3. \A k \in 0..i : k \in T
  BY <1>1, <1>2, Climb
<1> QED BY <1>3 DEF T

\* With these draws the first i entries are as wanted after i steps.
Reaches(n, wanted, i, draws, list) ==
  /\ draws \in Draws(n) /\ Shuffling(n, draws, list)
  /\ \A k \in 1..i : list[i][k] = wanted[k]

LEMMA NextReaches ==
  ASSUME NEW n \in Nat \ {0}, n * (n - 1) <= RandMax, NEW wanted \in Orders(n),
         NEW i \in 0..(n - 2), NEW draws, NEW list, Reaches(n, wanted, i, draws, list)
  PROVE  \E other, changed : Reaches(n, wanted, i + 1, other, changed)
<1>1. draws \in Draws(n) /\ Shuffling(n, draws, list) /\ \A k \in 1..i : list[i][k] = wanted[k]
  BY DEF Reaches
<1>2. i + 1 \in 1..n /\ i + 1 \in 1..(n - 1) /\ i \in 0..(n - 1) /\ (i + 1) - 1 = i
  OBVIOUS
<1>3. /\ wanted \in [1..n -> 1..n]
      /\ \A h, k \in 1..n : wanted[h] = wanted[k] => h = k
  BY DEF Orders
<1>4. list[i] \in AllOrders(n)
  BY <1>1, <1>2, ShuffledIs
<1>5. PICK p \in 1..n : list[i][p] = wanted[i + 1]
  BY <1>2, <1>3, <1>4 DEF AllOrders
<1>6. p \in (i + 1)..n
  <2>1. ASSUME p \in 1..i PROVE FALSE
    <3>1. wanted[p] = wanted[i + 1]
      BY <1>1, <1>5, <2>1
    <3>2. p = i + 1
      BY <1>2, <1>3, <3>1
    <3> QED BY <1>2, <2>1, <3>2
  <2> QED BY <2>1
<1>7. PICK r \in 0..RandMax : Drawn(i + 1, r, n, RandMax) = p
  BY <1>2, <1>6, DrawnIs
<1> DEFINE other == [draws EXCEPT ![i + 1] = r]
<1>8. /\ other \in Draws(n) /\ other[i + 1] = r
      /\ \A k \in 1..i : draws[k] = other[k]
  BY <1>1, <1>2 DEF Draws
<1> HIDE DEF other
<1>9. PICK changed : Shuffling(n, other, changed)
  BY <1>8, ShuffleIs
<1>10. list[i] = changed[i]
  BY <1>1, <1>2, <1>8, <1>9, SameBefore
<1>11. changed[i + 1] = Swapped(list[i], i + 1, p)
  <2>1. changed[i + 1] = Swapped(changed[i], i + 1, Drawn(i + 1, other[i + 1], n, RandMax))
    BY <1>2, <1>9 DEF Shuffling
  <2> QED BY <1>7, <1>8, <1>10, <2>1
<1>12. /\ changed[i + 1][i + 1] = list[i][p]
       /\ \A k \in 1..n : k # i + 1 /\ k # p => changed[i + 1][k] = list[i][k]
  <2> DEFINE a == list[i]
             h == i + 1
  <2>1. a \in AllOrders(n) /\ h \in 1..n /\ n \in Nat
    BY <1>2, <1>4
  <2> HIDE DEF a, h
  <2>2. /\ Swapped(a, h, p)[h] = a[p]
        /\ \A k \in 1..n : k # h /\ k # p => Swapped(a, h, p)[k] = a[k]
    BY <2>1, SwappedIs
  <2> QED BY <1>11, <2>2 DEF a, h
<1>13. ASSUME NEW k \in 1..(i + 1) PROVE changed[i + 1][k] = wanted[k]
  <2>1. CASE k = i + 1
    BY <1>5, <1>12, <2>1
  <2>2. CASE k # i + 1
    <3>1. k \in 1..i /\ k \in 1..n /\ k # p
      BY <1>6, <2>2
    <3> QED BY <1>1, <1>12, <2>2, <3>1
  <2> QED BY <2>1, <2>2
<1>14. Reaches(n, wanted, i + 1, other, changed)
  BY <1>8, <1>9, <1>13 DEF Reaches
<1> QED BY <1>14

\* Each order comes from some draws.
LEMMA EachOrder ==
  ASSUME NEW n \in Nat \ {0}, n * (n - 1) <= RandMax, NEW wanted \in Orders(n)
  PROVE  \E draws \in Draws(n) : ARRAY_SHUFFLE(InOrder(n), draws, RandMax) = wanted
<1> DEFINE T == {i \in Nat : \E draws, list : Reaches(n, wanted, i, draws, list)}
<1>1. 0 \in T
  <2> DEFINE draws == [i \in 1..(n - 1) |-> 0]
  <2>1. draws \in Draws(n)
    BY ScheduleAssumption DEF Draws
  <2> HIDE DEF draws
  <2>2. PICK list : Shuffling(n, draws, list)
    BY <2>1, ShuffleIs
  <2>3. Reaches(n, wanted, 0, draws, list)
    BY <2>1, <2>2 DEF Reaches
  <2> QED BY <2>3
<1>2. ASSUME NEW i \in 0..((n - 1) - 1), i \in T PROVE i + 1 \in T
  <2>1. PICK draws, list : Reaches(n, wanted, i, draws, list)
    BY <1>2
  <2>2. i \in 0..(n - 2) /\ i + 1 \in Nat
    OBVIOUS
  <2>3. \E other, changed : Reaches(n, wanted, i + 1, other, changed)
    BY <2>1, <2>2, NextReaches
  <2> QED BY <2>2, <2>3
<1> HIDE DEF T
<1>3. n - 1 \in T
  <2> DEFINE e == n - 1
  <2>1. e \in Nat
    OBVIOUS
  <2>2. \A i \in 0..(e - 1) : i \in T => i + 1 \in T
    BY <1>2
  <2> HIDE DEF e
  <2>3. \A i \in 0..e : i \in T
    BY <1>1, <2>1, <2>2, Climb
  <2>4. e \in T
    BY <2>1, <2>3
  <2> QED BY <2>4 DEF e
<1>4. PICK draws, list : Reaches(n, wanted, n - 1, draws, list)
  BY <1>3 DEF T
<1>5. draws \in Draws(n) /\ Shuffling(n, draws, list)
  BY <1>4 DEF Reaches
<1> DEFINE a == list[n - 1]
<1>6. a \in AllOrders(n)
  BY <1>5, ShuffledIs
<1>7. \A k \in 1..(n - 1) : a[k] = wanted[k]
  BY <1>4 DEF Reaches
<1> HIDE DEF a
<1>8. /\ wanted \in [1..n -> 1..n]
      /\ \A h, k \in 1..n : wanted[h] = wanted[k] => h = k
  BY DEF Orders
<1>9. a[n] = wanted[n]
  <2>1. PICK p \in 1..n : a[p] = wanted[n]
    <3>1. n \in 1..n
      OBVIOUS
    <3>2. wanted[n] \in 1..n
      BY <1>8, <3>1
    <3> QED BY <1>6, <3>2 DEF AllOrders
  <2>2. ASSUME p \in 1..(n - 1) PROVE FALSE
    BY <1>7, <1>8, <2>1, <2>2
  <2>3. p = n
    BY <2>2
  <2> QED BY <2>1, <2>3
<1>10. a = wanted
  <2>1. a \in [1..n -> 1..n]
    BY <1>6 DEF AllOrders, Orders
  <2>2. ASSUME NEW k \in 1..n PROVE a[k] = wanted[k]
    <3>1. k = n \/ k \in 1..(n - 1)
      OBVIOUS
    <3> QED BY <1>7, <1>9, <3>1
  <2> QED BY <1>8, <2>1, <2>2
<1>11. ARRAY_SHUFFLE(InOrder(n), draws, RandMax) = wanted
  BY <1>5, <1>10 DEF Shuffling, a
<1> QED BY <1>5, <1>11

\* All draws give an order, and together they give each order.
THEOREM ShuffleTheorem == Spec => []ShuffleGivesEachOrder
<1>1. ASSUME Init PROVE ShuffleGivesEachOrder
  <2> SUFFICES ASSUME call.name = "ARRAY_SHUFFLE" PROVE ShuffleGivesEachOrder
    BY DEF ShuffleGivesEachOrder
  <2>1. PICK n \in Lengths : \E wanted \in Orders(n) : call = Shuffle(wanted)
    BY <1>1, Called
  <2>2. PICK wanted \in Orders(n) : call = Shuffle(wanted)
    BY <2>1
  <2>3. n \in Nat \ {0} /\ n * (n - 1) <= RandMax
    BY ListLengths
  <2>4. call.wanted = wanted /\ Len(wanted) = n
    <3>1. wanted \in [1..n -> 1..n]
      BY DEF Orders
    <3>2. Len(wanted) = n
      <4> DEFINE R == 1..n
      <4>1. wanted \in [1..n -> R]
        BY <3>1
      <4> HIDE DEF R
      <4> QED BY <2>3, <4>1
    <3> QED BY <2>2, <3>2 DEF Shuffle
  <2>5. ASSUME NEW draws \in Draws(n)
        PROVE  ARRAY_SHUFFLE(InOrder(n), draws, RandMax) \in Orders(n)
    <3>1. PICK list : Shuffling(n, draws, list)
      BY <2>3, ShuffleIs
    <3>2. ARRAY_SHUFFLE(InOrder(n), draws, RandMax) = list[n - 1]
      BY <3>1 DEF Shuffling
    <3>3. n - 1 \in 0..(n - 1)
      BY <2>3
    <3>4. list[n - 1] \in AllOrders(n)
      BY <2>3, <3>1, <3>3, ShuffledIs
    <3> QED BY <3>2, <3>4 DEF AllOrders
  <2>6. \E draws \in Draws(n) : ARRAY_SHUFFLE(InOrder(n), draws, RandMax) = wanted
    BY <2>3, EachOrder
  <2> QED BY <2>4, <2>5, <2>6 DEF ShuffleGivesEachOrder, Draws, InOrder
<1> QED BY <1>1, Calls, PTL

-------------------------------------------------------------------------------
(* The parameters of a query                                               *)

\* From a number down to another.
LEMMA Descend ==
  ASSUME NEW i \in Int, NEW e \in Int, NEW T, e \in T,
         \A k \in i..(e - 1) : k + 1 \in T => k \in T
  PROVE  \A k \in i..e : k \in T
<1> DEFINE U == {k \in Int : i + e - k \in T}
<1>1. i \in U
  <2>1. i + e - i = e
    OBVIOUS
  <2> QED BY <2>1
<1>2. ASSUME NEW k \in i..(e - 1), k \in U PROVE k + 1 \in U
  <2>1. i + e - (k + 1) \in i..(e - 1) /\ (i + e - (k + 1)) + 1 = i + e - k
    OBVIOUS
  <2> QED BY <1>2, <2>1
<1>3. ASSUME NEW k \in i..e PROVE k \in T
  <2> HIDE DEF U
  <2>1. \A h \in i..e : h \in U
    BY <1>1, <1>2, Climb
  <2>2. i + e - k \in i..e /\ i + e - (i + e - k) = k
    OBVIOUS
  <2>3. i + e - k \in U
    BY <2>1, <2>2
  <2> QED BY <2>2, <2>3 DEF U
<1> QED BY <1>3

Octets == 1..255

\* What may stand in a value: neither "=" nor "&".
Sent == {c \in Nat : c # Equals /\ c # Ampersand}

LEMMA EscapeIs ==
  ASSUME NEW c \in Octets
  PROVE  /\ Escape(c) \in Seq(Sent) /\ Len(Escape(c)) \in {1, 3}
         /\ Len(Escape(c)) = 1 =>
              /\ Escape(c)[1] # Percent
              /\ c = IF Escape(c)[1] = Plus THEN Space ELSE Escape(c)[1]
         /\ Len(Escape(c)) = 3 =>
              /\ Escape(c)[1] = Percent /\ Escape(c)[2] # Plus /\ Escape(c)[3] # Plus
              /\ c = 16 * Nibble(Escape(c)[2]) + Nibble(Escape(c)[3])
<1>1. c \in 1..255
  BY DEF Octets
<1>2. Percent = 37 /\ Ampersand = 38 /\ Plus = 43 /\ Equals = 61 /\ Space = 32
  BY DEF Percent, Ampersand, Plus, Equals, Space
<1>3. CASE c \in 97..122
  <2>1. Escape(c) = <<c>>
    <3>1. ~(c = Space)
      BY <1>2, <1>3
    <3> QED BY <1>3, <3>1 DEF Escape
  <2>2. c \in Sent /\ c # Percent /\ c # Plus
    BY <1>2, <1>3 DEF Sent
  <2> QED BY <2>1, <2>2
<1>4. CASE c = Space
  <2>1. Escape(c) = <<Plus>>
    BY <1>2, <1>4 DEF Escape
  <2>2. Plus \in Sent /\ Plus # Percent
    BY <1>2 DEF Sent
  <2> QED BY <1>4, <2>1, <2>2
<1>5. CASE c \notin 97..122 /\ c # Space
  <2> DEFINE a == Digit(c \div 16)
             b == Digit(c % 16)
  <2>1. ASSUME NEW n \in 0..15
        PROVE  Digit(n) \in Sent /\ Digit(n) # Plus /\ Nibble(Digit(n)) = n
    <3>1. CASE n < 10
      <4>1. Digit(n) = 48 + n
        BY <3>1 DEF Digit
      <4>2. Digit(n) \in 48..57 /\ ~(Digit(n) \in 65..70) /\ ~(Digit(n) \in 97..102)
        BY <3>1, <4>1
      <4>3. Nibble(Digit(n)) = Digit(n) - 48
        BY <4>2 DEF Nibble
      <4> QED BY <1>2, <3>1, <4>1, <4>3 DEF Sent
    <3>2. CASE ~(n < 10)
      <4>1. Digit(n) = 55 + n
        BY <3>2 DEF Digit
      <4>2. ~(Digit(n) \in 48..57) /\ Digit(n) \in 65..70 /\ ~(Digit(n) \in 97..102)
        BY <3>2, <4>1
      <4>3. Nibble(Digit(n)) = Digit(n) - 55
        BY <4>2 DEF Nibble
      <4> QED BY <1>2, <3>2, <4>1, <4>3 DEF Sent
    <3> QED BY <3>1, <3>2
  <2>2. c \div 16 \in 0..15 /\ c % 16 \in 0..15 /\ c = 16 * (c \div 16) + (c % 16)
    BY <1>1
  <2>3. /\ a \in Sent /\ b \in Sent /\ a # Plus /\ b # Plus
        /\ c = 16 * Nibble(a) + Nibble(b)
    BY <2>1, <2>2
  <2>4. Percent \in Sent
    BY <1>2 DEF Sent
  <2>5. Escape(c) = <<Percent, a, b>>
    BY <1>5 DEF Escape
  <2> HIDE DEF a, b
  <2> DEFINE e == <<Percent, a, b>>
  <2>6. e[1] = Percent /\ e[2] = a /\ e[3] = b /\ Len(e) = 3
    OBVIOUS
  <2>7. e \in Seq(Sent)
    BY <2>3, <2>4
  <2>8. Escape(c) = e
    BY <2>5
  <2> HIDE DEF e
  <2> QED BY <2>3, <2>6, <2>7, <2>8
<1> QED BY <1>3, <1>4, <1>5

\* What becomes of the text from each place on.
Encoding(text, encode) ==
  /\ Encode(text) = encode[1]
  /\ encode[Len(text) + 1] = <<>>
  /\ \A i \in 1..Len(text) : encode[i] = Escape(text[i]) \o encode[i + 1]
  /\ \A i \in 1..(Len(text) + 1) : encode[i] \in Seq(Sent)

LEMMA EncodingIs ==
  ASSUME NEW text \in Seq(Octets)
  PROVE  \E encode : Encoding(text, encode)
<1> DEFINE n == Len(text)
           D == 1..(n + 1)
           S == Seq(Sent)
           Body(encode, i) ==
             IF i > n THEN <<>> ELSE Escape(text[i]) \o encode[i + 1]
           mu == [i \in D |-> n + 1 - i]
           step == [x \in D \X [D -> S] |-> Body(x[2], x[1])]
<1>1. n \in Nat
  OBVIOUS
<1>2. ASSUME NEW i \in D, ~(i > n)
      PROVE  i + 1 \in D /\ mu[i + 1] < mu[i] /\ Escape(text[i]) \in S
  <2>1. i \in 1..n /\ i + 1 \in D
    BY <1>1, <1>2
  <2>2. text[i] \in Octets
    BY <2>1
  <2>3. mu[i] = n + 1 - i /\ mu[i + 1] = n + 1 - (i + 1)
    BY <2>1
  <2>4. mu[i + 1] < mu[i]
    <3> HIDE DEF mu, n
    <3> QED BY <1>1, <2>1, <2>3
  <2> QED BY <2>1, <2>2, <2>4, EscapeIs
<1>3. ASSUME NEW i \in D, NEW f, ~(i > n) => f[i + 1] \in S PROVE Body(f, i) \in S
  <2>1. CASE i > n
    BY <2>1
  <2>2. CASE ~(i > n)
    <3>1. Escape(text[i]) \in S /\ f[i + 1] \in S
      BY <1>2, <1>3, <2>2
    <3>2. Escape(text[i]) \o f[i + 1] \in S
      BY <3>1
    <3> QED BY <2>2, <3>2
  <2> QED BY <2>1, <2>2
<1>4. Recursion(D, S, mu, step)
  <2>1. step \in [D \X [D -> S] -> S]
    <3>1. ASSUME NEW i \in D, NEW f \in [D -> S] PROVE Body(f, i) \in S
      <4>1. ~(i > n) => f[i + 1] \in S
        BY <1>2
      <4> HIDE DEF D, S, Body
      <4> QED BY <1>3, <4>1
    <3> HIDE DEF D, S, Body
    <3> QED BY <3>1
  <2>2. ASSUME NEW i \in D, NEW f \in [D -> S], NEW g \in [D -> S],
               \A k \in D : mu[k] < mu[i] => f[k] = g[k]
        PROVE  step[<<i, f>>] = step[<<i, g>>]
    <3>1. Body(f, i) = Body(g, i)
      <4>1. CASE i > n
        BY <4>1
      <4>2. CASE ~(i > n)
        <5>1. f[i + 1] = g[i + 1]
          <6> HIDE DEF mu, D
          <6> QED BY <1>2, <2>2, <4>2
        <5> QED BY <4>2, <5>1
      <4> QED BY <4>1, <4>2
    <3> HIDE DEF Body
    <3> QED BY <3>1
  <2>3. mu \in [D -> 0..(n + 1)] /\ n + 1 \in Nat
    <3> HIDE DEF n
    <3> QED BY <1>1
  <2>4. S # {}
    <3>1. <<>> \in S
      OBVIOUS
    <3> HIDE DEF S
    <3> QED BY <3>1
  <2> HIDE DEF step, mu, D, S, n
  <2> QED BY <2>1, <2>2, <2>3, <2>4 DEF Recursion
<1> DEFINE encode == CHOOSE f : f = [i \in D |-> Body(f, i)]
<1>5. encode = [i \in D |-> Body(encode, i)]
  <2>1. PICK f \in [D -> S] : \A i \in D : f[i] = step[<<i, f>>]
    <3> HIDE DEF step, D, mu, S
    <3> QED BY <1>4, RecursiveFunction
  <2>2. f = [i \in D |-> Body(f, i)]
    <3> HIDE DEF D, S, Body
    <3> QED BY <2>1
  <2> HIDE DEF Body
  <2> QED BY <2>2, Zenon
<1>6. Encode(text) = encode[1]
  BY Zenon DEF Encode
<1> HIDE DEF encode
<1>7. \A i \in D : encode[i] = Body(encode, i)
  <2> HIDE DEF D, Body
  <2> QED BY <1>5
<1>8. encode[n + 1] = <<>>
  <2>1. n + 1 \in D /\ n + 1 > n
    BY <1>1
  <2> QED BY <1>7, <2>1
<1>9. \A i \in 1..n : encode[i] = Escape(text[i]) \o encode[i + 1]
  <2>1. \A i \in 1..n : i \in D /\ ~(i > n)
    BY <1>1
  <2> HIDE DEF n, D
  <2> QED BY <1>7, <2>1
<1>10. ASSUME NEW i \in D PROVE encode[i] \in S
  <2> DEFINE T == {k \in Int : encode[k] \in S}
             e == n + 1
  <2>1. e \in T
    <3>1. <<>> \in S
      OBVIOUS
    <3> HIDE DEF S
    <3> QED BY <1>1, <1>8, <3>1
  <2>2. ASSUME NEW k \in 1..(e - 1), k + 1 \in T PROVE k \in T
    <3>1. k \in D
      BY <1>1
    <3>2. Body(encode, k) \in S
      <4>1. encode[k + 1] \in S
        BY <2>2
      <4> HIDE DEF Body, D, S
      <4> QED BY <1>3, <3>1, <4>1
    <3> HIDE DEF Body, S
    <3> QED BY <1>7, <3>1, <3>2
  <2>3. e \in Int /\ 1 \in Int
    BY <1>1
  <2> HIDE DEF T, e
  <2>4. \A k \in 1..(e - 1) : k + 1 \in T => k \in T
    BY <2>2
  <2>5. \A k \in 1..e : k \in T
    BY <2>1, <2>3, <2>4, Descend
  <2> QED BY <2>5 DEF T, e
<1> HIDE DEF n
<1>11. Encoding(text, encode)
  BY <1>6, <1>8, <1>9, <1>10 DEF Encoding, n
<1> QED BY <1>11

Before(c, r) == [r EXCEPT !.text = <<c>> \o @]

\* What is decoded from each place on.
Decoding(value, from) ==
  /\ decode_value(value) = from[1]
  /\ from[Len(value) + 1] = [end |-> "ok", text |-> <<>>]
  /\ \A i \in 1..Len(value) : value[i] # Percent =>
       from[i] = Before(IF value[i] = Plus THEN Space ELSE value[i], from[i + 1])
  /\ \A i \in 1..(Len(value) - 2) :
       value[i] = Percent /\ value[i + 1] # Plus /\ value[i + 2] # Plus =>
         from[i] = Before(16 * Nibble(value[i + 1]) + Nibble(value[i + 2]), from[i + 3])

LEMMA NibbleType ==
  ASSUME NEW c \in Nat
  PROVE  Nibble(c) \in Nat
<1>1. CASE c \in 48..57
  <2>1. ~(c \in 65..70) /\ ~(c \in 97..102)
    BY <1>1
  <2> QED BY <1>1, <2>1 DEF Nibble
<1>2. CASE c \in 65..70
  <2>1. ~(c \in 48..57) /\ ~(c \in 97..102)
    BY <1>2
  <2> QED BY <1>2, <2>1 DEF Nibble
<1>3. CASE c \in 97..102
  <2>1. ~(c \in 48..57) /\ ~(c \in 65..70)
    BY <1>3
  <2> QED BY <1>3, <2>1 DEF Nibble
<1>4. CASE c \notin 48..57 /\ c \notin 65..70 /\ c \notin 97..102
  BY <1>4 DEF Nibble
<1> QED BY <1>1, <1>2, <1>3, <1>4

LEMMA DecodingIs ==
  ASSUME NEW value \in Seq(Nat)
  PROVE  \E from : Decoding(value, from)
<1> DEFINE t == [i \in DOMAIN value |-> IF value[i] = Plus THEN Space ELSE value[i]]
           D == 1..(Len(t) + 1)
           S == [end : {"ok", "invalid", "undefined"}, text : Seq(Nat)]
           End(e) == [end |-> e, text |-> <<>>]
           Then(c, r) == [r EXCEPT !.text = <<c>> \o @]
           Body(from, i) ==
             IF i > Len(t) THEN End("ok")
             ELSE IF t[i] # Percent THEN Then(t[i], from[i + 1])
             ELSE IF i = Len(t) THEN End("invalid")
             ELSE IF i = Len(t) - 1 THEN End("undefined")
             ELSE Then(16 * Nibble(t[i + 1]) + Nibble(t[i + 2]), from[Behind(i)])
           mu == [i \in D |-> Len(t) + 1 - i]
           step == [x \in D \X [D -> S] |-> Body(x[2], x[1])]
<1>1. Len(value) \in Nat /\ Len(t) = Len(value) /\ DOMAIN value = 1..Len(value)
  BY DEF Space
<1>2. ASSUME NEW i \in 1..Len(t)
      PROVE  /\ t[i] = (IF value[i] = Plus THEN Space ELSE value[i])
             /\ t[i] \in Nat /\ value[i] \in Nat
  <2>1. value[i] \in Nat
    BY <1>1
  <2> QED BY <1>1, <2>1 DEF Space
<1> HIDE DEF t
<1>3. \A e \in {"ok", "invalid", "undefined"} : End(e) \in S
  OBVIOUS
<1>4. \A c \in Nat : \A r \in S : Then(c, r) \in S
  <2>1. ASSUME NEW c \in Nat, NEW x \in Seq(Nat) PROVE <<c>> \o x \in Seq(Nat)
    OBVIOUS
  <2> QED BY <2>1
<1>5. ASSUME NEW i \in D, ~(i > Len(t))
      PROVE  /\ i \in 1..Len(t) /\ i + 1 \in D /\ mu[i + 1] < mu[i]
             /\ i # Len(t) /\ i # Len(t) - 1 =>
                  /\ Behind(i) \in D /\ mu[Behind(i)] < mu[i] /\ Behind(i) = i + 3
                  /\ i + 1 \in 1..Len(t) /\ i + 2 \in 1..Len(t)
  <2>1. i \in 1..Len(t) /\ i + 1 \in D
    BY <1>1, <1>5
  <2>2. mu[i] = Len(t) + 1 - i /\ mu[i + 1] = Len(t) + 1 - (i + 1)
    BY <2>1
  <2>3. mu[i + 1] < mu[i]
    <3> HIDE DEF mu, D
    <3> QED BY <1>1, <2>1, <2>2
  <2>4. ASSUME i # Len(t) /\ i # Len(t) - 1
        PROVE  /\ Behind(i) \in D /\ mu[Behind(i)] < mu[i] /\ Behind(i) = i + 3
               /\ i + 1 \in 1..Len(t) /\ i + 2 \in 1..Len(t)
    <3>1. Behind(i) = i + 3 /\ Behind(i) \in D /\ i + 1 \in 1..Len(t) /\ i + 2 \in 1..Len(t)
      <4>1. Len(t) \in Nat /\ i \in Nat /\ 1 <= i /\ i + 2 <= Len(t)
        <5> DEFINE l == Len(t)
        <5>1. l \in Nat /\ i \in 1..l /\ i # l /\ i # l - 1
          BY <1>1, <2>1, <2>4
        <5> HIDE DEF l
        <5>2. i \in Nat /\ 1 <= i /\ i + 2 <= l
          BY <5>1
        <5> QED BY <5>1, <5>2 DEF l
      <4>2. Behind(i) = i + 3
        BY DEF Behind
      <4> QED BY <4>1, <4>2
    <3>2. mu[Behind(i)] = Len(t) + 1 - (i + 3)
      BY <3>1
    <3>3. mu[Behind(i)] < mu[i]
      <4> HIDE DEF mu, D
      <4> QED BY <1>1, <2>1, <2>2, <3>2
    <3> QED BY <3>1, <3>3
  <2> QED BY <2>1, <2>3, <2>4
<1> HIDE DEF mu, S, End, Then
<1>6. Recursion(D, S, mu, step)
  <2>1. step \in [D \X [D -> S] -> S]
    <3>1. ASSUME NEW i \in D, NEW f \in [D -> S] PROVE Body(f, i) \in S
      <4>1. ASSUME ~(i > Len(t)) PROVE f[i + 1] \in S /\ t[i] \in Nat
        <5>1. i \in 1..Len(t) /\ i + 1 \in D
          BY <1>5, <4>1
        <5> HIDE DEF D
        <5> QED BY <1>2, <5>1
      <4>2. ASSUME ~(i > Len(t)), i # Len(t), i # Len(t) - 1
            PROVE  f[Behind(i)] \in S /\ 16 * Nibble(t[i + 1]) + Nibble(t[i + 2]) \in Nat
        <5>1. Behind(i) \in D /\ i + 1 \in 1..Len(t) /\ i + 2 \in 1..Len(t)
          BY <1>5, <4>2
        <5>2. Nibble(t[i + 1]) \in Nat /\ Nibble(t[i + 2]) \in Nat
          BY <1>2, <5>1, NibbleType
        <5>3. 16 * Nibble(t[i + 1]) + Nibble(t[i + 2]) \in Nat
          BY <5>2
        <5> HIDE DEF D
        <5> QED BY <5>1, <5>3
      <4> HIDE DEF D
      <4>3. CASE i > Len(t)
        BY <1>3, <4>3
      <4>4. CASE ~(i > Len(t)) /\ t[i] # Percent
        BY <1>4, <4>1, <4>4
      <4>5. CASE ~(i > Len(t)) /\ ~(t[i] # Percent) /\ i = Len(t)
        BY <1>3, <4>5
      <4>6. CASE ~(i > Len(t)) /\ ~(t[i] # Percent) /\ i # Len(t) /\ i = Len(t) - 1
        BY <1>3, <4>6
      <4>7. CASE ~(i > Len(t)) /\ ~(t[i] # Percent) /\ i # Len(t) /\ i # Len(t) - 1
        BY <1>4, <4>2, <4>7
      <4> QED BY <4>3, <4>4, <4>5, <4>6, <4>7
    <3> HIDE DEF D, Body
    <3> QED BY <3>1
  <2>2. ASSUME NEW i \in D, NEW f \in [D -> S], NEW g \in [D -> S],
               \A k \in D : mu[k] < mu[i] => f[k] = g[k]
        PROVE  step[<<i, f>>] = step[<<i, g>>]
    <3>1. Body(f, i) = Body(g, i)
      <4>1. CASE i > Len(t)
        BY <4>1
      <4>2. CASE ~(i > Len(t))
        <5>1. f[i + 1] = g[i + 1]
          BY <1>5, <2>2, <4>2
        <5>2. i # Len(t) /\ i # Len(t) - 1 => f[Behind(i)] = g[Behind(i)]
          BY <1>5, <2>2, <4>2
        <5> QED BY <4>2, <5>1, <5>2
      <4> QED BY <4>1, <4>2
    <3> HIDE DEF Body
    <3> QED BY <3>1
  <2>3. mu \in [D -> 0..(Len(t) + 1)] /\ Len(t) + 1 \in Nat
    BY <1>1 DEF mu
  <2>4. S # {}
    BY <1>3
  <2> HIDE DEF step, D
  <2> QED BY <2>1, <2>2, <2>3, <2>4 DEF Recursion
<1> DEFINE from == CHOOSE f : f = [i \in D |-> Body(f, i)]
<1>7. from = [i \in D |-> Body(from, i)]
  <2>1. PICK f \in [D -> S] : \A i \in D : f[i] = step[<<i, f>>]
    <3> HIDE DEF step, D
    <3> QED BY <1>6, RecursiveFunction
  <2>2. f = [i \in D |-> Body(f, i)]
    <3> HIDE DEF D, Body
    <3> QED BY <2>1
  <2> HIDE DEF Body
  <2> QED BY <2>2, Zenon
<1>8. decode_value(value) = from[1]
  BY Zenon DEF decode_value, t, End, Then
<1> HIDE DEF from
<1>9. \A i \in D : from[i] = Body(from, i)
  <2> HIDE DEF D, Body
  <2> QED BY <1>7
<1>10. from[Len(value) + 1] = [end |-> "ok", text |-> <<>>]
  <2>1. Len(t) + 1 \in D /\ Len(t) + 1 > Len(t)
    BY <1>1
  <2>2. from[Len(t) + 1] = End("ok")
    BY <1>9, <2>1
  <2> QED BY <1>1, <2>2 DEF End
<1>11. ASSUME NEW i \in 1..Len(value), value[i] # Percent
       PROVE  from[i] = Before(IF value[i] = Plus THEN Space ELSE value[i], from[i + 1])
  <2>1. i \in 1..Len(t) /\ i \in D /\ ~(i > Len(t))
    BY <1>1
  <2>2. t[i] = (IF value[i] = Plus THEN Space ELSE value[i])
    BY <1>2, <2>1
  <2>3. t[i] # Percent
    BY <1>11, <2>2 DEF Space, Percent
  <2>4. from[i] = Then(t[i], from[i + 1])
    BY <1>9, <2>1, <2>3
  <2> QED BY <2>2, <2>4 DEF Then, Before
<1>12. ASSUME NEW i \in 1..(Len(value) - 2),
              value[i] = Percent, value[i + 1] # Plus, value[i + 2] # Plus
       PROVE  from[i] = Before(16 * Nibble(value[i + 1]) + Nibble(value[i + 2]), from[i + 3])
  <2>1. /\ i \in D /\ ~(i > Len(t)) /\ i # Len(t) /\ i # Len(t) - 1
        /\ i \in 1..Len(t) /\ i + 1 \in 1..Len(t) /\ i + 2 \in 1..Len(t)
    BY <1>1
  <2>2. t[i] = Percent /\ t[i + 1] = value[i + 1] /\ t[i + 2] = value[i + 2]
    <3>1. t[i] = value[i]
      <4>1. value[i] # Plus
        BY <1>12 DEF Percent, Plus
      <4> HIDE DEF t
      <4> QED BY <1>2, <2>1, <4>1
    <3>2. t[i + 1] = value[i + 1]
      <4> DEFINE j == i + 1
      <4>1. j \in 1..Len(t) /\ value[j] # Plus
        BY <1>12, <2>1
      <4> HIDE DEF j, t
      <4>2. t[j] = value[j]
        BY <1>2, <4>1
      <4> QED BY <4>2 DEF j
    <3>3. t[i + 2] = value[i + 2]
      <4> DEFINE j == i + 2
      <4>1. j \in 1..Len(t) /\ value[j] # Plus
        BY <1>12, <2>1
      <4> HIDE DEF j, t
      <4>2. t[j] = value[j]
        BY <1>2, <4>1
      <4> QED BY <4>2 DEF j
    <3> QED BY <1>12, <3>1, <3>2, <3>3
  <2>3. from[i] = Then(16 * Nibble(t[i + 1]) + Nibble(t[i + 2]), from[Behind(i)])
    BY <1>9, <2>1, <2>2
  <2> QED BY <2>2, <2>3 DEF Then, Before, Behind
<1>13. Decoding(value, from)
  BY <1>8, <1>10, <1>11, <1>12 DEF Decoding
<1> QED BY <1>13

\* The place in the value of what the text becomes from i on.
PlaceOf(encode, i) == Len(encode[1]) - Len(encode[i]) + 1

LEMMA PlaceIs ==
  ASSUME NEW text \in Seq(Octets), NEW encode, Encoding(text, encode),
         NEW i \in 1..(Len(text) + 1)
  PROVE  /\ Len(encode[i]) \in 0..Len(encode[1])
         /\ \A m \in 1..Len(encode[i]) : encode[1][PlaceOf(encode, i) + m - 1] = encode[i][m]
<1> DEFINE n == Len(text)
           L(k) == Len(encode[k])
           T == {k \in Nat : /\ L(k) \in 0..L(1)
                             /\ \A m \in 1..L(k) : encode[1][L(1) - L(k) + m] = encode[k][m]}
<1>1. n \in Nat
  OBVIOUS
<1>2. ASSUME NEW k \in 1..(n + 1) PROVE encode[k] \in Seq(Sent) /\ L(k) \in Nat
  BY <1>1 DEF Encoding
<1>3. 1 \in T
  <2>1. L(1) \in Nat
    BY <1>1, <1>2
  <2> HIDE DEF L
  <2> QED BY <2>1
<1>4. ASSUME NEW k \in 1..((n + 1) - 1), k \in T PROVE k + 1 \in T
  <2> DEFINE a == Escape(text[k])
             b == encode[k + 1]
  <2>1. k \in 1..n /\ k \in 1..(n + 1) /\ k + 1 \in 1..(n + 1) /\ 1 \in 1..(n + 1)
    BY <1>1
  <2>2. a \in Seq(Sent) /\ b \in Seq(Sent) /\ encode[k] = a \o b
    <3>1. text[k] \in Octets
      BY <2>1
    <3> QED BY <1>2, <2>1, <3>1, EscapeIs DEF Encoding
  <2> HIDE DEF a, b
  <2>3. /\ L(k) = Len(a) + Len(b) /\ Len(a) \in Nat /\ Len(b) \in Nat
        /\ \A m \in 1..Len(b) : encode[k][Len(a) + m] = b[m]
    BY <2>2
  <2>4. L(k + 1) = Len(b)
    BY DEF b
  <2>5. L(1) \in Nat /\ L(k) \in 0..L(1)
    BY <1>2, <1>4, <2>1
  <2>6. \A m \in 1..L(k) : encode[1][L(1) - L(k) + m] = encode[k][m]
    BY <1>4
  <2> HIDE DEF L
  <2>7. ASSUME NEW m \in 1..Len(b) PROVE encode[1][L(1) - L(k + 1) + m] = b[m]
    <3>1. Len(a) + m \in 1..L(k) /\ L(1) - L(k) + (Len(a) + m) = L(1) - L(k + 1) + m
      <4> DEFINE x == L(1)
                 y == L(k)
                 z == L(k + 1)
                 l == Len(a)
                 r == Len(b)
      <4>1. x \in Nat /\ y \in 0..x /\ y = l + r /\ z = r /\ l \in Nat /\ r \in Nat /\ m \in 1..r
        BY <2>3, <2>4, <2>5
      <4> HIDE DEF x, y, z, l, r
      <4>2. l + m \in 1..y /\ x - y + (l + m) = x - z + m
        BY <4>1
      <4> QED BY <4>2 DEF x, y, z, l, r
    <3>2. encode[1][L(1) - L(k) + (Len(a) + m)] = encode[k][Len(a) + m]
      BY <2>6, <3>1
    <3> QED BY <2>3, <3>1, <3>2
  <2>8. L(k + 1) \in 0..L(1)
    BY <2>3, <2>4, <2>5
  <2>9. k + 1 \in Nat
    BY <2>1
  <2> QED BY <2>4, <2>7, <2>8, <2>9 DEF b
<1> DEFINE e == n + 1
<1>5. e \in Int /\ 1 \in Int
  BY <1>1
<1>6. \A k \in 1..(e - 1) : k \in T => k + 1 \in T
  BY <1>4
<1>7. \A k \in 1..e : k \in T
  <2> HIDE DEF T, e
  <2> QED BY <1>3, <1>5, <1>6, Climb
<1>8. i \in T
  <2> HIDE DEF T
  <2> QED BY <1>7
<1>9. L(i) \in 0..L(1) /\ \A m \in 1..L(i) : encode[1][L(1) - L(i) + m] = encode[i][m]
  BY <1>8
<1>10. ASSUME NEW m \in 1..L(i) PROVE PlaceOf(encode, i) + m - 1 = L(1) - L(i) + m
  <2>1. L(1) \in Nat
    BY <1>1, <1>2
  <2> HIDE DEF L
  <2>2. PlaceOf(encode, i) = L(1) - L(i) + 1
    BY DEF PlaceOf, L
  <2> QED BY <1>9, <2>1, <2>2
<1> QED BY <1>9, <1>10

LEMMA BehindFirst ==
  ASSUME NEW text \in Seq(Octets), NEW i \in 1..Len(text)
  PROVE  SubSeq(text, i, Len(text)) = <<text[i]>> \o SubSeq(text, i + 1, Len(text))
OBVIOUS

LEMMA BeforeIs ==
  ASSUME NEW c, NEW x
  PROVE  Before(c, [end |-> "ok", text |-> x]) = [end |-> "ok", text |-> <<c>> \o x]
<1> DEFINE r == [end |-> "ok", text |-> x]
           y == <<c>> \o x
<1>1. r.text = x
  OBVIOUS
<1>2. Before(c, r) = [r EXCEPT !.text = y]
  <2> HIDE DEF r
  <2>1. Before(c, r) = [r EXCEPT !.text = <<c>> \o r.text]
    BY DEF Before
  <2> QED BY <1>1, <2>1
<1> HIDE DEF y
<1>3. [r EXCEPT !.text = y] = [end |-> "ok", text |-> y]
  OBVIOUS
<1> HIDE DEF r
<1>4. Before(c, r) = [end |-> "ok", text |-> y]
  BY <1>2, <1>3
<1> QED BY <1>4 DEF r, y

\* What was encoded is decoded.
LEMMA RoundTrip ==
  ASSUME NEW text \in Seq(Octets)
  PROVE  decode_value(Encode(text)) = [end |-> "ok", text |-> text]
<1>1. PICK encode : Encoding(text, encode)
  BY EncodingIs
<1> DEFINE n == Len(text)
           value == encode[1]
           P(i) == PlaceOf(encode, i)
           Rest(i) == [end |-> "ok", text |-> SubSeq(text, i, n)]
<1>2. n \in Nat
  OBVIOUS
<1>3. Encode(text) = value /\ value \in Seq(Sent)
  BY <1>1, <1>2 DEF Encoding
<1>4. value \in Seq(Nat) /\ Len(value) \in Nat
  BY <1>3 DEF Sent
<1>5. PICK from : Decoding(value, from)
  <2> HIDE DEF value
  <2> QED BY <1>4, DecodingIs
<1> DEFINE T == {i \in Int : from[P(i)] = Rest(i)}
<1>6. n + 1 \in T
  <2>1. encode[n + 1] = <<>>
    BY <1>1 DEF Encoding
  <2>2. P(n + 1) = Len(value) + 1
    BY <1>4, <2>1 DEF PlaceOf
  <2>3. SubSeq(text, n + 1, n) = <<>>
    BY <1>2
  <2>4. from[Len(value) + 1] = [end |-> "ok", text |-> <<>>]
    BY <1>5 DEF Decoding
  <2> QED BY <1>2, <2>2, <2>3, <2>4
<1>7. ASSUME NEW i \in 1..((n + 1) - 1), i + 1 \in T PROVE i \in T
  <2> DEFINE c == text[i]
             a == Escape(c)
             b == encode[i + 1]
             p == P(i)
  <2>1. i \in 1..n /\ i \in 1..(n + 1) /\ i + 1 \in 1..(n + 1)
    BY <1>2
  <2>2. c \in Octets
    BY <2>1
  <2>3. a \in Seq(Sent) /\ b \in Seq(Sent) /\ encode[i] = a \o b
    BY <1>1, <2>1, <2>2, EscapeIs DEF Encoding
  <2>4. /\ Len(encode[i]) \in 0..Len(value)
        /\ \A m \in 1..Len(encode[i]) : value[p + m - 1] = encode[i][m]
    BY <1>1, <2>1, PlaceIs
  <2>5. p = Len(value) - Len(encode[i]) + 1 /\ P(i + 1) = Len(value) - Len(b) + 1
    BY DEF PlaceOf
  <2>6. from[P(i + 1)] = Rest(i + 1)
    BY <1>7
  <2> HIDE DEF a, b, p, value, P
  <2>7. /\ Len(encode[i]) = Len(a) + Len(b) /\ Len(a) \in Nat /\ Len(b) \in Nat
        /\ \A m \in 1..Len(a) : encode[i][m] = a[m]
    BY <2>3
  <2>8. /\ p \in Nat /\ 1 <= p /\ p + Len(a) <= Len(value) + 1
        /\ P(i + 1) = p + Len(a)
        /\ \A m \in 1..Len(a) : value[p + m - 1] = a[m]
    <3>1. p \in Nat /\ 1 <= p /\ p + Len(a) <= Len(value) + 1 /\ P(i + 1) = p + Len(a)
      BY <1>4, <2>4, <2>5, <2>7
    <3>2. ASSUME NEW m \in 1..Len(a) PROVE value[p + m - 1] = a[m]
      <4>1. m \in 1..Len(encode[i])
        BY <2>7
      <4> QED BY <2>4, <2>7, <4>1
    <3> QED BY <3>1, <3>2
  <2>9. Before(c, Rest(i + 1)) = Rest(i)
    <3>1. SubSeq(text, i, n) = <<c>> \o SubSeq(text, i + 1, n)
      BY <2>1, BehindFirst
    <3> QED BY <3>1, BeforeIs
  <2> HIDE DEF Rest, n
  <2>10. from[p] = Before(c, from[P(i + 1)])
    <3>1. CASE Len(a) = 1
      <4>1. value[p] = a[1]
        <5>1. value[p + 1 - 1] = a[1]
          BY <2>8, <3>1
        <5>2. p + 1 - 1 = p
          BY <2>8
        <5> QED BY <5>1, <5>2
      <4>2. a[1] # Percent /\ c = IF a[1] = Plus THEN Space ELSE a[1]
        BY <2>2, <3>1, EscapeIs DEF a
      <4>3. p \in 1..Len(value) /\ P(i + 1) = p + 1
        BY <1>4, <2>8, <3>1
      <4>4. from[p] = Before(IF value[p] = Plus THEN Space ELSE value[p], from[p + 1])
        BY <1>5, <4>1, <4>2, <4>3 DEF Decoding
      <4> QED BY <4>1, <4>2, <4>3, <4>4
    <3>2. CASE Len(a) = 3
      <4>1. value[p] = a[1] /\ value[p + 1] = a[2] /\ value[p + 2] = a[3]
        <5>1. value[p + 1 - 1] = a[1] /\ value[p + 2 - 1] = a[2] /\ value[p + 3 - 1] = a[3]
          BY <2>8, <3>2
        <5>2. p + 1 - 1 = p /\ p + 2 - 1 = p + 1 /\ p + 3 - 1 = p + 2
          BY <2>8
        <5> QED BY <5>1, <5>2
      <4>2. /\ a[1] = Percent /\ a[2] # Plus /\ a[3] # Plus
            /\ c = 16 * Nibble(a[2]) + Nibble(a[3])
        BY <2>2, <3>2, EscapeIs DEF a
      <4>3. p \in 1..(Len(value) - 2) /\ P(i + 1) = p + 3
        BY <1>4, <2>8, <3>2
      <4>4. from[p] = Before(16 * Nibble(value[p + 1]) + Nibble(value[p + 2]), from[p + 3])
        BY <1>5, <4>1, <4>2, <4>3 DEF Decoding
      <4> QED BY <4>1, <4>2, <4>3, <4>4
    <3>3. Len(a) \in {1, 3}
      BY <2>2, EscapeIs DEF a
    <3> QED BY <3>1, <3>2, <3>3
  <2> QED BY <2>6, <2>9, <2>10 DEF p
<1>8. 1 \in T
  <2> DEFINE e == n + 1
  <2>1. e \in Int /\ 1 \in Int /\ 1 \in 1..e
    BY <1>2
  <2>2. \A k \in 1..(e - 1) : k + 1 \in T => k \in T
    <3> HIDE DEF T
    <3> QED BY <1>7
  <2> HIDE DEF T, e
  <2>3. e \in T
    BY <1>6 DEF e
  <2>4. \A k \in 1..e : k \in T
    BY <2>1, <2>2, <2>3, Descend
  <2> QED BY <2>1, <2>4
<1>9. P(1) = 1
  BY <1>4 DEF PlaceOf
<1>10. SubSeq(text, 1, n) = text
  OBVIOUS
<1>11. from[1] = [end |-> "ok", text |-> text]
  BY <1>8, <1>9, <1>10
<1>12. decode_value(value) = from[1]
  BY <1>5 DEF Decoding
<1> QED BY <1>3, <1>11, <1>12

\* A text without "%" is decoded character by character.
LEMMA PlainDecoded ==
  ASSUME NEW text \in Seq(Octets), \A i \in 1..Len(text) : text[i] # Percent
  PROVE  /\ PlusAsSpace(text) \in Seq(Octets)
         /\ decode_value(text) = [end |-> "ok", text |-> PlusAsSpace(text)]
<1> DEFINE n == Len(text)
           plain == PlusAsSpace(text)
           Rest(i) == [end |-> "ok", text |-> SubSeq(plain, i, n)]
<1>1. n \in Nat /\ text \in Seq(Nat)
  <2>1. Octets \subseteq Nat
    BY DEF Octets
  <2>2. text \in [1..n -> Octets] /\ n \in Nat
    OBVIOUS
  <2>3. text \in [1..n -> Nat]
    <3> HIDE DEF n
    <3> QED BY <2>1, <2>2
  <2> QED BY <2>2, <2>3
<1>2. /\ plain \in Seq(Octets) /\ Len(plain) = n
      /\ \A i \in 1..n : plain[i] = IF text[i] = Plus THEN Space ELSE text[i]
  <2>1. Space \in Octets
    BY DEF Space, Octets
  <2>2. \A i \in 1..n : text[i] \in Octets
    OBVIOUS
  <2> QED BY <1>1, <2>1, <2>2 DEF PlusAsSpace
<1> HIDE DEF plain
<1>3. PICK from : Decoding(text, from)
  BY <1>1, DecodingIs
<1> DEFINE T == {i \in Int : from[i] = Rest(i)}
<1>4. n + 1 \in T
  <2>1. SubSeq(plain, n + 1, n) = <<>>
    BY <1>1, <1>2
  <2>2. from[n + 1] = [end |-> "ok", text |-> <<>>]
    BY <1>3 DEF Decoding
  <2> QED BY <1>1, <2>1, <2>2
<1>5. ASSUME NEW i \in 1..((n + 1) - 1), i + 1 \in T PROVE i \in T
  <2>1. i \in 1..n /\ from[i + 1] = Rest(i + 1)
    BY <1>1, <1>5
  <2>2. text[i] # Percent
    BY <2>1
  <2>3. from[i] = Before(plain[i], from[i + 1])
    BY <1>2, <1>3, <2>1, <2>2 DEF Decoding
  <2>4. SubSeq(plain, i, n) = <<plain[i]>> \o SubSeq(plain, i + 1, n)
    BY <1>2, <2>1, BehindFirst
  <2>5. Before(plain[i], Rest(i + 1)) = Rest(i)
    BY <2>4, BeforeIs
  <2> QED BY <2>1, <2>3, <2>5
<1>6. 1 \in T
  <2> DEFINE e == n + 1
  <2>1. e \in Int /\ 1 \in Int /\ 1 \in 1..e
    BY <1>1
  <2>2. \A k \in 1..(e - 1) : k + 1 \in T => k \in T
    <3> HIDE DEF T
    <3> QED BY <1>5
  <2> HIDE DEF T, e
  <2>3. e \in T
    BY <1>4 DEF e
  <2>4. \A k \in 1..e : k \in T
    BY <2>1, <2>2, <2>3, Descend
  <2> QED BY <2>1, <2>4
<1>7. SubSeq(plain, 1, n) = plain
  BY <1>2
<1>8. from[1] = [end |-> "ok", text |-> plain]
  BY <1>6, <1>7
<1>9. decode_value(text) = from[1]
  BY <1>3 DEF Decoding
<1> QED BY <1>2, <1>8, <1>9 DEF plain

\* There is a first place with a property, or there is none before the end.
LEMMA FirstPlace ==
  ASSUME NEW i \in Nat, NEW e \in Nat, i <= e, NEW T
  PROVE  \E k \in i..e : (k = e \/ k \in T) /\ \A h \in i..(k - 1) : h \notin T
<1> DEFINE U == {k \in Nat : k \in i..e /\ (k = e \/ k \in T)}
<1>1. U \in SUBSET Nat /\ e \in U
  OBVIOUS
<1> HIDE DEF U
<1>2. PICK k \in U : \A h \in U : k <= h
  BY <1>1, Least
<1>3. k \in i..e /\ (k = e \/ k \in T)
  BY <1>2 DEF U
<1>4. ASSUME NEW h \in i..(k - 1) PROVE h \notin T
  <2>1. ASSUME h \in T PROVE FALSE
    <3>1. h \in U
      BY <1>3, <2>1 DEF U
    <3> QED BY <1>2, <1>3, <3>1
  <2> QED BY <2>1
<1> QED BY <1>3, <1>4

\* Where a key stands next.
NextPlace(key, s, i) ==
  CHOOSE k \in i..(Len(s) + 1) :
    (k = Len(s) + 1 \/ StandsAt(key, s, k)) /\ \A h \in i..(k - 1) : ~StandsAt(key, s, h)

LEMMA NextPlaceIs ==
  ASSUME NEW key, NEW s, Len(s) \in Nat, NEW i \in 1..(Len(s) + 1)
  PROVE  LET k == NextPlace(key, s, i)
         IN  /\ k \in i..(Len(s) + 1)
             /\ k = Len(s) + 1 \/ StandsAt(key, s, k)
             /\ \A h \in i..(k - 1) : ~StandsAt(key, s, h)
<1> DEFINE T == {k \in Nat : StandsAt(key, s, k)}
           e == Len(s) + 1
<1>1. i \in Nat /\ e \in Nat /\ i <= e
  OBVIOUS
<1>2. \E k \in i..e : (k = e \/ k \in T) /\ \A h \in i..(k - 1) : h \notin T
  <2> HIDE DEF T, e
  <2> QED BY <1>1, FirstPlace
<1>3. PICK k \in i..e : (k = e \/ StandsAt(key, s, k)) /\ \A h \in i..(k - 1) : ~StandsAt(key, s, h)
  BY <1>1, <1>2
<1> QED BY <1>3 DEF NextPlace

\* Where a value ends.
LEMMA ValueEndIs ==
  ASSUME NEW s, Len(s) \in Nat, NEW i \in 1..(Len(s) + 1)
  PROVE  LET k == ValueEnd(s, i)
         IN  /\ k \in i..(Len(s) + 1)
             /\ k = Len(s) + 1 \/ s[k] = Ampersand
             /\ \A h \in i..(k - 1) : s[h] # Ampersand
<1> DEFINE T == {k \in Nat : s[k] = Ampersand}
           e == Len(s) + 1
<1>1. i \in Nat /\ e \in Nat /\ i <= e
  OBVIOUS
<1>2. \E k \in i..e : (k = e \/ k \in T) /\ \A h \in i..(k - 1) : h \notin T
  <2> HIDE DEF T, e
  <2> QED BY <1>1, FirstPlace
<1>3. PICK k \in i..e : (k = e \/ s[k] = Ampersand) /\ \A h \in i..(k - 1) : s[h] # Ampersand
  BY <1>1, <1>2
<1>4. ValueEnd(s, i) = CHOOSE x \in i..(Len(s) + 1) :
        (x = Len(s) + 1 \/ s[x] = Ampersand) /\ \A h \in i..(x - 1) : ~(s[h] = Ampersand)
  BY Zenon DEF ValueEnd, Find
<1> QED BY <1>3, <1>4

\* The value that starts at a place.
ValueAt(s, i) == SubSeq(s, i, ValueEnd(s, i) - 1)

\* What is found from each place on.
Finding(s, key, from) ==
  /\ find_value(s, key) = from[1]
  /\ \A i \in 1..(Len(s) + 1) :
       LET res == NextPlace(key, s, i) + Len(key)
       IN  /\ res <= Len(s) /\ s[res] = Equals => from[i] = <<ValueAt(s, res + 1)>>
           /\ res <= Len(s) /\ s[res] # Equals => from[i] = from[res + 1]

LEMMA FindingIs ==
  ASSUME NEW s \in Seq(Nat), NEW key \in Seq(Nat)
  PROVE  \E from : Finding(s, key, from)
<1> DEFINE D == 1..(Len(s) + 1)
           S == {<<>>} \cup {<<ValueAt(s, i)>> : i \in D}
           Res(i) == NextPlace(key, s, i) + Len(key)
           Body(from, i) ==
             IF Res(i) > Len(s) THEN <<>>
             ELSE IF s[Res(i)] = Equals THEN <<ValueAt(s, Res(i) + 1)>>
             ELSE from[Res(i) + 1]
           mu == [i \in D |-> Len(s) + 1 - i]
           step == [x \in D \X [D -> S] |-> Body(x[2], x[1])]
<1>1. Len(s) \in Nat /\ Len(key) \in Nat
  OBVIOUS
<1>2. ASSUME NEW i \in D PROVE Res(i) \in Nat /\ Res(i) >= i
  <2> DEFINE k == NextPlace(key, s, i)
  <2>1. k \in i..(Len(s) + 1)
    BY <1>1, NextPlaceIs
  <2> HIDE DEF k
  <2>2. k + Len(key) \in Nat /\ k + Len(key) >= i
    BY <1>1, <2>1
  <2> QED BY <2>2 DEF k
<1> HIDE DEF Res
<1>3. ASSUME NEW i \in D, ~(Res(i) > Len(s))
      PROVE  Res(i) + 1 \in D /\ mu[Res(i) + 1] < mu[i]
  <2>1. Res(i) + 1 \in D /\ i \in Nat
    BY <1>1, <1>2, <1>3
  <2>2. mu[i] = Len(s) + 1 - i /\ mu[Res(i) + 1] = Len(s) + 1 - (Res(i) + 1)
    BY <2>1
  <2>3. mu[Res(i) + 1] < mu[i]
    <3> HIDE DEF mu, D
    <3> QED BY <1>1, <1>2, <2>1, <2>2
  <2> QED BY <2>1, <2>3
<1>4. \A i \in D : <<ValueAt(s, i)>> \in S
  OBVIOUS
<1>5. <<>> \in S
  OBVIOUS
<1> HIDE DEF mu, S
<1>6. Recursion(D, S, mu, step)
  <2>1. step \in [D \X [D -> S] -> S]
    <3>1. ASSUME NEW i \in D, NEW f \in [D -> S] PROVE Body(f, i) \in S
      <4> HIDE DEF D
      <4>1. CASE Res(i) > Len(s)
        BY <1>5, <4>1
      <4>2. CASE ~(Res(i) > Len(s)) /\ s[Res(i)] = Equals
        <5>1. <<ValueAt(s, Res(i) + 1)>> \in S
          BY <1>3, <1>4, <4>2
        <5> QED BY <4>2, <5>1
      <4>3. CASE ~(Res(i) > Len(s)) /\ s[Res(i)] # Equals
        <5>1. f[Res(i) + 1] \in S
          BY <1>3, <4>3
        <5> QED BY <4>3, <5>1
      <4> QED BY <4>1, <4>2, <4>3
    <3> HIDE DEF D, Body
    <3> QED BY <3>1
  <2>2. ASSUME NEW i \in D, NEW f \in [D -> S], NEW g \in [D -> S],
               \A k \in D : mu[k] < mu[i] => f[k] = g[k]
        PROVE  step[<<i, f>>] = step[<<i, g>>]
    <3>1. Body(f, i) = Body(g, i)
      <4> HIDE DEF D
      <4>1. CASE Res(i) > Len(s)
        BY <4>1
      <4>2. CASE ~(Res(i) > Len(s))
        <5>1. f[Res(i) + 1] = g[Res(i) + 1]
          BY <1>3, <2>2, <4>2
        <5> QED BY <4>2, <5>1
      <4> QED BY <4>1, <4>2
    <3> HIDE DEF Body
    <3> QED BY <3>1
  <2>3. mu \in [D -> 0..(Len(s) + 1)] /\ Len(s) + 1 \in Nat
    BY <1>1 DEF mu
  <2>4. S # {}
    BY <1>5
  <2> HIDE DEF step, D
  <2> QED BY <2>1, <2>2, <2>3, <2>4 DEF Recursion
<1> DEFINE from == CHOOSE f : f = [i \in D |-> Body(f, i)]
<1>7. from = [i \in D |-> Body(from, i)]
  <2>1. PICK f \in [D -> S] : \A i \in D : f[i] = step[<<i, f>>]
    <3> HIDE DEF step, D
    <3> QED BY <1>6, RecursiveFunction
  <2>2. f = [i \in D |-> Body(f, i)]
    <3> HIDE DEF D, Body
    <3> QED BY <2>1
  <2> HIDE DEF Body
  <2> QED BY <2>2, Zenon
<1>8. find_value(s, key) = from[1]
  BY Zenon DEF find_value, Find, ValueAt, NextPlace, Res
<1> HIDE DEF from
<1>9. \A i \in D : from[i] = Body(from, i)
  <2> HIDE DEF D, Body
  <2> QED BY <1>7
<1>10. ASSUME NEW i \in D, Res(i) <= Len(s)
       PROVE  /\ s[Res(i)] = Equals => from[i] = <<ValueAt(s, Res(i) + 1)>>
              /\ s[Res(i)] # Equals => from[i] = from[Res(i) + 1]
  <2>1. ~(Res(i) > Len(s))
    BY <1>1, <1>2, <1>10
  <2> HIDE DEF D
  <2> QED BY <1>9, <2>1
<1>11. Finding(s, key, from)
  BY <1>8, <1>10 DEF Finding, Res
<1> QED BY <1>11

LEMMA StandsAtIs ==
  ASSUME NEW s \in Seq(Nat), NEW key \in Seq(Nat), NEW i \in 1..(Len(s) + 1)
  PROVE  StandsAt(key, s, i) <=>
           /\ i + Len(key) - 1 <= Len(s)
           /\ \A m \in 1..Len(key) : s[i + m - 1] = key[m]
<1>1. Len(s) \in Nat /\ Len(key) \in Nat /\ i \in Nat
  OBVIOUS
<1>2. ASSUME i + Len(key) - 1 <= Len(s)
      PROVE  SubSeq(s, i, i + Len(key) - 1) = key <=>
               \A m \in 1..Len(key) : s[i + m - 1] = key[m]
  <2> DEFINE l == Len(key)
             t == SubSeq(s, i, i + l - 1)
  <2>1. t \in Seq(Nat) /\ Len(t) = l /\ \A m \in 1..l : t[m] = s[i + m - 1]
    BY <1>1, <1>2, SMTT(30)
  <2> HIDE DEF t
  <2>2. t = key <=> \A m \in 1..l : t[m] = key[m]
    <3>1. t \in [1..l -> Nat] /\ key \in [1..l -> Nat]
      BY <1>1, <2>1
    <3> HIDE DEF l
    <3>2. ASSUME \A m \in 1..l : t[m] = key[m] PROVE t = key
      <4>1. t = [m \in 1..l |-> t[m]] /\ key = [m \in 1..l |-> key[m]]
        BY <3>1
      <4> QED BY <3>2, <4>1
    <3> QED BY <3>2
  <2> HIDE DEF l
  <2>3. SubSeq(s, i, i + l - 1) = t
    BY DEF t
  <2>4. t = key <=> \A m \in 1..l : s[i + m - 1] = key[m]
    BY <2>1, <2>2
  <2> QED BY <2>3, <2>4 DEF l
<1> QED BY <1>2 DEF StandsAt

\* The parameter that stands at p, behind places where the key stands without "=".
ParameterAt(s, key, p) ==
  /\ p \in 1..Len(s) /\ StandsAt(key, s, p)
  /\ p + Len(key) <= Len(s) /\ s[p + Len(key)] = Equals
  /\ \A k \in 1..(p - 1) : StandsAt(key, s, k) => k + Len(key) < p /\ s[k + Len(key)] # Equals

LEMMA ParameterFound ==
  ASSUME NEW s \in Seq(Nat), NEW key \in Seq(Nat), NEW p, ParameterAt(s, key, p)
  PROVE  find_value(s, key) = <<ValueAt(s, p + Len(key) + 1)>>
<1>1. PICK from : Finding(s, key, from)
  BY FindingIs
<1> DEFINE D == 1..p
           mu == [i \in D |-> p - i]
           found == <<ValueAt(s, p + Len(key) + 1)>>
           T == {i \in D : from[i] = found}
<1>2. Len(s) \in Nat /\ Len(key) \in Nat /\ p \in 1..Len(s)
  BY DEF ParameterAt
<1>3. ASSUME NEW i \in D, \A k \in D : mu[k] < mu[i] => k \in T PROVE i \in T
  <2> DEFINE k == NextPlace(key, s, i)
             res == k + Len(key)
  <2>1. i \in 1..(Len(s) + 1) /\ i \in Nat /\ i <= p
    BY <1>2
  <2>2. /\ k \in i..(Len(s) + 1)
        /\ k = Len(s) + 1 \/ StandsAt(key, s, k)
        /\ \A h \in i..(k - 1) : ~StandsAt(key, s, h)
    BY <1>2, <2>1, NextPlaceIs
  <2>3. /\ res <= Len(s) /\ s[res] = Equals => from[i] = <<ValueAt(s, res + 1)>>
        /\ res <= Len(s) /\ s[res] # Equals => from[i] = from[res + 1]
    BY <1>1, <2>1 DEF Finding
  <2> HIDE DEF k
  <2>4. k <= p
    <3>1. ASSUME k > p PROVE FALSE
      <4>1. p \in i..(k - 1)
        BY <1>2, <2>1, <2>2, <3>1
      <4> QED BY <2>2, <4>1 DEF ParameterAt
    <3> QED BY <1>2, <2>2, <3>1
  <2>5. CASE k = p
    BY <2>3, <2>5 DEF ParameterAt
  <2>6. CASE k < p
    <3>1. k \in 1..(p - 1) /\ StandsAt(key, s, k)
      BY <1>2, <2>1, <2>2, <2>6
    <3>2. res < p /\ s[res] # Equals
      BY <3>1 DEF ParameterAt
    <3>3. res \in Nat /\ res >= i
      BY <1>2, <2>1, <2>2
    <3> HIDE DEF res
    <3>4. res + 1 \in D /\ mu[res + 1] = p - (res + 1) /\ mu[i] = p - i
      BY <1>2, <2>1, <3>2, <3>3
    <3>5. mu[res + 1] < mu[i]
      <4> HIDE DEF mu, D
      <4> QED BY <1>2, <2>1, <3>3, <3>4
    <3>6. res + 1 \in T
      <4> HIDE DEF T, mu, D
      <4> QED BY <1>3, <3>4, <3>5
    <3>7. from[i] = from[res + 1]
      BY <1>2, <2>3, <3>2, <3>3
    <3> QED BY <3>6, <3>7
  <2> QED BY <1>2, <2>2, <2>4, <2>5, <2>6
<1>4. mu \in [D -> 0..p] /\ p \in Nat
  BY <1>2
<1>5. 1 \in D
  BY <1>2
<1>6. \A i \in D : i \in T
  <2> HIDE DEF D, mu, T
  <2> QED BY <1>3, <1>4, MeasureInduction
<1>7. from[1] = found
  BY <1>5, <1>6
<1> QED BY <1>1, <1>7 DEF Finding

\* The places of a query with two parameters.
Layout(s, k1, e1, k2, e2) ==
  /\ s \in Seq(Nat)
  /\ Len(s) = Len(k1) + Len(e1) + Len(k2) + Len(e2) + 3
  /\ \A i \in 1..Len(k1) : s[i] = k1[i]
  /\ s[Len(k1) + 1] = Equals
  /\ \A i \in 1..Len(e1) : s[Len(k1) + 1 + i] = e1[i]
  /\ s[Len(k1) + Len(e1) + 2] = Ampersand
  /\ \A i \in 1..Len(k2) : s[Len(k1) + Len(e1) + 2 + i] = k2[i]
  /\ s[Len(k1) + Len(e1) + Len(k2) + 3] = Equals
  /\ \A i \in 1..Len(e2) : s[Len(k1) + Len(e1) + Len(k2) + 3 + i] = e2[i]

LEMMA Joined ==
  ASSUME NEW a \in Seq(Nat), NEW c \in Nat, NEW b \in Seq(Nat)
  PROVE  LET s == a \o <<c>> \o b
         IN  /\ s \in Seq(Nat) /\ Len(s) = Len(a) + 1 + Len(b)
             /\ \A i \in 1..Len(a) : s[i] = a[i]
             /\ s[Len(a) + 1] = c
             /\ \A i \in 1..Len(b) : s[Len(a) + 1 + i] = b[i]
<1> DEFINE t == a \o <<c>>
<1>1. t \in Seq(Nat) /\ Len(t) = Len(a) + 1 /\ \A i \in 1..Len(a) : t[i] = a[i]
  OBVIOUS
<1>2. t[Len(a) + 1] = c
  OBVIOUS
<1>3. Len(a) \in Nat /\ Len(b) \in Nat
  OBVIOUS
<1> HIDE DEF t
<1> DEFINE s == t \o b
<1>4. s \in Seq(Nat) /\ Len(s) = Len(t) + Len(b)
  <2>1. t \in Seq(Nat)
    BY <1>1
  <2>2. s \in Seq(Nat)
    BY <2>1
  <2>3. Len(s) = Len(t) + Len(b)
    BY <2>1
  <2> QED BY <2>2, <2>3
<1>5. \A i \in 1..Len(t) : s[i] = t[i]
  BY <1>1
<1>6. \A i \in 1..Len(b) : s[Len(t) + i] = b[i]
  BY <1>1, SMTT(60)
<1> HIDE DEF s
<1>7. s[Len(a) + 1] = c
  BY <1>1, <1>2, <1>3, <1>5
<1>8. \A i \in 1..Len(a) : s[i] = a[i]
  BY <1>1, <1>3, <1>5, SMTT(30)
<1> QED BY <1>1, <1>3, <1>4, <1>6, <1>7, <1>8 DEF s, t

LEMMA LayoutIs ==
  ASSUME NEW k1 \in Seq(Sent), NEW e1 \in Seq(Sent), NEW k2 \in Seq(Sent), NEW e2 \in Seq(Sent)
  PROVE  Layout((k1 \o <<Equals>> \o e1) \o <<Ampersand>> \o (k2 \o <<Equals>> \o e2),
                k1, e1, k2, e2)
<1>1. k1 \in Seq(Nat) /\ e1 \in Seq(Nat) /\ k2 \in Seq(Nat) /\ e2 \in Seq(Nat)
  BY DEF Sent
<1>2. Equals \in Nat /\ Ampersand \in Nat
  BY DEF Equals, Ampersand
<1> DEFINE a == k1 \o <<Equals>> \o e1
           b == k2 \o <<Equals>> \o e2
           s == a \o <<Ampersand>> \o b
           x1 == Len(k1)
           y1 == Len(e1)
           x2 == Len(k2)
           y2 == Len(e2)
<1>3. x1 \in Nat /\ y1 \in Nat /\ x2 \in Nat /\ y2 \in Nat
  BY <1>1
<1>4. /\ a \in Seq(Nat) /\ Len(a) = x1 + 1 + y1
      /\ \A i \in 1..x1 : a[i] = k1[i]
      /\ a[x1 + 1] = Equals
      /\ \A i \in 1..y1 : a[x1 + 1 + i] = e1[i]
  BY <1>1, <1>2, Joined, SMTT(30)
<1>5. /\ b \in Seq(Nat) /\ Len(b) = x2 + 1 + y2
      /\ \A i \in 1..x2 : b[i] = k2[i]
      /\ b[x2 + 1] = Equals
      /\ \A i \in 1..y2 : b[x2 + 1 + i] = e2[i]
  BY <1>1, <1>2, Joined, SMTT(30)
<1> HIDE DEF a, b
<1>6. /\ s \in Seq(Nat) /\ Len(s) = Len(a) + 1 + Len(b)
      /\ \A i \in 1..Len(a) : s[i] = a[i]
      /\ s[Len(a) + 1] = Ampersand
      /\ \A i \in 1..Len(b) : s[Len(a) + 1 + i] = b[i]
  BY <1>2, <1>4, <1>5, Joined, ZenonT(60)
<1> HIDE DEF s, x1, y1, x2, y2
<1>7. Len(s) = x1 + y1 + x2 + y2 + 3
  BY <1>3, <1>4, <1>5, <1>6
<1>8. ASSUME NEW i \in 1..x1 PROVE s[i] = k1[i]
  BY <1>3, <1>4, <1>6
<1>9. s[x1 + 1] = Equals
  BY <1>3, <1>4, <1>6
<1>10. ASSUME NEW i \in 1..y1 PROVE s[x1 + 1 + i] = e1[i]
  <2>1. x1 + 1 + i \in 1..Len(a)
    BY <1>3, <1>4
  <2> QED BY <1>4, <1>6, <2>1
<1>11. s[x1 + y1 + 2] = Ampersand
  <2>1. Len(a) + 1 = x1 + y1 + 2
    BY <1>3, <1>4
  <2> QED BY <1>6, <2>1
<1>12. ASSUME NEW i \in 1..x2 PROVE s[x1 + y1 + 2 + i] = k2[i]
  <2>1. Len(a) + 1 + i = x1 + y1 + 2 + i /\ i \in 1..Len(b)
    BY <1>3, <1>4, <1>5
  <2>2. s[Len(a) + 1 + i] = b[i]
    BY <1>6, <2>1
  <2> QED BY <1>5, <2>1, <2>2
<1>13. s[x1 + y1 + x2 + 3] = Equals
  <2>1. Len(a) + 1 + (x2 + 1) = x1 + y1 + x2 + 3 /\ x2 + 1 \in 1..Len(b)
    BY <1>3, <1>4, <1>5
  <2>2. s[Len(a) + 1 + (x2 + 1)] = b[x2 + 1]
    BY <1>6, <2>1
  <2> QED BY <1>5, <2>1, <2>2
<1>14. ASSUME NEW i \in 1..y2 PROVE s[x1 + y1 + x2 + 3 + i] = e2[i]
  <2>1. Len(a) + 1 + (x2 + 1 + i) = x1 + y1 + x2 + 3 + i /\ x2 + 1 + i \in 1..Len(b)
    BY <1>3, <1>4, <1>5
  <2>2. s[Len(a) + 1 + (x2 + 1 + i)] = b[x2 + 1 + i]
    BY <1>6, <2>1
  <2> QED BY <1>5, <2>1, <2>2
<1>15. Layout(s, k1, e1, k2, e2)
  BY <1>6, <1>7, <1>8, <1>9, <1>10, <1>11, <1>12, <1>13, <1>14
     DEF Layout, x1, y1, x2, y2
<1> QED BY <1>15 DEF s, a, b

\* The value between two places without "&" inside.
LEMMA ValueAtIs ==
  ASSUME NEW s \in Seq(Nat), NEW e \in Seq(Sent), NEW i \in 1..(Len(s) + 1),
         i + Len(e) <= Len(s) + 1,
         \A m \in 1..Len(e) : s[i + m - 1] = e[m],
         i + Len(e) = Len(s) + 1 \/ s[i + Len(e)] = Ampersand
  PROVE  ValueAt(s, i) = e
<1> DEFINE k == ValueEnd(s, i)
           l == Len(e)
<1>1. Len(s) \in Nat /\ l \in Nat /\ i \in Nat /\ i + l <= Len(s) + 1
  OBVIOUS
<1>2. /\ k \in i..(Len(s) + 1)
      /\ k = Len(s) + 1 \/ s[k] = Ampersand
      /\ \A h \in i..(k - 1) : s[h] # Ampersand
  BY <1>1, ValueEndIs
<1>3. ASSUME NEW m \in 1..l PROVE s[i + m - 1] = e[m] /\ e[m] # Ampersand /\ e[m] \in Nat
  <2>1. e[m] \in Sent
    OBVIOUS
  <2> QED BY <2>1 DEF Sent
<1>4. i + l = Len(s) + 1 \/ s[i + l] = Ampersand
  OBVIOUS
<1> HIDE DEF k, l
<1>5. ASSUME k < i + l PROVE FALSE
  <2> DEFINE m == k - i + 1
  <2>1. m \in 1..l /\ i + m - 1 = k /\ k # Len(s) + 1
    BY <1>1, <1>2, <1>5
  <2> HIDE DEF m
  <2>2. s[k] = e[m] /\ e[m] # Ampersand
    BY <1>3, <2>1
  <2> QED BY <1>2, <2>1, <2>2
<1>6. ASSUME k > i + l PROVE FALSE
  <2>1. i + l \in i..(k - 1) /\ i + l # Len(s) + 1
    BY <1>1, <1>2, <1>6
  <2> QED BY <1>2, <1>4, <2>1
<1>7. k = i + l
  BY <1>1, <1>2, <1>5, <1>6
<1> DEFINE t == SubSeq(s, i, k - 1)
<1>8. t \in Seq(Nat) /\ Len(t) = l /\ \A m \in 1..l : t[m] = s[i + m - 1]
  BY <1>1, <1>7
<1> HIDE DEF t
<1>9. t = e
  <2>1. t \in [1..l -> Nat] /\ e \in [1..l -> Nat]
    <3>1. e \in Seq(Nat)
      BY DEF Sent
    <3>2. t \in [1..l -> Nat]
      BY <1>8
    <3>3. e \in [1..l -> Nat]
      <4>1. l = Len(e)
        BY DEF l
      <4> QED BY <3>1, <4>1, SMTT(60)
    <3> QED BY <3>2, <3>3
  <2>2. t = [m \in 1..l |-> t[m]] /\ e = [m \in 1..l |-> e[m]]
    BY <2>1
  <2>3. \A m \in 1..l : t[m] = e[m]
    BY <1>3, <1>8
  <2> QED BY <2>2, <2>3
<1> QED BY <1>9 DEF ValueAt, t, k

LEMMA SentChars ==
  ASSUME NEW e \in Seq(Sent)
  PROVE  /\ e \in Seq(Nat) /\ Len(e) \in Nat
         /\ \A i \in 1..Len(e) : e[i] # Equals /\ e[i] # Ampersand
<1>1. e \in Seq(Nat) /\ Len(e) \in Nat
  BY DEF Sent
<1>2. ASSUME NEW i \in 1..Len(e) PROVE e[i] # Equals /\ e[i] # Ampersand
  <2>1. e[i] \in Sent
    OBVIOUS
  <2> QED BY <2>1 DEF Sent
<1> QED BY <1>1, <1>2

\* The first parameter is found where the query starts.
LEMMA FirstParameter ==
  ASSUME NEW k1 \in Seq(Sent), NEW e1 \in Seq(Sent), NEW k2 \in Seq(Sent), NEW e2 \in Seq(Sent),
         NEW s, Layout(s, k1, e1, k2, e2)
  PROVE  find_value(s, k1) = <<e1>>
<1> DEFINE x1 == Len(k1)
           y1 == Len(e1)
           x2 == Len(k2)
           y2 == Len(e2)
<1>1. /\ x1 \in Nat /\ y1 \in Nat /\ x2 \in Nat /\ y2 \in Nat
      /\ k1 \in Seq(Nat)
  BY SentChars
<1>2. /\ s \in Seq(Nat) /\ Len(s) = x1 + y1 + x2 + y2 + 3
      /\ \A i \in 1..x1 : s[i] = k1[i]
      /\ s[x1 + 1] = Equals
      /\ \A i \in 1..y1 : s[x1 + 1 + i] = e1[i]
      /\ s[x1 + y1 + 2] = Ampersand
  BY DEF Layout
<1>3. ParameterAt(s, k1, 1)
  <2>1. 1 \in 1..Len(s) /\ 1 + x1 <= Len(s) /\ 1 + x1 = x1 + 1
    BY <1>1, <1>2
  <2>2. StandsAt(k1, s, 1)
    <3>1. 1 \in 1..(Len(s) + 1) /\ 1 + x1 - 1 <= Len(s)
      BY <1>1, <1>2
    <3>2. \A m \in 1..x1 : s[1 + m - 1] = k1[m]
      <4>1. \A m \in 1..x1 : 1 + m - 1 = m
        BY <1>1
      <4> QED BY <1>2, <4>1
    <3> QED BY <1>1, <1>2, <3>1, <3>2, StandsAtIs
  <2>3. s[1 + x1] = Equals
    BY <1>2, <2>1
  <2>4. \A k \in 1..(1 - 1) : FALSE
    OBVIOUS
  <2> QED BY <2>1, <2>2, <2>3, <2>4 DEF ParameterAt
<1>4. find_value(s, k1) = <<ValueAt(s, 1 + x1 + 1)>>
  BY <1>1, <1>2, <1>3, ParameterFound
<1> DEFINE i == 1 + x1 + 1
<1>5. ValueAt(s, i) = e1
  <2>1. /\ i \in 1..(Len(s) + 1) /\ i + y1 <= Len(s) + 1 /\ i + y1 = x1 + y1 + 2
    BY <1>1, <1>2, SMTT(30)
  <2>2. \A m \in 1..y1 : s[i + m - 1] = e1[m]
    <3>1. \A m \in 1..y1 : i + m - 1 = x1 + 1 + m
      BY <1>1
    <3> QED BY <1>2, <3>1
  <2>3. s[i + y1] = Ampersand
    BY <1>2, <2>1
  <2> HIDE DEF i
  <2> QED BY <1>2, <2>1, <2>2, <2>3, ValueAtIs
<1> QED BY <1>4, <1>5

\* What holds for the keys and values in a query, the keys told apart by their first
\* character.
Sending(k1, e1, k2, e2) ==
  /\ k1 \in Seq(Sent) /\ e1 \in Seq(Sent) /\ k2 \in Seq(Sent) /\ e2 \in Seq(Sent)
  /\ Len(k2) > 0 /\ \A i \in 1..Len(k1) : k1[i] # k2[1]

\* The second one is found behind the first, whatever is in the value of that.
LEMMA SecondParameter ==
  ASSUME NEW k1, NEW e1, NEW k2, NEW e2, Sending(k1, e1, k2, e2),
         NEW s, Layout(s, k1, e1, k2, e2)
  PROVE  find_value(s, k2) = <<e2>>
<1>0. /\ k1 \in Seq(Sent) /\ e1 \in Seq(Sent) /\ k2 \in Seq(Sent) /\ e2 \in Seq(Sent)
      /\ Len(k2) > 0 /\ \A i \in 1..Len(k1) : k1[i] # k2[1]
  BY DEF Sending
<1> USE <1>0
<1> DEFINE x1 == Len(k1)
           y1 == Len(e1)
           x2 == Len(k2)
           y2 == Len(e2)
           g == x1 + y1 + 2
           p == g + 1
<1>1. x1 \in Nat /\ y1 \in Nat /\ x2 \in Nat /\ y2 \in Nat /\ x2 > 0
  BY SentChars
<1>2. /\ s \in Seq(Nat) /\ Len(s) = x1 + y1 + x2 + y2 + 3
      /\ \A i \in 1..x1 : s[i] = k1[i]
      /\ s[x1 + 1] = Equals
      /\ \A i \in 1..y1 : s[x1 + 1 + i] = e1[i]
      /\ s[g] = Ampersand
      /\ \A i \in 1..x2 : s[g + i] = k2[i]
      /\ s[x1 + y1 + x2 + 3] = Equals
      /\ \A i \in 1..y2 : s[x1 + y1 + x2 + 3 + i] = e2[i]
  BY DEF Layout
<1>3. /\ k2 \in Seq(Nat)
      /\ \A i \in 1..x1 : k1[i] # Equals
      /\ \A i \in 1..y1 : e1[i] # Equals
      /\ \A i \in 1..x2 : k2[i] # Ampersand
  BY SentChars
<1>4. \A i \in 1..x1 : s[i] # k2[1]
  BY <1>2
<1>5. Ampersand # Equals
  BY DEF Ampersand, Equals
<1> HIDE DEF x1, y1, x2, y2
<1>6. ASSUME NEW k \in 1..(p - 1), StandsAt(k2, s, k)
      PROVE  k + x2 < p /\ s[k + x2] # Equals
  <2>1. \A m \in 1..x2 : s[k + m - 1] = k2[m]
    <3>1. k \in 1..(Len(s) + 1)
      BY <1>1, <1>2
    <3> QED BY <1>2, <1>3, <1>6, <3>1, StandsAtIs DEF x2
  <2>2. ASSUME k + x2 > g PROVE FALSE
    <3> DEFINE m == g - k + 1
    <3>1. m \in 1..x2 /\ k + m - 1 = g
      BY <1>1, <2>2
    <3> HIDE DEF m
    <3>2. s[g] = k2[m]
      BY <2>1, <3>1
    <3> QED BY <1>2, <1>3, <3>1, <3>2
  <2>3. k + x2 <= g
    BY <1>1, <2>2
  <2>4. k \notin 1..x1
    <3>1. 1 \in 1..x2 /\ k + 1 - 1 = k
      BY <1>1
    <3>2. s[k] = k2[1]
      BY <2>1, <3>1
    <3> QED BY <1>4, <3>2
  <2>5. k > x1 /\ k + x2 > x1 + 1
    BY <1>1, <2>4
  <2>6. CASE k + x2 = g
    <3>1. k + x2 < p
      BY <1>1, <2>6
    <3>2. s[k + x2] # Equals
      <4> HIDE DEF g
      <4> QED BY <1>2, <1>5, <2>6
    <3> QED BY <3>1, <3>2
  <2>7. CASE k + x2 # g
    <3> DEFINE i == k + x2 - x1 - 1
    <3>1. i \in 1..y1 /\ x1 + 1 + i = k + x2
      BY <1>1, <2>3, <2>5, <2>7
    <3> HIDE DEF i
    <3>2. s[k + x2] = e1[i]
      BY <1>2, <3>1
    <3> QED BY <1>3, <1>1, <2>3, <3>1, <3>2
  <2>8. k + x2 < p
    BY <1>1, <2>3
  <2> QED BY <2>6, <2>7, <2>8
<1>7. ParameterAt(s, k2, p)
  <2>1. p \in 1..Len(s) /\ p + x2 <= Len(s) /\ p + x2 = x1 + y1 + x2 + 3
    BY <1>1, <1>2
  <2>2. StandsAt(k2, s, p)
    <3>1. p \in 1..(Len(s) + 1) /\ p + x2 - 1 <= Len(s)
      BY <1>1, <1>2
    <3>2. \A m \in 1..x2 : s[p + m - 1] = k2[m]
      <4>1. \A m \in 1..x2 : p + m - 1 = g + m
        BY <1>1
      <4> QED BY <1>2, <4>1
    <3> HIDE DEF p, g
    <3> QED BY <1>2, <1>3, <3>1, <3>2, StandsAtIs DEF x2
  <2>3. s[p + x2] = Equals
    BY <1>2, <2>1
  <2> HIDE DEF p, g
  <2> QED BY <1>6, <2>1, <2>2, <2>3 DEF ParameterAt, x2
<1>8. find_value(s, k2) = <<ValueAt(s, p + x2 + 1)>>
  <2> HIDE DEF p, g
  <2> QED BY <1>2, <1>3, <1>7, ParameterFound DEF x2
<1> DEFINE i == p + x2 + 1
<1>9. ValueAt(s, i) = e2
  <2>1. /\ i \in 1..(Len(s) + 1) /\ i + y2 <= Len(s) + 1 /\ i + y2 = Len(s) + 1
    <3>1. i = x1 + y1 + x2 + 4 /\ Len(s) = x1 + y1 + x2 + y2 + 3
      <4>1. Len(s) = x1 + y1 + x2 + y2 + 3
        BY <1>1, <1>2
      <4>2. p = x1 + y1 + 3
        BY <1>1
      <4> HIDE DEF p
      <4> QED BY <1>1, <4>1, <4>2
    <3> HIDE DEF i, p, g
    <3> QED BY <1>1, <3>1
  <2>2. \A m \in 1..y2 : s[i + m - 1] = e2[m]
    <3>1. \A m \in 1..y2 : i + m - 1 = x1 + y1 + x2 + 3 + m
      BY <1>1
    <3> QED BY <1>2, <3>1
  <2> HIDE DEF i, p, g
  <2> QED BY <1>2, <2>1, <2>2, ValueAtIs DEF y2
<1> QED BY <1>8, <1>9

LEMMA NoNul == \A c \in Octets : c # 0
BY DEF Octets

\* A value without NUL is returned whole.
LEMMA ValueIs ==
  ASSUME NEW text \in Seq(Octets), NEW value,
         decode_value(value) = [end |-> "ok", text |-> text],
         NEW s, NEW key, find_value(s, key) = <<value>>
  PROVE  get_value(s, key) = text
<1> DEFINE found == find_value(s, key)
           decoded == decode_value(found[1])
           n == Len(text)
<1>1. found # <<>> /\ found[1] = value
  OBVIOUS
<1>2. decoded = [end |-> "ok", text |-> text]
  BY <1>1
<1>3. decoded.end = "ok" /\ decoded.text = text
  BY <1>2
<1> DEFINE end == CHOOSE k \in 1..(Len(decoded.text) + 1) :
                    /\ k = Len(decoded.text) + 1 \/ decoded.text[k] = 0
                    /\ \A h \in 1..(k - 1) : ~(decoded.text[h] = 0)
<1>4. get_value(s, key) =
        CASE found = <<>> -> "invalid"
          [] found # <<>> /\ decoded.end # "ok" -> decoded.end
          [] found # <<>> /\ decoded.end = "ok" -> SubSeq(decoded.text, 1, end - 1)
  BY Zenon DEF get_value, Find
<1> HIDE DEF found, decoded
<1>5. end = n + 1
  <2>1. n \in Nat
    OBVIOUS
  <2>2. \A k \in 1..n : text[k] # 0
    <3>1. \A k \in 1..n : text[k] \in Octets
      OBVIOUS
    <3> QED BY <3>1, NoNul
  <2> DEFINE P(k) == /\ k = n + 1 \/ text[k] = 0
                     /\ \A h \in 1..(k - 1) : ~(text[h] = 0)
  <2>3. end = CHOOSE k \in 1..(n + 1) : P(k)
    BY <1>3
  <2> HIDE DEF n
  <2>4. n + 1 \in 1..(n + 1) /\ P(n + 1)
    BY <2>1, <2>2
  <2>5. \A k \in 1..(n + 1) : P(k) => k = n + 1
    BY <2>1, <2>2
  <2> HIDE DEF end, P
  <2> QED BY <2>3, <2>4, <2>5
<1> HIDE DEF end
<1>6. get_value(s, key) = SubSeq(decoded.text, 1, end - 1)
  BY <1>1, <1>3, <1>4
<1>7. SubSeq(text, 1, n) = text /\ end - 1 = n
  BY <1>5
<1> QED BY <1>3, <1>6, <1>7

LEMMA BothParameters ==
  ASSUME NEW k1, NEW e1, NEW k2, NEW e2, Sending(k1, e1, k2, e2),
         NEW s, Layout(s, k1, e1, k2, e2)
  PROVE  find_value(s, k1) = <<e1>> /\ find_value(s, k2) = <<e2>>
<1>1. k1 \in Seq(Sent) /\ e1 \in Seq(Sent) /\ k2 \in Seq(Sent) /\ e2 \in Seq(Sent)
  BY DEF Sending
<1>2. find_value(s, k1) = <<e1>>
  BY <1>1, FirstParameter
<1>3. find_value(s, k2) = <<e2>>
  BY SecondParameter
<1> QED BY <1>2, <1>3

\* What may stand in a query as it is.
Plain(text) ==
  /\ text \in Seq(Octets)
  /\ \A i \in 1..Len(text) : text[i] \notin {Percent, Ampersand, Equals}

LEMMA PlainNames ==
  ASSUME NEW branch \in Names
  PROVE  Plain(branch) /\ Plain(branch \o DOT_MANIFEST)
<1>1. Plain(branch)
  BY ParameterTexts DEF Names, Plain, Octets
<1> DEFINE dot == DOT_MANIFEST
<1>2. Plain(dot)
  <2>1. dot \in Seq(Octets)
    BY DEF DOT_MANIFEST, Octets
  <2>2. \A i \in 1..Len(dot) : dot[i] \notin {37, 38, 61}
    BY DEF DOT_MANIFEST
  <2> QED BY <2>1, <2>2 DEF Plain, Percent, Ampersand, Equals
<1> HIDE DEF dot
<1> DEFINE both == branch \o dot
<1>3. both \in Seq(Octets) /\ Len(both) = Len(branch) + Len(dot)
      /\ Len(branch) \in Nat /\ Len(dot) \in Nat
  BY <1>1, <1>2 DEF Plain
<1>4. ASSUME NEW i \in 1..Len(both) PROVE both[i] \notin {Percent, Ampersand, Equals}
  <2>1. CASE i <= Len(branch)
    <3>1. both[i] = branch[i] /\ i \in 1..Len(branch)
      BY <1>1, <1>2, <1>3, <2>1 DEF Plain
    <3> QED BY <1>1, <3>1 DEF Plain
  <2>2. CASE i > Len(branch)
    <3>1. both[i] = dot[i - Len(branch)] /\ i - Len(branch) \in 1..Len(dot)
      BY <1>1, <1>2, <1>3, <2>2 DEF Plain
    <3> QED BY <1>2, <3>1 DEF Plain
  <2> QED BY <1>3, <2>1, <2>2
<1>5. Plain(both)
  BY <1>3, <1>4 DEF Plain
<1> QED BY <1>1, <1>5 DEF dot, both

LEMMA PlainSent == ASSUME NEW text, Plain(text) PROVE text \in Seq(Sent)
<1>1. text \in Seq(Octets) /\ Len(text) \in Nat
  BY DEF Plain
<1>2. ASSUME NEW i \in 1..Len(text) PROVE text[i] \in Sent
  <2>1. text[i] \in Octets /\ text[i] # Ampersand /\ text[i] # Equals
    BY <1>1 DEF Plain
  <2>2. Octets \subseteq Nat
    BY DEF Octets
  <2>3. text[i] \in Nat
    BY <2>1, <2>2
  <2> QED BY <2>1, <2>3 DEF Sent
<1>3. text \in [1..Len(text) -> Sent]
  <2>1. text \in [1..Len(text) -> Octets]
    BY <1>1
  <2> QED BY <1>2, <2>1
<1> QED BY <1>1, <1>3

LEMMA QueryKeys ==
  /\ QUERY_BRANCH \in Seq(Sent) /\ QUERY_FILE \in Seq(Sent)
  /\ Len(QUERY_BRANCH) > 0 /\ \A i \in 1..Len(QUERY_FILE) : QUERY_FILE[i] # QUERY_BRANCH[1]
  /\ Len(QUERY_FILE) > 0 /\ \A i \in 1..Len(QUERY_BRANCH) : QUERY_BRANCH[i] # QUERY_FILE[1]
<1>1. QUERY_BRANCH \in Seq(Sent) /\ QUERY_FILE \in Seq(Sent)
  BY DEF QUERY_BRANCH, QUERY_FILE, Sent, Equals, Ampersand
<1>2. /\ Len(QUERY_BRANCH) > 0 /\ \A i \in 1..Len(QUERY_FILE) : QUERY_FILE[i] # QUERY_BRANCH[1]
      /\ Len(QUERY_FILE) > 0 /\ \A i \in 1..Len(QUERY_BRANCH) : QUERY_BRANCH[i] # QUERY_FILE[1]
  BY DEF QUERY_BRANCH, QUERY_FILE
<1> QED BY <1>1, <1>2

\* The names the autoupdater asks for arrive, but for their "+".
LEMMA NamesArrive ==
  ASSUME Init, call.name = "query_string_get_value", ~call.encoded
  PROVE  /\ get_value(call.query, QUERY_BRANCH) = PlusAsSpace(call.branch)
         /\ get_value(call.query, QUERY_FILE) = PlusAsSpace(call.file)
<1>1. ASSUME NEW branch, NEW image, Plain(branch), Plain(image)
      PROVE  LET query == proxy_image_url_cb(branch, image)
             IN  /\ get_value(query, QUERY_BRANCH) = PlusAsSpace(branch)
                 /\ get_value(query, QUERY_FILE) = PlusAsSpace(image)
  <2> DEFINE query == proxy_image_url_cb(branch, image)
  <2>1. branch \in Seq(Sent) /\ image \in Seq(Sent)
    BY <1>1, PlainSent
  <2>2. Layout(query, QUERY_BRANCH, branch, QUERY_FILE, image)
    BY <2>1, QueryKeys, LayoutIs DEF proxy_image_url_cb
  <2>3. Sending(QUERY_BRANCH, branch, QUERY_FILE, image)
    BY <2>1, QueryKeys DEF Sending
  <2> HIDE DEF query
  <2>4. /\ find_value(query, QUERY_BRANCH) = <<branch>>
        /\ find_value(query, QUERY_FILE) = <<image>>
    BY <2>2, <2>3, BothParameters
  <2>5. ASSUME NEW text, Plain(text), NEW key, find_value(query, key) = <<text>>
        PROVE  get_value(query, key) = PlusAsSpace(text)
    <3>1. text \in Seq(Octets) /\ \A i \in 1..Len(text) : text[i] # Percent
      BY <2>5 DEF Plain
    <3>2. /\ PlusAsSpace(text) \in Seq(Octets)
          /\ decode_value(text) = [end |-> "ok", text |-> PlusAsSpace(text)]
      BY <3>1, PlainDecoded
    <3> QED BY <2>5, <3>2, ValueIs
  <2> QED BY <1>1, <2>4, <2>5 DEF query
<1>2. PICK branch \in Names :
        \E image \in Names \cup {branch \o DOT_MANIFEST} :
          call = Ask(branch, image, proxy_image_url_cb(branch, image), FALSE)
  BY Called
<1>3. PICK image \in Names \cup {branch \o DOT_MANIFEST} :
        call = Ask(branch, image, proxy_image_url_cb(branch, image), FALSE)
  BY <1>2
<1>4. Plain(branch) /\ Plain(image)
  BY PlainNames
<1>5. /\ call.branch = branch /\ call.file = image
      /\ call.query = proxy_image_url_cb(branch, image)
  BY <1>3 DEF Ask
<1> QED BY <1>1, <1>4, <1>5

\* Both parameters of an encoding client come back, in whatever order they were sent.
LEMMA EncodedArrive ==
  ASSUME Init, call.name = "query_string_get_value", call.encoded
  PROVE  get_value(call.query, QUERY_BRANCH) = call.branch /\ get_value(call.query, QUERY_FILE) = call.file
<1>1. QUERY_BRANCH \in Seq(Sent) /\ QUERY_FILE \in Seq(Sent)
  BY QueryKeys
<1>2. ASSUME NEW text \in Seq(Octets) PROVE Encode(text) \in Seq(Sent)
  <2>1. PICK encode : Encoding(text, encode)
    BY EncodingIs
  <2>2. 1 \in 1..(Len(text) + 1)
    OBVIOUS
  <2> QED BY <2>1, <2>2 DEF Encoding
<1>3. ASSUME NEW branch \in Seq(Octets), NEW file \in Seq(Octets),
             NEW query \in Queries(branch, file)
      PROVE  get_value(query, QUERY_BRANCH) = branch /\ get_value(query, QUERY_FILE) = file
  <2> DEFINE b == Encode(branch)
             f == Encode(file)
  <2>1. b \in Seq(Sent) /\ f \in Seq(Sent)
    BY <1>2
  <2>2. \/ query = Pair(QUERY_BRANCH, branch) \o <<Ampersand>> \o Pair(QUERY_FILE, file)
        \/ query = Pair(QUERY_FILE, file) \o <<Ampersand>> \o Pair(QUERY_BRANCH, branch)
    BY DEF Queries
  <2>3. \/ Layout(query, QUERY_BRANCH, b, QUERY_FILE, f)
        \/ Layout(query, QUERY_FILE, f, QUERY_BRANCH, b)
    <3> HIDE DEF b, f
    <3>1. Pair(QUERY_BRANCH, branch) = QUERY_BRANCH \o <<Equals>> \o b
      BY DEF Pair, b
    <3>2. Pair(QUERY_FILE, file) = QUERY_FILE \o <<Equals>> \o f
      BY DEF Pair, f
    <3>3. Layout((QUERY_BRANCH \o <<Equals>> \o b) \o <<Ampersand>> \o (QUERY_FILE \o <<Equals>> \o f),
                 QUERY_BRANCH, b, QUERY_FILE, f)
      BY <1>1, <2>1, LayoutIs
    <3>4. Layout((QUERY_FILE \o <<Equals>> \o f) \o <<Ampersand>> \o (QUERY_BRANCH \o <<Equals>> \o b),
                 QUERY_FILE, f, QUERY_BRANCH, b)
      BY <1>1, <2>1, LayoutIs
    <3> QED BY <2>2, <3>1, <3>2, <3>3, <3>4
  <2> HIDE DEF b, f
  <2>4. CASE Layout(query, QUERY_BRANCH, b, QUERY_FILE, f)
    <3>1. Sending(QUERY_BRANCH, b, QUERY_FILE, f)
      BY <2>1, QueryKeys DEF Sending
    <3>2. find_value(query, QUERY_BRANCH) = <<b>> /\ find_value(query, QUERY_FILE) = <<f>>
      BY <2>4, <3>1, BothParameters
    <3> QED BY <3>2, RoundTrip, ValueIs DEF b, f
  <2>5. CASE Layout(query, QUERY_FILE, f, QUERY_BRANCH, b)
    <3>1. Sending(QUERY_FILE, f, QUERY_BRANCH, b)
      BY <2>1, QueryKeys DEF Sending
    <3>2. find_value(query, QUERY_BRANCH) = <<b>> /\ find_value(query, QUERY_FILE) = <<f>>
      BY <2>5, <3>1, BothParameters
    <3> QED BY <3>2, RoundTrip, ValueIs DEF b, f
  <2> QED BY <2>3, <2>4, <2>5
<1>4. PICK branch \in Texts, file \in Texts :
        \E query \in Queries(branch, file) : call = Ask(branch, file, query, TRUE)
  BY Called
<1>5. PICK query \in Queries(branch, file) : call = Ask(branch, file, query, TRUE)
  BY <1>4
<1>6. branch \in Seq(Octets) /\ file \in Seq(Octets)
  BY ParameterTexts DEF Octets
<1>7. call.branch = branch /\ call.file = file /\ call.query = query
  BY <1>5 DEF Ask
<1> QED BY <1>3, <1>6, <1>7

\* The proxy gets what it was asked for, but for the "+" of a client that does not encode.
THEOREM QueryTheorem == Spec => []ParametersArrive
<1>1. Init => ParametersArrive
  BY NamesArrive, EncodedArrive DEF ParametersArrive
<1> QED BY <1>1, Calls, PTL
===============================================================================
