---------------------------- MODULE PureFunctions ----------------------------
(***************************************************************************)
(* Calls of the functions of Version, Schedule, Lists and QueryString,     *)
(* which keep no state: each state is one call, with its arguments.        *)
(***************************************************************************)
EXTENDS Version, Schedule, Lists, QueryString, FiniteSets

\* BOUNDS: the arguments.
CONSTANTS Versions, Years, Spans, MirrorLists, KeyLists, Lengths, Texts

ASSUME ArgumentsAssumption ==
  /\ Versions \subseteq Seq(1..127)
  /\ Years \subseteq 1970..9999
  /\ Spans \subseteq Int
  /\ \A mirrors \in MirrorLists : mirrors \in Seq({mirrors[k] : k \in DOMAIN mirrors})
  /\ KeyLists \subseteq Seq(Seq(1..127))
  /\ Lengths \subseteq Nat \ {0}
  \* RAND_MAX is at least 32767, which is enough for 181 mirrors.
  /\ \A n \in Lengths : n * (n - 1) <= RandMax
  /\ Texts \subseteq Seq(1..255)

VARIABLE call

Compare(a, b) == [name |-> "newer_than", a |-> a, b |-> b]
Read(date, zone) == [name |-> "parse_rfc3339", date |-> date, zone |-> zone]
Chance(diff, span) ==
  [name |-> "get_probability", diff |-> diff, span |-> span]
Pick(mirrors, k) == [name |-> "main", mirrors |-> mirrors, k |-> k]
Shuffle(wanted) == [name |-> "ARRAY_SHUFFLE", wanted |-> wanted]
Ask(branch, file, query, encoded) ==
  [name |-> "query_string_get_value", branch |-> branch, file |-> file,
   query |-> query, encoded |-> encoded]
Load(keys) == [name |-> "load_settings", keys |-> keys]

\* The orders of n entries.
Orders(n) == {f \in [1..n -> 1..n] : \A i, k \in 1..n : f[i] = f[k] => i = k}

\* The texts without a character that means something else in a query, but for "+",
\* which versions and so image names may have.
Names == {text \in Texts : \A i \in 1..Len(text) :
                              text[i] \notin {Percent, Ampersand, Equals}}

\* The encoded parameters of a query, in any order.
Pair(key, text) == key \o <<Equals>> \o Encode(text)
Queries(branch, file) ==
  LET b == Pair(QUERY_BRANCH, branch)
      f == Pair(QUERY_FILE, file)
  IN  {b \o <<Ampersand>> \o f, f \o <<Ampersand>> \o b}

\* A moment in UTC.
Moment(year, month, day, second) ==
  [year |-> year, month |-> month, day |-> day, second |-> second, sign |-> "+",
   zone |-> 0]

Init ==
  \/ \E a, b \in Versions : call = Compare(a, b)
  \/ \E year \in Years, month \in 1..12 : \E day \in 1..DaysIn(year, month) :
       \E second \in {0, Day - 1}, zone \in {0, Day \div 2, Day} :
         call = Read(Moment(year, month, day, second), zone)
  \/ \E span \in Spans : \E diff \in 0..(span + 3 * Day) :
       call = Chance(diff, span)
  \/ \E mirrors \in MirrorLists : \E k \in Left(mirrors) : call = Pick(mirrors, k)
  \/ \E keys \in KeyLists : call = Load(keys)
  \/ \E n \in Lengths : \E wanted \in Orders(n) : call = Shuffle(wanted)
  \/ \E branch, image \in Names :
       call = Ask(branch, image, proxy_image_url_cb(branch, image), FALSE)
  \/ \E branch \in Names :
       call = Ask(branch, branch \o DOT_MANIFEST, proxy_manifest_url_cb(branch), FALSE)
  \/ \E branch, file \in Texts : \E query \in Queries(branch, file) :
       call = Ask(branch, file, query, TRUE)

\* The calls have nothing to do with each other.
Next == UNCHANGED call

Spec == Init /\ [][Next]_call

\* The valid ones of the first i keys; each is to keep its place among them.
ValidUpTo(keys, i) ==
  {h \in 1..i : \E bytes \in [1..KeyLength -> 0..255] :
     IsKeyText(keys[h], bytes) /\ Loads(bytes) /\ IsValidKey(bytes)}

-------------------------------------------------------------------------------
(* Properties                                                              *)

\* newer_than is the lexicographic order of the keys, so two nodes never upgrade
\* to each other's version and a chain of upgrades never comes back: numbers
\* count by their value whatever their length, "~" is before the end of a version.
NewerIsLexicographic ==
  call.name = "newer_than" =>
    (newer_than(call.a, call.b) <=> Greater(Key(call.a), Key(call.b)))

\* parse_rfc3339 counts the seconds since 1970 in UTC: every day of the calendar
\* is a day longer than the one before, and a moment is the same number in
\* whatever zone it is written, also over the end of a month or a year.
DateIsUtc ==
  /\ DaysOf(1970, 1, 1) = 0
  /\ call.name = "parse_rfc3339" =>
       LET utc == parse_rfc3339(call.date)
           East == [Later(call.date, call.zone) EXCEPT !.zone = call.zone]
           West == [call.date EXCEPT !.zone = call.zone, !.sign = "-"]
       IN  parse_rfc3339(East) = utc /\ parse_rfc3339(West) = utc + call.zone

\* From the date of a manifest on the chance grows from zero, never falls, reaches
\* one when the span ends and is as far from zero at any time after its start as
\* from one at the same time before its end.  A fallback run is no more likely
\* than another, and certain a day after the span.
ChanceGrowsToCertainty ==
  call.name = "get_probability" =>
    LET diff == call.diff
        span == call.span
        Normal(d) == get_probability(d, 0, span, FALSE)
        Fallback == get_probability(diff, 0, span, TRUE)
    IN  /\ AtMost(<<0, 1>>, Normal(diff)) /\ AtMost(Normal(diff), Normal(diff + 1))
        /\ AtMost(Normal(diff), <<1, 1>>) /\ AtMost(Fallback, Normal(diff))
        /\ diff \in 1..(span - 1) =>
             Normal(diff)[1] + Normal(span - diff)[1] = Normal(diff)[2]
        /\ diff >= span => AtMost(<<1, 1>>, Normal(diff))
        /\ diff >= span + Day => AtMost(<<1, 1>>, Fallback)

\* With n mirrors left, the n values of random() % mirrors_left lead main() to the
\* n entries that are left: none is missed, none is met twice, and the walk
\* over the entries that are NULL stays in the list.
WalkReachesEachMirror ==
  call.name = "main" =>
    Walk(call.mirrors, Cardinality({h \in Left(call.mirrors) : h < call.k})) = call.k

\* The keys signatures are checked with are the valid keys of the configuration:
\* an invalid one neither takes the place of a good one nor stays in the list.
KeepsValidKeys ==
  call.name = "load_settings" =>
    LET loaded == PublicKeys(call.keys)
        Place(i) == Cardinality(ValidUpTo(call.keys, i))
    IN  /\ Len(loaded) = Place(Len(call.keys))
        /\ \A i \in ValidUpTo(call.keys, Len(call.keys)) :
             IsKeyText(call.keys[i], loaded[Place(i)])

\* Every draw of the proxy stays in the list and keeps each mirror once, and any
\* order can come out, so that no mirror is asked first by every request.
ShuffleGivesEachOrder ==
  call.name = "ARRAY_SHUFFLE" =>
    LET n == Len(call.wanted)
        Shuffled(draws) == ARRAY_SHUFFLE([i \in 1..n |-> i], draws, RandMax)
        Draws == [1..(n - 1) -> 0..RandMax]
    IN  /\ \A draws \in Draws : Shuffled(draws) \in Orders(n)
        /\ \E draws \in Draws : Shuffled(draws) = call.wanted

\* What becomes of "+".
PlusAsSpace(text) ==
  [i \in 1..Len(text) |-> IF text[i] = Plus THEN Space ELSE text[i]]

\* The proxy finds the branch and the file it is asked for, whatever they have in
\* common with a parameter's name.  The autoupdater puts them into the query as they
\* are, and each "+" in them is taken for a space: a name with "+" is not the one it
\* meant.  From a client that encodes them they come back whatever is in them:
\* separators, "+", or text that looks like an escape, which is decoded once.
ParametersArrive ==
  call.name = "query_string_get_value" =>
    LET Arriving(text) == IF call.encoded THEN text ELSE PlusAsSpace(text)
    IN  /\ get_value(call.query, QUERY_BRANCH) = Arriving(call.branch)
        /\ get_value(call.query, QUERY_FILE) = Arriving(call.file)
===============================================================================
