--------------------------- MODULE MCManifestCheck ---------------------------
(***************************************************************************)
(* A small instance of ManifestCheck for TLC.  What a line says is one     *)
(* character: "d1" is a date, "s1" the signature of "k1", "x" what no      *)
(* signer wrote.                                                           *)
(***************************************************************************)
EXTENDS ManifestCheck

-------------------------------------------------------------------------------
(* Manifests                                                               *)

New == <<49, 50>>   \* version "12"
Old == <<50>>       \* version "2"

Entry(version, hash) ==
  [key |-> "model", hash |-> hash, entry |-> [version |-> version, file |-> hash]]

MCSeparator == <<"-">>

\* A day, none, a part of a day, less than nothing, and what is no real number.
Priority == [p1 |-> Day, p2 |-> 0, p3 |-> 3, p4 |-> -3, p5 |-> -2 * Day,
             p6 |-> NaN, p7 |-> Infinite]

MCField(line) ==
  CASE line = <<"b">>  -> [key |-> "branch"]
    [] line = <<"d1">> -> [key |-> "date", value |-> 10]
    [] line = <<"d2">> -> [key |-> "date", value |-> 20]
    [] line = <<"d0">> -> [key |-> "date", value |-> Null]
    [] Len(line) = 1 /\ line[1] \in DOMAIN Priority ->
         [key |-> "priority", value |-> Priority[line[1]]]
    [] line = <<"e1">> -> Entry(New, "hash1")
    [] line = <<"e2">> -> Entry(Old, "hash2")
    [] line = <<"eh">> -> [key |-> "model", hash |-> "hash2", entry |-> Null]
    [] OTHER           -> [key |-> "other"]

MCIsSignature(line) == line \in {<<"s1">>, <<"s2">>}

\* The signers sign what they wrote themselves.
MCVerifies(s, k, h) ==
  /\ s = IF k = "k1" THEN <<"s1">> ELSE <<"s2">>
  /\ \A i \in 1..Len(h) : \A c \in 1..Len(h[i]) : h[i][c] # "x"

MCCharacters == {"b", "d0", "d1", "d2", "e1", "e2", "eh", "x", "s1", "s2",
                 "-", Newline, Nul} \cup DOMAIN Priority

Complete == <<"b", "d1", "p1", "e1", "-", "s1", "s2">>

\* The text with a newline behind each line.
Text1(lines) ==
  LET text[i \in 0..Len(lines)] ==
        IF i = 0 THEN <<>> ELSE text[i - 1] \o lines[i] \o <<Newline>>
  IN  text[Len(lines)]

Lines == [i \in 1..Len(Complete) |-> <<Complete[i]>>]

\* One line more, at any place.
Inserted ==
  {Text1(SubSeq(Lines, 1, i) \o <<line>> \o SubSeq(Lines, i + 1, Len(Lines))) :
     i \in 0..Len(Lines),
     line \in {<<"d2">>, <<"d0">>, <<"p2">>, <<"e2">>, <<"eh">>, <<"x">>, <<"s1">>,
               <<"-">>, <<>>, <<"x", "e2">>, <<"e2", Nul, "x">>}}

\* One line less, a line that is too long, no newline at the end.
Changed ==
  {Text1(SubSeq(Lines, 1, i - 1) \o SubSeq(Lines, i + 1, Len(Lines))) :
     i \in 1..Len(Lines)}
    \cup {Text1(<<<<"x", "x", "x">>>> \o Lines),
          SubSeq(Text1(Lines), 1, 2 * Len(Lines) - 1)}

\* Another priority.
Prioritised(p) == Text1([Lines EXCEPT ![3] = <<p>>])
Reprioritised == {Prioritised(p) : p \in DOMAIN Priority}

\* Two signatures of one signer.
Doubled == {Text1(SubSeq(Lines, 1, Len(Lines) - 1) \o <<Lines[Len(Lines) - 1]>>)}

MCTexts == Doubled \cup Reprioritised \cup Inserted \cup Changed

MCNodes ==
  LET N(old, force, fv, fallback, now, uptime) ==
        [old_version |-> old, force |-> force, force_version |-> fv,
         fallback |-> fallback, now |-> now, uptime |-> uptime]
  IN  {N(Old, FALSE, FALSE, fallback, now, 600) :
         fallback \in BOOLEAN, now \in {5, 10, 14, 30}}
        \cup {N(Old, FALSE, FALSE, FALSE, 5, 0), N(New, TRUE, FALSE, FALSE, 5, 0),
              N(New, FALSE, TRUE, FALSE, 30, 0), N(Null, TRUE, FALSE, TRUE, 5, 0)}
===============================================================================
