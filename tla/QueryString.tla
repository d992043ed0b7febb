------------------------------ MODULE QueryString ------------------------------
(***************************************************************************)
(* How the proxy reads its parameters: query_string_find_value, _decode_   *)
(* value and _get_value of src/autoupdater-proxy/src/proxy.c.  Strings are *)
(* sequences of character codes without the final NUL.                     *)
(***************************************************************************)
EXTENDS Integers, Sequences

Percent   == 37
Ampersand == 38
Plus      == 43
Equals    == 61
Space     == 32

\* Does key stand at position i of s?
StandsAt(key, s, i) == i + Len(key) - 1 <= Len(s) /\ SubSeq(s, i, i + Len(key) - 1) = key

\* strstr and strchr: the first position from i on, or behind the end.
Find(P(_), s, i) ==
  CHOOSE k \in i..(Len(s) + 1) :
    (k = Len(s) + 1 \/ P(k)) /\ \A h \in i..(k - 1) : ~P(h)

\* The end of the value that starts at i.
ValueEnd(s, i) == LET IsEnd(k) == s[k] = Ampersand IN Find(IsEnd, s, i)

\* Mutant: the first place where the key stands is taken, without a look for "=".
find_value_unchecked(s, key) ==
  LET Here(k) == StandsAt(key, s, k)
      res == Find(Here, s, 1) + Len(key)
  IN  IF res > Len(s) THEN <<>>
      ELSE <<SubSeq(s, res + 1, ValueEnd(s, res + 1) - 1)>>

\* query_string_find_value: <<the value>>, or <<>> when there is none.  The key is
\* looked for anywhere; what matters is the "=" behind it.
find_value(s, key) ==
  LET Here(k) == StandsAt(key, s, k)
      from[i \in 1..(Len(s) + 1)] ==
        LET res == Find(Here, s, i) + Len(key)
        IN  IF res > Len(s) THEN <<>>
            ELSE IF s[res] = Equals
            THEN <<SubSeq(s, res + 1, ValueEnd(s, res + 1) - 1)>>
            ELSE from[res + 1]
  IN  from[1]

\* hex_to_nibble; what is no digit counts as zero.
Nibble(c) ==
  CASE c \in 48..57  -> c - 48
    [] c \in 65..70  -> c - 55
    [] c \in 97..102 -> c - 87
    [] OTHER         -> 0

\* The place behind the escape at i.
Behind(i) == i + 3

\* query_string_decode_value: the text, and whether it is "ok", "invalid" (NULL is
\* returned) or "undefined" (memmove gets a negative length).
decode_value(value) ==
  LET t == [i \in DOMAIN value |-> IF value[i] = Plus THEN Space ELSE value[i]]
      End(e) == [end |-> e, text |-> <<>>]
      Then(c, r) == [r EXCEPT !.text = <<c>> \o @]
      from[i \in 1..(Len(t) + 1)] ==
        IF i > Len(t) THEN End("ok")
        ELSE IF t[i] # Percent THEN Then(t[i], from[i + 1])
        ELSE IF i = Len(t) THEN End("invalid")
        ELSE IF i = Len(t) - 1 THEN End("undefined")
        ELSE Then(16 * Nibble(t[i + 1]) + Nibble(t[i + 2]), from[Behind(i)])
  IN  from[1]

\* query_string_get_value: the decoded value up to its first NUL, or why there is none.
get_value(s, key) ==
  LET found == find_value(s, key)
      decoded == decode_value(found[1])
      IsNul(k) == decoded.text[k] = 0
  IN  CASE found = <<>> -> "invalid"
        [] found # <<>> /\ decoded.end # "ok" -> decoded.end
        [] found # <<>> /\ decoded.end = "ok" ->
             SubSeq(decoded.text, 1, Find(IsNul, decoded.text, 1) - 1)

-------------------------------------------------------------------------------
(* Queries                                                                 *)

QUERY_BRANCH == <<98, 114, 97, 110, 99, 104>>
QUERY_FILE   == <<102, 105, 108, 101>>

DOT_MANIFEST == <<46, 109, 97, 110, 105, 102, 101, 115, 116>>

\* What the autoupdater asks a neighbour's proxy for: the query of its URLs, into
\* which branch and file name go as they are.
proxy_image_url_cb(branch, image) ==
  (QUERY_BRANCH \o <<Equals>> \o branch)
    \o <<Ampersand>> \o (QUERY_FILE \o <<Equals>> \o image)

proxy_manifest_url_cb(branch) == proxy_image_url_cb(branch, branch \o DOT_MANIFEST)

\* Other clients (the script is open to all) may encode their parameters in the way
\* query_string_decode_value decodes them; the autoupdater does not.
Digit(n) == IF n < 10 THEN 48 + n ELSE 55 + n

\* Letters as they are, a space as "+", any other character as its code.
Escape(c) ==
  CASE c \in 97..122 -> <<c>>
    [] c = Space     -> <<Plus>>
    [] OTHER         -> <<Percent, Digit(c \div 16), Digit(c % 16)>>

\* encode[i] is what the text from i on becomes.
Encode(text) ==
  LET encode[i \in 1..(Len(text) + 1)] ==
        IF i > Len(text) THEN <<>> ELSE Escape(text[i]) \o encode[i + 1]
  IN  encode[1]
===============================================================================
