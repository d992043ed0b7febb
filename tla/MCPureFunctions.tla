--------------------------- MODULE MCPureFunctions ---------------------------
(* A small instance of PureFunctions for TLC.                              *)
EXTENDS PureFunctions

\* All strings of up to three of the characters 0 1 2 a ~ and the dot.
MCVersions == UNION {[1..n -> {48, 49, 50, 97, 126, 46}] : n \in 0..3}

\* Common years and leap years, with the exceptions of 2000, 2100 and 2400.
MCYears == (1970..1973) \cup (1999..2001) \cup (2099..2101) \cup (2399..2401)

\* No, less than no, a part of a day's and some days' span.
MCSpans == {-16, -3, 0, 1, 5, 8, 16, 24}

MCMirrorLists == UNION {[1..n -> {"mirror", Removed}] : n \in 1..5}

\* "0a", "0A" and "Bc" are good keys; "f7" and "F8" fail the tests of the curve; "0g",
\* "0" and "0a0" are no keys of one byte.
MCKeyLists ==
  UNION {[1..n -> {<<48, 97>>, <<48, 65>>, <<66, 99>>, <<102, 55>>, <<70, 56>>,
                   <<48, 103>>, <<48>>, <<48, 97, 48>>}] : n \in 0..3}
MCLoads(bytes) == bytes # <<247>>
MCIsValidKey(bytes) == bytes # <<248>>

\* All short texts of "f", "b", "%", "+", space, "2", ".", "=", "&" and a byte above
\* 127, and some that hold a parameter.
MCTexts == UNION {[1..n -> {98, 102, 37, 43, 32, 50, 46, 61, 38, 195}] : n \in 0..2}
             \cup {QUERY_BRANCH, QUERY_FILE, QUERY_FILE \o <<61, 50>>,
                   <<38>> \o QUERY_FILE \o <<61>>, <<37, 50, 53, 37, 50>>}
===============================================================================
